-------------------------- MODULE MCPromotionChain --------------------------
(* PromotionChain over a grid of measurements: zeros, values exactly at and *)
(* just beyond each tolerance, and a non-finite value for every metric.     *)
EXTENDS PromotionChain

MCConfig ==
    [min_improvement_pct |-> 5, latency_regression_tol_pct |-> 0,
     storage_regression_tol_pct |-> 10, write_amp_regression_tol_abs |-> 8,
     w_latency |-> 1, w_cost |-> 1, w_write_amp |-> 1]

MCMeasurements ==
    [p95_latency_ms : {0, 20, 21, 80} \cup NonFinite,
     storage_cost : {0, 10, 11, 12} \cup NonFinite,
     write_amplification : {0, 4, 9} \cup NonFinite,
     rows : {1000}]
=============================================================================
