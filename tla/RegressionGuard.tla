--------------------------- MODULE RegressionGuard ---------------------------
(***************************************************************************)
(* maintenance/regression_guard.py: the promotion gate.  A measurement is  *)
(* shadow_eval.EvalResult, a record [layout, p95_latency_ms, storage_cost, *)
(* write_amplification, rows]; each metric is an integer or one of the     *)
(* non-finite floats, which are no integers.  Percentages are compared by  *)
(* cross-multiplication, exactly, where the code divides floats.           *)
(***************************************************************************)
EXTENDS Integers, FiniteSets

\* GuardConfig, with the objective's weights as natural numbers.
GuardConfig ==
    [min_improvement_pct : Nat, latency_regression_tol_pct : Nat,
     storage_regression_tol_pct : Nat, write_amp_regression_tol_abs : Nat,
     w_latency : Nat, w_cost : Nat, w_write_amp : Nat]

\* _validate_metrics: no NaN and no infinity among the three metrics.
HasFiniteMetrics(m) ==
    /\ m.p95_latency_ms \in Int
    /\ m.storage_cost \in Int
    /\ m.write_amplification \in Int

\* _objective: lower is better.
Objective(m, config) ==
    config.w_latency * m.p95_latency_ms + config.w_cost * m.storage_cost
        + config.w_write_amp * m.write_amplification

\* Mutant of PctChangeExceeds: from zero, no change is ever a regression.
PctChangeExceedsUnlessZero(new, old, tol) ==
    old # 0 /\ (new - old) * 100 > tol * old

\* _pct_change(new, old) > tol; from zero, any change is infinite.
PctChangeExceeds(new, old, tol) ==
    IF old = 0 THEN new # 0 ELSE (new - old) * 100 > tol * old

\* Mutant of ImprovementBelow: the threshold with the wrong sign.
LossAbove(cand, base, min) == (cand - base) * 100 > min * base

\* -_pct_change(cand, base) < min, with the same convention at zero.
ImprovementBelow(cand, base, min) ==
    IF base = 0 THEN cand # 0 \/ 0 < min ELSE (base - cand) * 100 < min * base

-----------------------------------------------------------------------------
\* The reasons evaluate_promotion collects against a candidate.
RejectReasons(baseline, candidate, config) ==
    {reason \in {"latency", "storage", "write_amplification", "improvement"} :
        CASE reason = "latency" ->
                PctChangeExceeds(candidate.p95_latency_ms,
                                 baseline.p95_latency_ms,
                                 config.latency_regression_tol_pct)
          [] reason = "storage" ->
                PctChangeExceeds(candidate.storage_cost, baseline.storage_cost,
                                 config.storage_regression_tol_pct)
          [] reason = "write_amplification" ->
                candidate.write_amplification - baseline.write_amplification
                    > config.write_amp_regression_tol_abs
          [] reason = "improvement" ->
                ImprovementBelow(Objective(candidate, config),
                                 Objective(baseline, config),
                                 config.min_improvement_pct)}

\* Mutant of EvaluatePromotion: no check for NaN and infinity.  No comparison
\* with NaN is true in Python, so no reason is ever found.
EvaluateUnvalidated(baseline, candidate, config) ==
    LET reasons == IF HasFiniteMetrics(baseline) /\ HasFiniteMetrics(candidate)
                   THEN RejectReasons(baseline, candidate, config)
                   ELSE {}
    IN  [promote |-> reasons = {}, reasons |-> reasons,
         baseline |-> baseline, candidate |-> candidate]

\* Mutant of EvaluatePromotion: a single objection does not stop a promotion.
EvaluateLeniently(baseline, candidate, config) ==
    LET reasons == IF HasFiniteMetrics(baseline) /\ HasFiniteMetrics(candidate)
                   THEN RejectReasons(baseline, candidate, config)
                   ELSE {"non-finite"}
    IN  [promote |-> Cardinality(reasons) <= 1, reasons |-> reasons,
         baseline |-> baseline, candidate |-> candidate]

\* evaluate_promotion: a GuardDecision with what it was decided on.  The rows
\* of the two measurements are recorded and never compared.
EvaluatePromotion(baseline, candidate, config) ==
    LET reasons == IF HasFiniteMetrics(baseline) /\ HasFiniteMetrics(candidate)
                   THEN RejectReasons(baseline, candidate, config)
                   ELSE {"non-finite"}
    IN  [promote |-> reasons = {}, reasons |-> reasons,
         baseline |-> baseline, candidate |-> candidate]
=============================================================================
