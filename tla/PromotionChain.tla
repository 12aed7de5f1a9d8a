--------------------------- MODULE PromotionChain ---------------------------
(***************************************************************************)
(* What the guard promises over time, whatever is proposed to it.  One     *)
(* measurement is the incumbent; at each step a proposal, measured somehow *)
(* (possibly as NaN or infinity), is put to evaluate_promotion against the *)
(* incumbent, and replaces it if promoted.  Nothing else happens to the    *)
(* table in between: this is the guard on its own, between two flushes.    *)
(***************************************************************************)
EXTENDS RegressionGuard

CONSTANTS Config,        \* the GuardConfig in use
          NonFinite,     \* the floats that math.isfinite refuses
          Measurements   \* what a shadow evaluation may report

ASSUME ChainAssumption ==
    /\ Config \in GuardConfig
    /\ NonFinite \cap Int = {}
    /\ Measurements \subseteq
           [p95_latency_ms : Nat \cup NonFinite,
            storage_cost : Nat \cup NonFinite,
            write_amplification : Nat \cup NonFinite, rows : Nat]

VARIABLES incumbent, decision

vars == <<incumbent, decision>>

NoDecision == [promote |-> FALSE, reasons |-> {"none"}]

Init ==
    /\ incumbent \in {m \in Measurements : HasFiniteMetrics(m)}
    /\ decision = NoDecision

Propose(candidate) ==
    /\ decision' = EvaluatePromotion(incumbent, candidate, Config)
    /\ incumbent' = IF decision'.promote THEN candidate ELSE incumbent

Next == \E candidate \in Measurements : Propose(candidate)

Spec == Init /\ [][Next]_vars

-----------------------------------------------------------------------------
\* Type correctness; the layout a measurement belongs to plays no role here.
TypeOK ==
    /\ incumbent \in Measurements
    /\ decision.promote \in BOOLEAN
    /\ decision.promote <=> decision.reasons = {}

\* A measurement that is not a number never becomes the incumbent, although
\* every comparison with NaN is false in Python (_validate_metrics).
IncumbentIsMeasured == HasFiniteMetrics(incumbent)

\* Every promotion keeps each guarded metric within its tolerance of what it
\* replaces and gains the required share of the objective, a baseline of zero
\* included, where the percentage in the code is not a quotient.
PromotionPaysOff ==
    [][incumbent' # incumbent =>
          /\ 100 * incumbent'.p95_latency_ms
                <= (100 + Config.latency_regression_tol_pct)
                       * incumbent.p95_latency_ms
          /\ 100 * incumbent'.storage_cost
                <= (100 + Config.storage_regression_tol_pct)
                       * incumbent.storage_cost
          /\ incumbent'.write_amplification - incumbent.write_amplification
                <= Config.write_amp_regression_tol_abs
          /\ 100 * Objective(incumbent', Config)
                <= (100 - Config.min_improvement_pct)
                       * Objective(incumbent, Config)]_vars

\* No sequence of proposals makes the guard thrash: it promotes only finitely
\* often, so two layouts can never displace each other for ever.
NoThrashing == <>[][FALSE]_incumbent
=============================================================================
