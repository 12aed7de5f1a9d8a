------------------------ MODULE PromotionChainProofs ------------------------
(***************************************************************************)
(* Proofs about PromotionChain, for every GuardConfig and every set of     *)
(* measurements, non-finite ones included.                                 *)
(***************************************************************************)
EXTENDS PromotionChain, OperatorLemmas

(* Each proposal keeps the types.                                          *)
LEMMA ChainTypeStep == TypeOK /\ [Next]_vars => TypeOK'
<1> SUFFICES ASSUME TypeOK, [Next]_vars PROVE TypeOK'
  OBVIOUS
<1>1. ASSUME NEW candidate \in Measurements, Propose(candidate) PROVE TypeOK'
  <2>1. decision' = EvaluatePromotion(incumbent, candidate, Config)
           /\ incumbent' \in Measurements
    BY <1>1 DEF Propose, TypeOK
  <2> QED
    BY <2>1 DEF TypeOK, EvaluatePromotion
<1>2. CASE UNCHANGED vars
  BY <1>2 DEF vars, TypeOK
<1> QED
  BY <1>1, <1>2 DEF Next

(* A proposal that replaces the incumbent was promoted.                    *)
LEMMA ReplacedMeansPromoted ==
    [Next]_vars /\ incumbent' # incumbent =>
        EvaluatePromotion(incumbent, incumbent', Config).promote
BY DEF Next, Propose, vars

(* Each proposal keeps the incumbent's metrics finite.                     *)
LEMMA MeasuredStep ==
    IncumbentIsMeasured /\ [Next]_vars => IncumbentIsMeasured'
<1> SUFFICES ASSUME IncumbentIsMeasured, [Next]_vars PROVE IncumbentIsMeasured'
  OBVIOUS
<1>1. CASE incumbent' = incumbent
  BY <1>1 DEF IncumbentIsMeasured
<1>2. CASE incumbent' # incumbent
  BY <1>2, ReplacedMeansPromoted, PromotionIsSound, ChainAssumption
     DEF IncumbentIsMeasured
<1> QED
  BY <1>1, <1>2

LEMMA ChainInit == Init => TypeOK /\ IncumbentIsMeasured
BY DEF Init, NoDecision, TypeOK, IncumbentIsMeasured

(* The incumbent is one of the measurements, and a decision promotes just  *)
(* when it has no reason against it.                                       *)
THEOREM ChainIsTyped == Spec => []TypeOK
BY ChainInit, ChainTypeStep, PTL DEF Spec

(* No NaN and no infinity ever becomes the incumbent.                      *)
THEOREM ChainIsMeasured == Spec => []IncumbentIsMeasured
BY ChainInit, MeasuredStep, PTL DEF Spec

(* Every promotion in every chain stays within the tolerances and gains    *)
(* the required share of the objective.                                    *)
THEOREM ChainPaysOff == Spec => PromotionPaysOff
<1>1. [Next]_vars =>
          [incumbent' # incumbent =>
              /\ 100 * incumbent'.p95_latency_ms
                    <= (100 + Config.latency_regression_tol_pct)
                           * incumbent.p95_latency_ms
              /\ 100 * incumbent'.storage_cost
                    <= (100 + Config.storage_regression_tol_pct)
                           * incumbent.storage_cost
              /\ incumbent'.write_amplification - incumbent.write_amplification
                    <= Config.write_amp_regression_tol_abs
              /\ 100 * Objective(incumbent', Config)
                    <= (100 - Config.min_improvement_pct)
                           * Objective(incumbent, Config)]_vars
  BY ReplacedMeansPromoted, PromotionIsSound, ChainAssumption
<1> QED
  BY <1>1, PTL DEF Spec, PromotionPaysOff

(* Where some improvement is asked for, every promotion takes the          *)
(* objective, a natural number, strictly down: a chain that starts at n    *)
(* has at most n promotions, and no two layouts displace each other in     *)
(* turn.  NoThrashing is what follows of it.                               *)
ObjectiveFalls ==
    [][incumbent' # incumbent =>
          /\ Objective(incumbent, Config) \in Nat
          /\ Objective(incumbent', Config) \in Nat
          /\ Objective(incumbent', Config) < Objective(incumbent, Config)]_vars

LEMMA MeasuredIsNatural ==
    ASSUME NEW m \in Measurements, HasFiniteMetrics(m)
    PROVE  Objective(m, Config) \in Nat
<1>1. /\ m.p95_latency_ms \in Nat /\ m.storage_cost \in Nat
      /\ m.write_amplification \in Nat
  <2>1. /\ m.p95_latency_ms \in Nat \cup NonFinite
        /\ m.storage_cost \in Nat \cup NonFinite
        /\ m.write_amplification \in Nat \cup NonFinite
    BY ChainAssumption
  <2>2. \A x \in NonFinite : x \notin Int
    BY ChainAssumption
  <2> QED
    BY <2>1, <2>2 DEF HasFiniteMetrics
<1> QED
  BY <1>1, ObjectiveIsNatural, ChainAssumption

THEOREM ChainDescends ==
    ASSUME Config.min_improvement_pct > 0 PROVE Spec => ObjectiveFalls
<1>1. TypeOK /\ IncumbentIsMeasured /\ [Next]_vars =>
          [incumbent' # incumbent =>
              /\ Objective(incumbent, Config) \in Nat
              /\ Objective(incumbent', Config) \in Nat
              /\ Objective(incumbent', Config) < Objective(incumbent, Config)]_vars
  <2> SUFFICES ASSUME TypeOK, IncumbentIsMeasured, [Next]_vars,
                      incumbent' # incumbent
               PROVE  /\ Objective(incumbent, Config) \in Nat
                      /\ Objective(incumbent', Config) \in Nat
                      /\ Objective(incumbent', Config) < Objective(incumbent, Config)
    OBVIOUS
  <2>1. incumbent \in Measurements /\ incumbent' \in Measurements
           /\ HasFiniteMetrics(incumbent) /\ HasFiniteMetrics(incumbent')
    BY ChainTypeStep, MeasuredStep DEF TypeOK, IncumbentIsMeasured
  <2>2. Objective(incumbent, Config) \in Nat /\ Objective(incumbent', Config) \in Nat
    BY <2>1, MeasuredIsNatural
  <2>3. EvaluatePromotion(incumbent, incumbent', Config).promote
    BY ReplacedMeansPromoted
  <2> QED
    BY <2>2, <2>3, PromotionLowersObjective, ChainAssumption
<1> QED
  BY <1>1, ChainInit, ChainTypeStep, MeasuredStep, PTL DEF Spec, ObjectiveFalls
=============================================================================
