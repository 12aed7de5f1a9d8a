----------------------- MODULE SchemaEvolutionProofs -----------------------
(***************************************************************************)
(* Proofs about SchemaEvolution, for every set of ids, names and types.    *)
(* The gate looks at two consecutive schemas; what is proved is about the  *)
(* first and the last of any number of them, so it rests on the rules      *)
(* being transitive.                                                       *)
(***************************************************************************)
EXTENDS SchemaEvolution, TLAPS

(* A schema maps each of its ids to a field.                               *)
LEMMA SchemaFields ==
    ASSUME NEW s \in Schemas, NEW id \in DOMAIN s
    PROVE  s[id] \in Field
BY DEF Schemas

(* A column that evolves loses no value it could take.                     *)
LEMMA ValuesGrow ==
    ASSUME NEW old \in Field, NEW new \in Field, FieldEvolves(old, new)
    PROVE  Values(old) \subseteq Values(new)
<1>1. old.precision \in Int /\ new.precision \in Int /\ MaxPrecision \in Nat
  BY SchemaAssumption DEF Field
<1>2. CASE old.type = "decimal" /\ new.type = "decimal"
  <2>1. old.precision <= new.precision
    BY <1>1, <1>2 DEF FieldEvolves
  <2>2. Values(old) = {"decimal"} \X (0..old.precision)
           /\ Values(new) = {"decimal"} \X (0..new.precision)
    BY <1>2 DEF Values
  <2>3. 0..old.precision \subseteq 0..new.precision
    BY <1>1, <2>1
  <2> QED
    BY <2>2, <2>3
<1>3. CASE old.type = new.type /\ old.type # "decimal"
  BY <1>3 DEF Values
<1>4. CASE old.type # new.type
  <2>1. \/ old.type = "int" /\ new.type = "long"
        \/ old.type = "float" /\ new.type = "double"
    BY <1>4 DEF FieldEvolves, Widening
  <2> QED
    BY <2>1 DEF Values
<1> QED
  BY <1>2, <1>3, <1>4

(* A column that evolves still admits what it admitted.                    *)
LEMMA AdmissionGrows ==
    ASSUME TypeOK, NEW new \in Schemas, Evolve(new),
           NEW id \in DOMAIN schema, NEW value, Admits(id, value)
    PROVE  Admits(id, value)'
<1>1. id \in DOMAIN new /\ FieldEvolves(schema[id], new[id]) /\ schema' = new
  BY DEF Evolve, IsCompatible
<1>2. schema[id] \in Field /\ new[id] \in Field
  BY <1>1, SchemaFields DEF TypeOK
<1>3. Values(schema[id]) \subseteq Values(new[id])
  BY <1>1, <1>2, ValuesGrow
<1>4. new[id].required => schema[id].required
  BY <1>1 DEF FieldEvolves
<1>5. CASE value \in Values(schema[id])
  <2>1. value \in Values(new[id])
    BY <1>3, <1>5
  <2> QED
    BY <1>1, <2>1 DEF Admits
<1>6. CASE value = "null" /\ ~schema[id].required
  BY <1>1, <1>4, <1>6 DEF Admits
<1> QED
  BY <1>5, <1>6 DEF Admits

SchemaInv == TypeOK /\ ColumnsKeepIdentity /\ OldDataStaysReadable

(* The schema a table is created with satisfies the invariant.             *)
LEMMA SchemaInit == Init => SchemaInv
BY DEF Init, SchemaInv, TypeOK, ColumnsKeepIdentity, OldDataStaysReadable, Admits

(* An accepted change keeps the columns of the first schema in place.      *)
LEMMA IdentityStep ==
    ASSUME ColumnsKeepIdentity, NEW new \in Schemas, Evolve(new)
    PROVE  ColumnsKeepIdentity'
BY DEF ColumnsKeepIdentity, Evolve, IsCompatible, FieldEvolves

(* An accepted change keeps the data of the first schema readable.         *)
LEMMA ReadableStep ==
    ASSUME SchemaInv, NEW new \in Schemas, Evolve(new)
    PROVE  OldDataStaysReadable'
<1>1. schema' = new /\ first' = first
  BY DEF Evolve
<1> SUFFICES ASSUME NEW id \in DOMAIN new
             PROVE  IF id \in DOMAIN first
                    THEN /\ \A value \in Values(first[id]) : Admits(id, value)'
                         /\ ~first[id].required => Admits(id, "null")'
                    ELSE Admits(id, "null")'
  BY <1>1 DEF OldDataStaysReadable, Values
<1>2. CASE id \in DOMAIN schema
  <2>1. \A value : Admits(id, value) => Admits(id, value)'
    BY <1>2, AdmissionGrows DEF SchemaInv
  <2> QED
    BY <1>2, <2>1 DEF SchemaInv, OldDataStaysReadable
<1>3. CASE id \notin DOMAIN schema
  <2>1. id \notin DOMAIN first
    BY <1>3 DEF SchemaInv, ColumnsKeepIdentity
  <2>2. ~new[id].required
    BY <1>3 DEF Evolve, IsCompatible
  <2> QED
    BY <1>1, <2>1, <2>2 DEF Admits
<1> QED
  BY <1>2, <1>3

(* After any number of accepted changes, the data written at the start is  *)
(* readable and its columns are found under their ids and names.           *)
THEOREM SchemaIsBackwardCompatible ==
    Spec => []OldDataStaysReadable /\ []ColumnsKeepIdentity
<1>1. SchemaInv /\ [Next]_vars => SchemaInv'
  <2> SUFFICES ASSUME SchemaInv, [Next]_vars PROVE SchemaInv'
    OBVIOUS
  <2>1. ASSUME NEW new \in Schemas, Evolve(new) PROVE SchemaInv'
    <3>1. TypeOK'
      BY <2>1 DEF SchemaInv, TypeOK, Evolve
    <3> QED
      BY <2>1, <3>1, IdentityStep, ReadableStep DEF SchemaInv
  <2>2. CASE UNCHANGED vars
    BY <2>2 DEF vars, SchemaInv, TypeOK, ColumnsKeepIdentity,
                OldDataStaysReadable, Admits
  <2> QED
    BY <2>1, <2>2 DEF Next
<1>2. SchemaInv => OldDataStaysReadable /\ ColumnsKeepIdentity
  BY DEF SchemaInv
<1> QED
  BY <1>1, <1>2, SchemaInit, PTL DEF Spec
=============================================================================
