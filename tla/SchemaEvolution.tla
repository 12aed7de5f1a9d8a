--------------------------- MODULE SchemaEvolution ---------------------------
(***************************************************************************)
(* catalog/schema_evolution.py: the gate a producer's schema change has to *)
(* pass, applied to one change after the other.  A schema is the dict      *)
(* {field_id: field} that validate_evolution builds first; of two fields   *)
(* with the same id it keeps the later one, and looks at nothing else.     *)
(***************************************************************************)
EXTENDS Integers

CONSTANTS Ids, Names, Types,  \* field ids, column names, column types
          MaxPrecision        \* bound on decimal precision

ASSUME SchemaAssumption == MaxPrecision \in Nat

Field == [name : Names, type : Types, required : BOOLEAN,
          precision : 0..MaxPrecision]

Schemas == UNION {[ids -> Field] : ids \in SUBSET Ids}

VARIABLES
    schema,  \* the schema in force
    first    \* history: the schema the table was created with

vars == <<schema, first>>

-----------------------------------------------------------------------------
\* _WIDENING; the precision of a decimal is compared apart.
Widening == {<<"int", "long">>, <<"float", "double">>, <<"decimal", "decimal">>}

\* Mutant of FieldEvolves: the precision of a decimal is not compared.
FieldEvolvesAnyPrecision(old, new) ==
    /\ old.name = new.name
    /\ old.type # new.type => <<old.type, new.type>> \in Widening
    /\ new.required => old.required

\* What may become of a column that exists: no rename, a type widened if
\* changed, no narrower decimal, and never from optional to required.
FieldEvolves(old, new) ==
    /\ old.name = new.name
    /\ old.type # new.type => <<old.type, new.type>> \in Widening
    /\ old.type = "decimal" /\ new.type = "decimal" =>
           new.precision >= old.precision
    /\ new.required => old.required

\* Mutant of IsCompatible: a dropped column goes unnoticed.
IsCompatibleOnCommon(old, new) ==
    /\ \A id \in DOMAIN old \cap DOMAIN new : FieldEvolves(old[id], new[id])
    /\ \A id \in DOMAIN new \ DOMAIN old : ~new[id].required

\* validate_evolution raises nothing: no column dropped, each one evolves as
\* it may, and a new column is optional.
IsCompatible(old, new) ==
    /\ DOMAIN old \subseteq DOMAIN new
    /\ \A id \in DOMAIN old : FieldEvolves(old[id], new[id])
    /\ \A id \in DOMAIN new \ DOMAIN old : ~new[id].required

Init == schema \in Schemas /\ first = schema

\* A change that passes the gate is put in force.
Evolve(new) ==
    /\ IsCompatible(schema, new)
    /\ schema' = new
    /\ UNCHANGED first

Next == \E new \in Schemas : Evolve(new)

Spec == Init /\ [][Next]_vars

-----------------------------------------------------------------------------
\* Type correctness.
TypeOK == schema \in Schemas /\ first \in Schemas

\* The values a column takes, as far as the rules tell them apart: a long
\* holds every int and more, a decimal all values of its precision or less,
\* and an optional column also null.
Values(field) ==
    CASE field.type = "int"     -> {"int"}
      [] field.type = "long"    -> {"int", "long"}
      [] field.type = "float"   -> {"float"}
      [] field.type = "double"  -> {"float", "double"}
      [] field.type = "decimal" -> {"decimal"} \X (0..field.precision)
      [] OTHER                  -> {field.type}

Admits(id, value) ==
    value \in Values(schema[id]) \/ (value = "null" /\ ~schema[id].required)

\* Data written under the first schema stays readable after any number of
\* accepted changes: each stored value, and the null of a column that was not
\* there yet, is one that the column admits now.
OldDataStaysReadable ==
    \A id \in DOMAIN schema :
        IF id \in DOMAIN first
        THEN /\ \A value \in Values(first[id]) : Admits(id, value)
             /\ ~first[id].required => Admits(id, "null")
        ELSE Admits(id, "null")

\* A query written against the first schema finds each of its columns, under
\* the same id and name, after any number of accepted changes.
ColumnsKeepIdentity ==
    \A id \in DOMAIN first :
        id \in DOMAIN schema /\ schema[id].name = first[id].name
=============================================================================
