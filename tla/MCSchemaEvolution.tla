-------------------------- MODULE MCSchemaEvolution --------------------------
(* Schemas of up to two columns for TLC.  float and double behave as int    *)
(* and long do, and are left to the proof.                                  *)
EXTENDS SchemaEvolution

MCTypes == {"int", "long", "decimal"}
=============================================================================
