-------------------------- MODULE MCChangePipeline --------------------------
(* A small instance of ChangePipeline: two document stores of one adapter,  *)
(* listed by cursor, and a database observed by its schema card.  Each has  *)
(* two objects, whose names are the same once sanitized and in all sources. *)
EXTENDS ChangePipeline, TLC

CONSTANTS docs, notes, tables

MCAdapter == (docs :> "google-drive") @@ (notes :> "google-drive") @@ (tables :> "snowflake")
MCFile == [p \in Sources \X Objects |-> p[1]]

Symmetric == Permutations({docs, notes})
=============================================================================
