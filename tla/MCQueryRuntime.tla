--------------------------- MODULE MCQueryRuntime ---------------------------
(* Small instances of QueryRuntime for TLC. *)
EXTENDS QueryRuntime
=============================================================================
