--------------------------- MODULE MCSqlPipeline ---------------------------
(* Small instances of SqlPipeline for TLC: one query for each way to be refused, a  *)
(* source that enforces read-only sessions and one that does not.                   *)
EXTENDS SqlPipeline

CONSTANTS postgres, snowflake, execute, test, admin1

MCSource    == {postgres, snowflake}
MCEnforcing == {postgres}
MCCaller    == {execute, test}
MCAdmin     == {admin1}

MCQuery        == {"good", "garbled", "foreign", "write", "calls"}
MCOneStatement == MCQuery \ {"garbled"}
MCInScope      == MCOneStatement \ {"foreign"}
MCSelectRooted == MCOneStatement \ {"write"}
MCHarmless     == MCOneStatement \ {"write", "calls"}
=============================================================================
