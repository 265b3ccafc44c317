--------------------------- MODULE MCContextGraph ---------------------------
(* A small instance of ContextGraph for TLC: a chain of three entities whose *)
(* second relationship may be turned round, and two assets that depend on    *)
(* others, one of which has the key of an entity.                            *)
EXTENDS ContextGraph

MCIdentity == {"A", "B", "C", "AB", "BC", "metric", "policy"}
MCKind ==
  [i \in MCIdentity |->
     CASE i \in {"A", "B", "C"} -> "ENTITY"
       [] i \in {"AB", "BC"}    -> "RELATIONSHIP"
       [] OTHER                 -> "OTHER"]
MCKeyOf ==
  [i \in MCIdentity |-> CASE i = "A" -> "a" [] i = "B" -> "b" [] i \in {"C", "metric"} -> "c"
                          [] OTHER -> i]

Plain        == [ends |-> <<>>, needs |-> {}, about |-> {}]
Joining(a, b) == [Plain EXCEPT !.ends = <<a, b>>]
Needing(k)   == [Plain EXCEPT !.needs = {k}]
About(k)     == [Plain EXCEPT !.about = {k}]

MCPayload == {Plain, Joining("a", "b"), Joining("b", "c"), Joining("c", "b"),
              Needing("b"), Needing("AB"), Needing("policy"), About("a")}

Everything ==
  [i \in MCIdentity |->
     CASE i \in {"A", "B", "C"} -> Plain
       [] i = "AB"     -> Joining("a", "b")
       [] i = "BC"     -> Joining("b", "c")
       [] i = "metric" -> Needing("AB")
       [] i = "policy" -> About("a")]

\* All at once, and changes to the middle of the chain, its end and what depends on it.
MCBatches ==
  {Everything, [Everything EXCEPT !["C"] = Needing("policy"), !["policy"] = Needing("b")]}
  \cup {[i \in {"B"} |-> Plain]}
  \cup [{"BC"} -> {Joining("b", "c"), Joining("c", "b"), None}]
  \cup [{"C"} -> {Plain, Needing("policy"), None}]
  \cup {[i \in {"AB", "metric"} |-> None],
        [i \in {"AB", "metric"} |-> IF i = "AB" THEN Joining("a", "b") ELSE Needing("policy")]}
=============================================================================
