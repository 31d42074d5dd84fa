--------------------------- MODULE MCAffinityScore ---------------------------
(* Two zones, a node without one, and four pods, of which one has affinity   *)
(* of its own and one is only chosen by what the class of the incoming pod   *)
(* prefers.                                                                  *)
EXTENDS WorkerSlots

MCNode == {"n1", "n2", "n3", "n4"}
MCPod == {"p1", "p2", "p3", "p4"}
MCWhere == [p \in MCPod |-> CASE p = "p1" -> "n1" [] p = "p2" -> "n2"
                              [] p = "p3" -> "n3" [] p = "p4" -> "n4"]

MCLabel == [n \in MCNode |->
    CASE n = "n1" -> [zone |-> "a", host |-> "h1"]
      [] n = "n2" -> [zone |-> "a", host |-> "h2"]
      [] n = "n3" -> [zone |-> "b", host |-> "h3"]
      [] n = "n4" -> [zone |-> "missing", host |-> "missing"]]

\* p2 thinks nothing of the pod; or likes it on its host; or is of two minds.
Thinks(required, affinity, anti) == [required |-> required, affinity |-> affinity, anti |-> anti]
A(key, weight) == [key |-> key, weight |-> weight]
MCToward == {Thinks(<<>>, <<>>, <<>>),
             Thinks(<<"zone">>, <<A("host", 3)>>, <<A("zone", 3)>>),
             Thinks(<<>>, <<A("zone", 3)>>, <<A("zone", 3)>>)}

W(key, weight, matches) == [key |-> key, weight |-> weight, matches |-> matches]
Terms(affinity, anti) == [affinity |-> affinity, anti |-> anti]
Owns == {Terms(<<>>, <<>>), Terms(<<W("zone", 29, {"p1", "p3"}), W("host", 71, {"p1"})>>, <<>>)}

\* The last two: nobody validates the weights of a class, and its terms need
\* not match anyone.
FromClass ==
    {Terms(<<W("zone", 7, {"p3", "p4"})>>, <<W("host", 5, {"p1", "p3"})>>),
     Terms(<<W("host", -4, {"p1"})>>, <<W("zone", -2, {"p3"})>>),
     Terms(<<W("zone", 1, {})>>, <<>>)}

MCIncoming == {[own |-> o, class |-> c, toward |-> [p \in {"p2"} |-> t]] :
                  o \in Owns, c \in FromClass \cup {NoClass, Absent}, t \in MCToward}
MCArgs == {[ignore |-> i, hardWeight |-> w] : i \in BOOLEAN, w \in {0, 1}}
=============================================================================
