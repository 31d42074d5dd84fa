---------------------------- MODULE MCSpreadScore ----------------------------
(* Four nodes, one without a zone and one with an empty zone, which the     *)
(* counts take for one domain; three pods and two classes.                  *)
EXTENDS SpreadScore

MCNode == {"n1", "n2", "n3", "n4"}
MCPod == {"p1", "p2", "p3"}
MCLabel == [n \in MCNode |->
    CASE n = "n1" -> [zone |-> "a", host |-> "h1"]
      [] n = "n2" -> [zone |-> "b", host |-> "h2"]
      [] n = "n3" -> [zone |-> "missing", host |-> "h3"]
      [] n = "n4" -> [zone |-> "", host |-> "h4"]]

Zone == [key |-> "zone", matches |-> MCPod, maxSkew |-> 1, soft |-> TRUE]
Host == [key |-> "host", matches |-> {"p1", "p2"}, maxSkew |-> 2, soft |-> TRUE]
Hard == [Zone EXCEPT !.soft = FALSE]
None == <<>>

\* systemDefaultConstraints.
MCDefaults == <<[Host EXCEPT !.maxSkew = 3], [Zone EXCEPT !.maxSkew = 5]>>
MCClasses == {<<>>, <<Zone>>, <<Hard, Host, Zone>>, <<Hard>>}

\* 1000 * ln(size + 2).
MCWeight == [s \in 0..4 |-> <<693, 1099, 1386, 1609, 1792>>[s + 1]]
=============================================================================
