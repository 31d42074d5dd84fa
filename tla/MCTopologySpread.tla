-------------------------- MODULE MCTopologySpread --------------------------
(* A small cluster for TopologySpread: two zones and a node outside them,  *)
(* three hosts (one whose label value is the empty string), four pods.     *)
EXTENDS TopologySpread

MCNode == {"n1", "n2", "n3", "n4"}
MCPod == {"p1", "p2", "p3", "p4"}
MCValue == {"a", "b", "h1", "h2", ""}

\* n4 has a host but no zone; n3's host label is the empty string.
MCLabel == [n \in MCNode |->
    CASE n = "n1" -> <<"a", "h1">>
      [] n = "n2" -> <<"a", "h2">>
      [] n = "n3" -> <<"b", "">>
      [] n = "n4" -> <<"missing", "h1">>]

\* Zone honours the affinity that excludes n3, so one zone of two nodes is
\* left, and asks for more than there are; Host asks for its three domains.
Zone == [matches |-> {"p1", "p2", "p3"}, selectsAll |-> FALSE, selfMatch |-> TRUE,
         maxSkew |-> 1, minDomains |-> 2, honorAffinity |-> TRUE, honorTaints |-> FALSE]

Host == [matches |-> {"p2", "p3", "p4"}, selectsAll |-> FALSE, selfMatch |-> TRUE,
         maxSkew |-> 1, minDomains |-> 3, honorAffinity |-> FALSE, honorTaints |-> TRUE]

MCConstraints == <<Zone, Host>>
=============================================================================
