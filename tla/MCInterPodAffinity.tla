------------------------- MODULE MCInterPodAffinity -------------------------
(* A small cluster for InterPodAffinity: two zones, one node without a host *)
(* label and one without any, and four pods.                                *)
EXTENDS InterPodAffinity

MCNode == {"n1", "n2", "n3", "n4"}
MCPod == {"p1", "p2", "p3", "p4"}

MCLabel == [n \in MCNode |->
    CASE n = "n1" -> [zone |-> "a", host |-> "h1"]
      [] n = "n2" -> [zone |-> "a", host |-> "h2"]
      [] n = "n3" -> [zone |-> "b", host |-> "missing"]
      [] n = "n4" -> [zone |-> "missing", host |-> "missing"]]

\* p1 and p2 match both affinity terms, p3 one of them.
MCAffTerms == <<[key |-> "zone", matches |-> {"p1", "p2"}],
                [key |-> "host", matches |-> {"p1", "p2", "p3"}]>>
MCAntiTerms == <<[key |-> "host", matches |-> {"p2", "p3"}],
                 [key |-> "zone", matches |-> {"p3", "p4"}]>>

\* p3 has two terms on the same key, so its pair counts twice.
MCAgainst == [p \in MCPod |-> CASE p = "p1" -> <<>>
                                [] p = "p2" -> <<"host">>
                                [] p = "p3" -> <<"zone", "zone">>
                                [] p = "p4" -> <<>>]

\* A pod with terms of both kinds; one with affinity to its zone only; and one
\* that asks for nothing, so only the terms of the others can refuse it.
Asking == [affinity |-> MCAffTerms, anti |-> MCAntiTerms, selfMatch |-> TRUE]
Zonal == [affinity |-> <<MCAffTerms[1]>>, anti |-> <<>>, selfMatch |-> TRUE]
Silent == [affinity |-> <<>>, anti |-> <<>>, selfMatch |-> FALSE]
MCIncoming == {Asking, Zonal, Silent}
=============================================================================
