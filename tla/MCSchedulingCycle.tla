------------------------- MODULE MCSchedulingCycle -------------------------
(* Four nodes in two zones, three pods of one application, two of which     *)
(* name the class, and a class that is created, changed or deleted.         *)
EXTENDS SchedulingCycle

MCNode == {"n1", "n2", "n3", "n4"}
ZoneA == {"n1", "n2"}
MCNodeLabels == [n \in MCNode |-> IF n \in ZoneA THEN [zone |-> "a"] ELSE [zone |-> "b"]]

MCPod == {"p1", "p2", "q"}
Plain == [annotated |-> FALSE, nodeSelector |-> <<>>, required |-> Nil,
          effective |-> <<>>, anti |-> FALSE, spread |-> FALSE]
Named == [Plain EXCEPT !.annotated = TRUE]
\* Whatever nodes the others take, one is left that each pod fits on.
MCPodSpec == [p \in MCPod |->
    CASE p = "p1" -> Named
      [] p = "p2" -> [Named EXCEPT !.required = {{{"n2", "n3", "n4"}}}]
      [] p = "q" -> [Plain EXCEPT !.effective = [zone |-> "b"]]]

Class == [nodeSelector |-> <<>>, required |-> Nil, anti |-> FALSE, spread |-> FALSE]
Anti == [Class EXCEPT !.anti = TRUE]
InZoneA == [Class EXCEPT !.required = {{ZoneA}}]
MCClasses == {[Anti EXCEPT !.spread = TRUE], InZoneA}

\* One class that both restricts the zone and spreads over zones.
ZonedSpread == {[InZoneA EXCEPT !.spread = TRUE]}
AntiOnly == {Anti}
=============================================================================
