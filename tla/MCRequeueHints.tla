--------------------------- MODULE MCRequeueHints ---------------------------
(* Three nodes that appear, become tainted, lose their zone or change their *)
(* pool; two pods; and four versions of the class.                          *)
EXTENDS RequeueHints

MCNode == {"n1", "n2", "n3"}
MCPod == {"p1", "p2"}

State(zone, host, pool, tainted) ==
    [labels |-> [zone |-> zone, host |-> host], pool |-> pool, tainted |-> tainted]

MCNodeStates == [n \in MCNode |->
    CASE n = "n1" -> {State("a", "h1", pool, FALSE) : pool \in {"x", "z"}}
      [] n = "n2" -> {State("b", "h2", pool, FALSE) : pool \in {"x", "y", "z"}}
                     \cup {State("b", "h2", "x", TRUE), State("missing", "h2", "x", FALSE)}
      [] n = "n3" -> {None, State("b", "h3", "x", FALSE)}]

\* "app" and "web" are pods of the application, "far" and "out" are in another
\* namespace, which only a selector finds, "foe" refuses pods like "app".
MCShapes == [p \in MCPod |-> IF p = "p1" THEN {"app", "web"} ELSE {"web", "far", "out", "foe"}]
MCAgainst == [s \in {"app", "web", "job", "far", "out", "foe"} |->
    IF s = "foe" THEN {[key |-> "zone", matches |-> {"app"}]} ELSE {}]

T(key, matches) == [key |-> key, matches |-> matches, listed |-> matches \ {"far"}]
C(matches, skew) == [key |-> "zone", matches |-> matches, maxSkew |-> skew, minDomains |-> 2]
Plain == [required |-> {"x", "y"}, affinity |-> <<>>, anti |-> <<>>, spread |-> <<>>]

MCClasses ==
    {[Plain EXCEPT !.required = {"x"}, !.spread = <<C({"app", "web"}, 1)>>],
     [Plain EXCEPT !.anti = <<T("host", {"app", "web"}), T("zone", {"app"})>>],
     [Plain EXCEPT !.affinity = <<T("zone", {"app", "far"})>>, !.anti = <<T("host", {"web"})>>]}

\* For PodEventsWake: classes that ask for a pool and nothing else, for two terms
\* of anti-affinity, and for pods another namespace may have.  "job" is a pod of
\* the application that no term selects.
PlainOnly == {[Plain EXCEPT !.required = {"x"}]}
TwoAnti == {[Plain EXCEPT !.anti = <<T("host", {"app", "web"}), T("zone", {"app"})>>]}
FarPods == {[Plain EXCEPT !.affinity = <<T("zone", {"app", "far"})>>]}
WakeClasses == PlainOnly \cup TwoAnti \cup FarPods
WakeShapes == [p \in MCPod |-> {"app", "web", "job", "far", "foe"}]
=============================================================================
