--------------------------- MODULE MCNodeAffinity ---------------------------
(* Three nodes; pods and classes that vary in what they require of nodes,   *)
(* and pods and classes that vary in the labels and terms of the others.    *)
EXTENDS NodeAffinity

MCNode == {"n1", "n2", "n3"}
MCNodeLabels == [n \in MCNode |->
    CASE n = "n1" -> [zone |-> "a", disk |-> "ssd"]
      [] n = "n2" -> [zone |-> "b", disk |-> "ssd"]
      [] n = "n3" -> [zone |-> "a"]]

NoLabels == <<>>
App == [group |-> "g", name |-> "x"]
MCOtherLabels == {NoLabels, App, [App EXCEPT !.name = "y"], [group |-> "g"]}

\* Zone and disk requirements as the nodes they admit, and lists of names.
ZoneA == {"n1", "n3"}
Ssd == {"n1", "n2"}
First == {"n1", "gone"}
Second == {"n2"}
MCByName == {First, Second}

Selectors == {Nil, {}, {{ZoneA}}, {{ZoneA}, {Ssd}}, {{ZoneA, Ssd}}, {{}}, {{}, {Ssd}},
              {{First, Ssd}}, {{First}, {Second, ZoneA}}, {{First, Second}}, {{First}, {Ssd}}}
Term(selector) == [selector |-> selector]
TermLists == {<<>>, <<Term(Nil)>>, <<Term(Invalid)>>, <<Term(NoLabels), Term(Nil)>>}
Prefers(weight, requirement) == [weight |-> weight, term |-> {requirement}]
Garbled == [weight |-> 10, term |-> Invalid]

Pod(a, labels, nodeSelector, required, terms, prefers) ==
    [annotated |-> a, labels |-> labels, nodeSelector |-> nodeSelector, required |-> required,
     affinity |-> <<Term([name |-> "y"])>>, anti |-> <<>>, spread |-> terms,
     preferredAffinity |-> terms, preferredAnti |-> <<Term(NoLabels)>>, preferred |-> prefers]

MCPods ==
    {Pod(a, App, s, r, <<Term(Nil)>>, p) :
        a \in BOOLEAN, s \in {NoLabels, [zone |-> "a"]}, r \in Selectors,
        p \in {<<>>, <<Prefers(30, ZoneA), Prefers(71, Second), Prefers(5, Ssd)>>}}
    \cup {Pod(TRUE, l, NoLabels, Nil, t, <<>>) :
        l \in {NoLabels, [group |-> "g"]}, t \in {<<>>, <<Term(Nil)>>}}
    \cup {Pod(a, App, NoLabels, Nil, <<>>, <<Garbled>>) : a \in BOOLEAN}

\* Every list of a class may be the one that does not parse.
Class(nodeSelector, required, affinity, terms, prefers) ==
    [nodeSelector |-> nodeSelector, required |-> required, affinity |-> affinity,
     anti |-> terms, spread |-> terms,
     preferredAffinity |-> affinity, preferredAnti |-> terms, preferred |-> prefers]

MCClasses ==
    {Class(s, r, <<>>, <<Term(Nil)>>, p) :
        s \in {NoLabels, [zone |-> "b"], [disk |-> "ssd"]}, r \in {Nil, {{ZoneA}, {Ssd}}, {{}}},
        p \in {<<>>, <<Prefers(20, Ssd), Prefers(-50, ZoneA)>>}}
    \cup {Class(NoLabels, Nil, <<>>, <<>>, <<Prefers(20, Ssd), Garbled>>)}
    \cup {Class(NoLabels, Nil, f, t, <<>>) : f \in {<<>>, <<Term(Invalid)>>}, t \in TermLists}

MCAdded == {[required |-> Nil, preferred |-> <<>>],
            [required |-> {{Ssd}}, preferred |-> <<Prefers(1, ZoneA)>>]}
=============================================================================
