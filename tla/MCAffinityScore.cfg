SPECIFICATION WSpec
CONSTANTS
    NoClass = NoClass
    Absent = Absent
    Nobody = "nobody"
    Node <- MCNode
    Pod <- MCPod
    Where <- MCWhere
    Key = {"zone", "host"}
    Missing = "missing"
    Label <- MCLabel
    WithAffinity = {"p2"}
    Incoming <- MCIncoming
    ArgsSet <- MCArgs
INVARIANTS TypeOK RawIsPreference SkipIsHarmless FinalFollowsRaw SlotsAreExact UnmergedIsIntact
PROPERTY ImplementsAffinityScore
CHECK_DEADLOCK FALSE
