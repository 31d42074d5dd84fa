SPECIFICATION Spec
CONSTANTS
    Node <- MCNode
    Pod <- MCPod
    Nowhere = "nowhere"
    Key = {"zone", "host"}
    Missing = "missing"
    Label <- MCLabel
    Incoming <- MCIncoming
    Against <- MCAgainst
INVARIANT SeriesStartsAlone
CHECK_DEADLOCK FALSE
