SPECIFICATION Spec
CONSTANTS
    Node <- MCNode
    Pod <- MCPod
    Nowhere = "nowhere"
    Key = {"zone", "host"}
    Missing = "missing"
    Label <- MCLabel
    Incoming <- MCIncoming
    Against <- MCAgainst
INVARIANTS TypeOK CountsAreFresh VerdictIsTheRule SkipIsSound
PROPERTIES UnresolvableIsFinal ImplementsOracle
CHECK_DEADLOCK FALSE
