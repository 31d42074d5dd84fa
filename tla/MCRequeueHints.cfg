SPECIFICATION Spec
CONSTANTS
    None = None
    Absent = Absent
    Unassigned = "unassigned"
    Self = "self"
    Missing = "missing"
    Node <- MCNode
    Pod <- MCPod
    NodeStates <- MCNodeStates
    Shapes <- MCShapes
    OwnShapes = {"app", "web"}
    Local = {"app", "web", "foe"}
    Key = {"zone", "host"}
    OwnPools = {"x", "y"}
    AddedPools = {"x"}
    Against <- MCAgainst
    Classes <- MCClasses
INVARIANTS TypeOK WaitingIsHopeless
PROPERTIES NodeAffinityHintIsExact
CHECK_DEADLOCK FALSE
