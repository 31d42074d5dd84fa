SPECIFICATION Spec
CONSTANTS
    None = None
    Absent = Absent
    Unassigned = "unassigned"
    Self = "self"
    Missing = "missing"
    Node <- MCNode
    Pod <- MCPod
    NodeStates <- MCNodeStates
    Shapes <- WakeShapes
    OwnShapes = {"app", "web"}
    Local = {"app", "web", "job", "foe"}
    Key = {"zone", "host"}
    OwnPools = {"x", "y"}
    AddedPools = {"x"}
    Against <- MCAgainst
    Classes <- WakeClasses
PROPERTY PodEventsWake
CHECK_DEADLOCK FALSE
