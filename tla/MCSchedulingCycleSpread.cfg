SPECIFICATION Spec
CONSTANTS
    Nil = Nil
    Invalid = Invalid
    Absent = Absent
    Unread = Unread
    Pending = Pending
    Gone = Gone
    Nobody = Nobody
    SelectorKeys = {}
    Node <- MCNode
    NodeLabels <- MCNodeLabels
    Pod <- MCPod
    PodSpec <- MCPodSpec
    Classes <- ZonedSpread
    MaxUpdates = 0
INVARIANT SpreadCountsPassingNodes
CHECK_DEADLOCK FALSE
