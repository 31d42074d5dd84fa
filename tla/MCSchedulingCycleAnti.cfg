SPECIFICATION Spec
CONSTANTS
    Nil = Nil
    Invalid = Invalid
    Absent = Absent
    Unread = Unread
    Pending = Pending
    Gone = Gone
    Nobody = Nobody
    SelectorKeys = {}
    Node <- MCNode
    NodeLabels <- MCNodeLabels
    Pod <- MCPod
    PodSpec <- MCPodSpec
    Classes <- AntiOnly
    MaxUpdates = 0
PROPERTY ExistingAntiAffinityHonoured
CHECK_DEADLOCK FALSE
