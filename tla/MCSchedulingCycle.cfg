SPECIFICATION FairSpec
CONSTANTS
    Nil = Nil
    Invalid = Invalid
    Absent = Absent
    Unread = Unread
    Pending = Pending
    Gone = Gone
    Nobody = Nobody
    SelectorKeys = {}
    Node <- MCNode
    NodeLabels <- MCNodeLabels
    Pod <- MCPod
    PodSpec <- MCPodSpec
    Classes <- MCClasses
    MaxUpdates = 2
INVARIANT TypeOK
PROPERTIES BoundUnderClass EnforcedIfStable EventuallyBound
CHECK_DEADLOCK FALSE
