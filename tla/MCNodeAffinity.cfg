SPECIFICATION NASpec
CONSTANTS
    Nil = Nil
    Invalid = Invalid
    Absent = Absent
    Error = Error
    NotCalled = NotCalled
    SelectorKeys = {"group", "name"}
    Node <- MCNode
    NodeLabels <- MCNodeLabels
    Pods <- MCPods
    Classes <- MCClasses
    OtherLabels <- MCOtherLabels
    ByName <- MCByName
    AddedAffinities <- MCAdded
INVARIANTS NeverUnclassed RequiredIsAnd ClassWins LineageStaysInApplication
INVARIANTS PreFilterKeepsItsWord EachPreferenceOnce ScoresFollowWeights
CHECK_DEADLOCK FALSE
