SPECIFICATION Spec
CONSTANTS
    Absent = Absent
    Node <- MCNode
    Pod <- MCPod
    Key = {"zone", "host"}
    Hostname = "host"
    Missing = "missing"
    Empty = ""
    Label <- MCLabel
    Affine = {"n1", "n3", "n4"}
    Annotated = TRUE
    Own <- None
    Classes <- MCClasses
    Defaults <- MCDefaults
    SystemDefaulted = TRUE
    Weight <- MCWeight
    MaxUpdates = 1
INVARIANTS EveryDomainHasACount ScoresInRange FewerPodsScoreMore KeysRequiredIfStable
CHECK_DEADLOCK FALSE
