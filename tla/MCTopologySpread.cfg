SPECIFICATION Spec
CONSTANTS
    Node <- MCNode
    Pod <- MCPod
    Nowhere = "nowhere"
    N = 2
    Constraints <- MCConstraints
    Value <- MCValue
    Missing = "missing"
    NoValue = ""
    Label <- MCLabel
    Affine = {"n1", "n2", "n4"}
    Untolerated = {"n4"}
    SameNs = {"p1", "p2", "p3"}
    Terminating = {"p3"}
    InclusionPolicy = TRUE
    MaxInt32 = 2147483647
INVARIANTS TypeOK MinIsTracked VerdictIsFresh CountsMove PathsInv
PROPERTIES EvictionNeverHurts ImplementsOracle
CHECK_DEADLOCK FALSE
