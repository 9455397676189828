CONSTANTS
    Nc = Nc
    Nchw = Nchw
    Blocked = Blocked
    D1 = D1
    D2 = D2
    C1 = C1
    C2 = C2
    NoData = NoData
    None = None
    Layouts <- MCLayouts
    Data <- MCData
    Keys <- MCKeys
    KeyOp <- MCKeyOp
    EngineLayout <- MCEngineLayout
    Capacity = 1
    Rank <- MCRank
    PublicOf <- MCPublicOf
    KeyRank <- MCKeyRank
    KeyFormats <- MCKeyFormats
    GradyFollowsSrc = FALSE
    MaxExecs = 1
SYMMETRY DataSymmetry
CONSTRAINT OneOperator
SPECIFICATION Spec
INVARIANT ComputeReadsCallerData
