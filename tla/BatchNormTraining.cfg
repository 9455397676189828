CONSTANTS
    L1 = L1
    L2 = L2
    L3 = L3
    S1 = S1
    S2 = S2
    E1 = E1
    M1 = M1
    M2 = M2
    B1 = B1
    B2 = B2
    Initial = Initial
    None = None
    Layers <- MCLayers
    ShapeOf <- MCShapeOf
    EpsOf <- MCEpsOf
    MomentumOf <- MCMomentumOf
    Batches <- MCBatches
    Capacity = 1
    MaxCalls = 4
SPECIFICATION Spec
INVARIANT RunningStatsUseCallerMomentum
