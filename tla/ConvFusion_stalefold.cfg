CONSTANTS
    X = X
    W = W
    G1 = G1
    G2 = G2
    Y1 = Y1
    Y2 = Y2
    XA = XA
    WA = WA
    WB = WB
    SA = SA
    SB = SB
    Undef = Undef
    None = None
    XData <- MCXData
    WData <- MCWData
    SData <- MCSData
    Inputs = {X}
    Wts = {W}
    Stats = {G1, G2}
    Outs = {Y1, Y2}
    Writable = {W, G1}
    Follows <- ConvBnRelu
    MaxCalls = 7
SPECIFICATION Spec
INVARIANT ReadIsEager
