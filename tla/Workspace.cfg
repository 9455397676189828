CONSTANTS
    A1 = A1
    A2 = A2
    A3 = A3
    D1 = D1
    D2 = D2
    B1 = B1
    B2 = B2
    B3 = B3
    B4 = B4
    B5 = B5
    None = None
    Acts <- MCActs
    Data <- MCData
    Bufs <- MCBufs
    MaxCalls = 4
SPECIFICATION OutOfPlaceSpec
INVARIANTS BackwardReadsOwnWorkspace NoAbort
