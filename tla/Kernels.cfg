CONSTANTS
    Garbage = Garbage
    Rejected = Rejected
    None = None
    FastCases <- WholeBlocks
    CommonCases <- PlainAccepted
SPECIFICATION KernelsSpec
INVARIANTS FastMatchesReference CommonMatchesReference ShuffleMatchesReference
