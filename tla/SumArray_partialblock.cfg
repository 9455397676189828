CONSTANTS
    Garbage = Garbage
    FastCases <- PartialBlocks
    CommonCases <- NoInputs
SPECIFICATION Spec
INVARIANT FastMatchesReference
