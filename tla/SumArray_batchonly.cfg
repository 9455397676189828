CONSTANTS
    Garbage = Garbage
    FastCases <- NoInputs
    CommonCases <- PlainBatchOnly
SPECIFICATION Spec
INVARIANT CommonMatchesReference
