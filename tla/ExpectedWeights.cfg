CONSTANTS
    Kernels = {1, 2, 3}
    Dilates = {0, 1, 2, 3}
    Pads = {0, 1}
    Strides = {1, 2}
    None = None
SPECIFICATION Spec
INVARIANT DummyOutputNonEmpty
