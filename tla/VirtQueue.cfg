CONSTANTS
    None = None
    Buffer = {b1, b2, b3}
    Size = 3
    Width = 6
    MaxBatch = 3
SPECIFICATION Spec
SYMMETRY Swaps
INVARIANTS Partition
PROPERTIES ImplementsLending
