CONSTANTS
    Paths = {1, 2, 3}
    Sizes <- SmallSizes
    FsdaxCapacity = 3
    SsdCapacity = 2
    Modulus = 8
    MaxCount = 2
    EmptyPath = EmptyPath
SPECIFICATION Spec
INVARIANT EvictMakesRoom
