SPECIFICATION Spec
CONSTANTS
    Setups <- UnservedSetups
    ChunkSize = 2
    Ahead = 1
INVARIANTS ServedAsDocumented
