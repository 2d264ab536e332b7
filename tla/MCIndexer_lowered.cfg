SPECIFICATION Spec
CONSTANTS
    Resources <- Two
    Pool = {w1}
    Sweeper = sweeper
    SweepLimit = 2
    Setups <- LoweredSetups
INVARIANT ConvergedAsDocumented
