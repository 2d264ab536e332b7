SPECIFICATION FairSpec
CONSTANTS
    Resources <- One
    Pool = {w1}
    Sweeper = sweeper
    SweepLimit = 1
    Setups <- FailuresSetups
INVARIANTS TypeOK Converged CleanRowIsServed OwnedOnce
PROPERTY Settles
