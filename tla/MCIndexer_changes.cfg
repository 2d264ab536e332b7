SPECIFICATION Spec
CONSTANTS
    Resources <- Two
    Pool = {w1, w2}
    Sweeper = sweeper
    SweepLimit = 2
    Setups <- ChangesSetups
INVARIANTS Converged EdgesCoverDocs
SYMMETRY WorkerSymmetry
