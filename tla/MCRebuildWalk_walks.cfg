SPECIFICATION Spec
CONSTANTS
    Setups <- WalkSetups
    ChunkSize = 2
    Ahead = 1
INVARIANTS TypeOK Backfilled RegisteredKept ServedHasRow CursorSettled EdgesCoverDocs
PROPERTIES NoFlipAtOneSequence CursorNeverLost
