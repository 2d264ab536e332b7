SPECIFICATION FairSpec
CONSTANT Setups <- MCSetups
INVARIANTS WalkInOrder FinishedWalkIsWhole AnswersHold
PROPERTY EverythingEnds
CHECK_DEADLOCK FALSE
