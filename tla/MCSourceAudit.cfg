SPECIFICATION FairSpec
CONSTANTS
    Setups <- AuditSetups
    PageSize = 1
    Attempts = 2
INVARIANTS TypeOK SweptIsSettled CoveredIsAnswered NoGhostRow Repaired
PROPERTY LostDeletesGo
