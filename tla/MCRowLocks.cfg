SPECIFICATION Spec
CONSTANTS
    Resources = {1, 2, 3}
    Versions = {1, 2, 3}
    Setups <- LockSetups
INVARIANT NoDeadlock
PROPERTY StatementsAtomic
