SPECIFICATION FairSpec
CONSTANTS
    Clients = {c1, c2}
    Workers = {w1}
    Closers = {s1}
    QueueCap = 2
    HighWater = 2
INVARIANTS TypeOK PendingCounts DrainedMeansIdle NoLostWakeup
PROPERTIES ImplementsContract ShutdownEnds
