SPECIFICATION MCSpec
CONSTANTS
    n1 = n1
    n2 = n2
    w1 = w1
    w2 = w2
    w3 = w3
    Nonces <- MCNonces
    Waiters <- MCWaiters
    NonceOf <- MCNonceOf
    Local <- MCLocal
    MaxBatch = 2
    MaxRestages = 1
    MaxHeight = 2
    MaxRounds = 1
    DbFaults = TRUE
    N = 2
    Conducts <- MCConducts
    SyncMax = 2
    CHUNK = 1
    QueueMax = 2
    MaxFaults = 1
INVARIANTS
    Conservation
    CommittedIsApplied
    TipReached
PROPERTIES
    SyncEnds
    CatchesUp
    PoolWakes
CHECK_DEADLOCK FALSE
