SPECIFICATION FairSpec
CONSTANTS
    n1 = n1
    n2 = n2
    w1 = w1
    w2 = w2
    w3 = w3
    Nonces <- MCNonces
    Waiters <- MCLive
    NonceOf <- MCLiveNonceOf
    Local <- MCLocal
    MaxBatch = 2
    MaxRestages = 1
    MaxHeight = 2
    MaxRounds = 1
    DbFaults = FALSE
PROPERTIES
    LostRoundsAreRetried
CHECK_DEADLOCK FALSE
