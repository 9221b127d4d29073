SPECIFICATION FairSpec
CONSTANTS
    MaxEpoch = 3
    Version <- MCVersion
    None = None
    Partial = Partial
INVARIANTS
    DatabaseKept
    HealthyEngineWhole
    BuiltByItsVersion
    NoRetiredEngine
    LineageServes
PROPERTIES
    RollbackEnds
    StragglerCrosses
