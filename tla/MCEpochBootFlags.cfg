SPECIFICATION Spec
CONSTANTS
    MaxEpoch = 3
    Version <- MCVersion
    None = None
    Partial = Partial
INVARIANT
    EngineWhole
