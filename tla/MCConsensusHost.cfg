SPECIFICATION MCSpec
CONSTANTS
  a = a
  b = b
  Values <- MCValues
  Chosen <- MCMixed
  Mine <- MCMine
  MaxHeight = 3
  MaxRound = 0
  MaxCrashes = 1
  SealHeight = 2
  StashAhead = 4
  StashMax = 1
  Contention = FALSE
INVARIANTS
  NoEquivocation
  ProposerAsked
  NoFatalEffect
  EarlyProposalsJudged
  SealIsTerminal
  ReplayDecides
CHECK_DEADLOCK FALSE
