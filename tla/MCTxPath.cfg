SPECIFICATION MCSpec
CONSTANTS
  n1 = n1
  n2 = n2
  n3 = n3
  t1 = t1
  t2 = t2
  start = start
  abort = abort
  None = None
  Nodes <- Three
  Voters <- Three
  Nonces <- MCNonces
  Created <- MCCreated
  Offset <- MCOffset
  ProposeAge = 9
  MaxAge = 10
  CleanupAge = 12
  MaxNow = 14
  NoBlock = NoBlock
  Txs <- MCTxs
  Home <- MCHome
  Needs <- MCNeeds
  StartTxs <- MCStart
  AbortTxs <- MCAbort
  Budgets <- MCBudgets
INVARIANTS
  CommittedIsAppliedHere
  DecidedOnce
PROPERTIES
  RejectionOvertaken
  ImplementsLedger
  DrainEnds
CHECK_DEADLOCK FALSE
