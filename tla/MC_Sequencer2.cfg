\* Two sequencers sharing system->outstandingPISCOps, two outstanding requests and two pseudo addresses each: every property of the sequencer.
CONSTANTS
  l1 = l1
  l2 = l2
  v1 = v1
  c1 = c1
  c2 = c2
  Cores <- MCTwoCores
  Lines <- MCLines
  V3 <- MCV3
  Ops <- MCOps
  EdgeLineOf <- MCEdgeLineOf
  MaxOutstanding = 2
  PISCLimit = 2
  IsCopy = FALSE

SPECIFICATION Spec

INVARIANTS
  TypeOK
  OutstandingCountExact
  OutstandingBounded
  PISCAddrsConserved
  NoLoadStoreAlias
  PISCCountExact
  DeadlockCheckArmed

PROPERTIES
  PISCsDrain
