\* One sequencer with system->isCopy set: dense range-3 stores are CHECK_ACTIVEVERTEX copies.
CONSTANTS
  l1 = l1
  l2 = l2
  v1 = v1
  c1 = c1
  c2 = c2
  Cores <- MCOneCore
  Lines <- MCLines
  V3 <- MCV3
  Ops <- MCOps
  EdgeLineOf <- MCEdgeLineOf
  MaxOutstanding = 2
  PISCLimit = 2
  IsCopy = TRUE

SPECIFICATION Spec

INVARIANT
  PISCCountExact
