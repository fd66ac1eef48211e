\* OMEGA_API map/unmap, scratchpad storage, the address map and the vertex
\* buffer, one per behaviour.
CONSTANTS
  A = A
  B = B
  x1 = x1
  x2 = x2
  x3 = x3
  x4 = x4
  c1 = c1
  c2 = c2
  va1 = va1
  va2 = va2
  NULL = NULL
  TEMP = TEMP

SPECIFICATION Spec

INVARIANTS
  ApiTypeOK
  NoLostStore
  NoSpuriousExit
  SpmTypeOK
  TagIndexExact
  NoFault
  SetEntryIsRank
  SetFits
  NoAliasing
  CallbacksAcceptIssuedTypes
  VbTypeOK
  StashKeyFresh
  BufferedLoadsFromPass
