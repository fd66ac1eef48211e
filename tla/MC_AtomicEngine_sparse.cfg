\* A sparse pass of opcode c (GraphMat Bellman-Ford) with two messages to
\* each vertex: the pass ends at the last message, not at the least.
CONSTANTS
  s1 = s1
  s2 = s2
  Vertices = {0, 1}
  Spds <- MCSpds
  DestSpd <- MCDestSpd
  Slots = {1, 2, 3, 4}
  Update <- MCUpdateRelax
  Opp = "c"
  IsSparse = TRUE
  DedupEnabled = FALSE
  IterCount = 0
  W = 3
  InitValues = {0, 7}

SPECIFICATION Spec

INVARIANT
  MessagesReduced

CHECK_DEADLOCK FALSE
