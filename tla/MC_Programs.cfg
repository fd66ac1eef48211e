\* The benchmark loops, one per behaviour: cc (min, dedup, two passes,
\* W=2), the whole bfs loop (CAS32, no dedup, seven vertices, W=3), the
\* sssp pull loop (five vertices), and a dense int-sum pass (opcode d,
\* W=2) beside a dense GraphMat Bellman-Ford pass (opcode c, W=3), and
\* a sparse float-min pass with dedup (opcode h) beside a dense double-sum
\* pass (opcode f); the graph tool on every small edge-list file; and the
\* GraphIt scanner on every text of up to three characters over a small
\* alphabet and on longer texts for the branches those do not reach.
\* The loops, the tool and the scanner stop: no deadlock check.
CONSTANTS
  s1 = s1
  s2 = s2

SPECIFICATION Spec

INVARIANT
  BfsParentsFormBfsTree
  BfsClaimedOnce
  DensePassesTypeOK
  DenseRelaxMessagesReduced
  CsrMatchesFile
  ReverseIsTranspose
  WrittenMatchesFile

PROPERTY
  
  BfsComplete
  SsspDistancesNeverRise
  SsspDistancesExact
  DenseSumImplementsAtomicSpec
  FloatPassesImplementAtomicSpec
  ScanProgress

CHECK_DEADLOCK FALSE
