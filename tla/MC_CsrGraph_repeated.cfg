\* write_edge_list on weighted files that repeat an edge with another
\* weight: filter keeps one weight per renumbered pair.
CONSTANTS
  Files <- MCFilesRepeated
  Weights <- MCWeights

SPECIFICATION Spec

INVARIANT
  WrittenMatchesFile

CHECK_DEADLOCK FALSE
