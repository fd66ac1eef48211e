\* The sssp pull loop on the graph of MC_Programs, which has no
\* negative cycle and a shortest path of n-1 edges: the loop leaves at
\* rounds = n and prints "negative cycle".
CONSTANTS
  s1 = s1
  s2 = s2

SPECIFICATION Spec

INVARIANT
  SsspNegativeCycleReportedOnlyIfOne

CHECK_DEADLOCK FALSE
