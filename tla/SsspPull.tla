------------------------------ MODULE SsspPull ------------------------------
(***************************************************************************)
(* The sssp benchmark (sssp_benchmark.gt__pull-omega.gt__.cpp): frontier  *)
(* Bellman-Ford in the pull direction.  main sets SP to INT_MAX, then     *)
(* SP[0] = 0 and the frontier to {0}, and runs passes while the frontier  *)
(* is non-empty.  In a pass the thread of each vertex d walks the         *)
(* in-neighbours s of d in order, and for each s in the frontier runs     *)
(* updateEdge: if SP[d] > SP[s] + w then SP[d] = SP[s] + w and next[d]=1. *)
(* The two reads of SP[s] are separate volatile loads, and the thread of  *)
(* s may lower SP[s] between them.  After the pass the vertices with      *)
(* next[d] set are the new frontier; when rounds reaches n the program   *)
(* prints "negative cycle" and leaves the loop.                           *)
(*                                                                         *)
(* omegaMap(SP, n) at the head of every pass puts SP in the scratchpads   *)
(* on the first call and returns at once afterwards; the loads and stores *)
(* of SP then reach the SPM as plain accesses (no atomic opcode is        *)
(* enabled), so SP is modelled as one array.  OmegaApi checks that map   *)
(* and unmap lose no store.                                                *)
(***************************************************************************)
EXTENDS Integers, Sequences
LOCAL INSTANCE FiniteSetsExt

CONSTANTS
  N,        \* builtin_getVertices(edges): the vertices are 0 .. N-1
  InNeigh,  \* g.in_neigh(d): the <<s.v, s.w>> of d's in-edges, in order
  IntMax    \* 2147483647, above every path length of the graph

Vertex == 0 .. N - 1

ASSUME /\ N \in Nat \ {0}
       /\ InNeigh \in [Vertex -> Seq(Vertex \X Int)]
       /\ IntMax \in Nat

VARIABLES
  SP,        \* the distance array
  frontier,  \* from_vertexset->bool_map_, as the set of its true entries
  next,      \* the vertices d with next[d] = 1 in this pass
  pos,       \* per thread d, the in-neighbours of d it has finished
  relaxing,  \* threads whose compare succeeded and that have not written
  rounds,    \* main's round counter
  state,     \* "pass" while the loop runs, "done" after it
  negCycle   \* "negative cycle" was printed

ssspVars == <<SP, frontier, next, pos, relaxing, rounds, state, negCycle>>

\* The in-edge thread d handles next.
Edge(d) == InNeigh[d][pos[d] + 1]

SsspInit ==
  /\ SP = [v \in Vertex |-> IF v = 0 THEN 0 ELSE IntMax]
  /\ frontier = {0}
  /\ next = {}
  /\ pos = [d \in Vertex |-> 0]
  /\ relaxing = {}
  /\ rounds = 0
  /\ state = "pass"
  /\ negCycle = FALSE

\* Mutant: updateEdge writes without comparing.
CompareNoGuard(d) ==
  /\ state = "pass" /\ d \notin relaxing
  /\ pos[d] < Len(InNeigh[d])
  /\ IF Edge(d)[1] \in frontier
     THEN relaxing' = relaxing \cup {d} /\ UNCHANGED pos
     ELSE pos' = [pos EXCEPT ![d] = @ + 1] /\ UNCHANGED relaxing
  /\ UNCHANGED <<SP, frontier, next, rounds, state, negCycle>>

\* Mutant: the frontier test reads bool_map_ at d instead of at s.
CompareDstInFrontier(d) ==
  LET s == Edge(d)[1]
      w == Edge(d)[2]
  IN  /\ state = "pass" /\ d \notin relaxing
      /\ pos[d] < Len(InNeigh[d])
      /\ IF d \in frontier /\ SP[d] > SP[s] + w
         THEN relaxing' = relaxing \cup {d} /\ UNCHANGED pos
         ELSE pos' = [pos EXCEPT ![d] = @ + 1] /\ UNCHANGED relaxing
      /\ UNCHANGED <<SP, frontier, next, rounds, state, negCycle>>

\* Thread d looks at its next in-neighbour s: if s is in the frontier, the
\* first reads of SP[d] and SP[s] decide whether to relax.
Compare(d) ==
  LET s == Edge(d)[1]
      w == Edge(d)[2]
  IN  /\ state = "pass" /\ d \notin relaxing
      /\ pos[d] < Len(InNeigh[d])
      /\ IF s \in frontier /\ SP[d] > SP[s] + w
         THEN relaxing' = relaxing \cup {d} /\ UNCHANGED pos
         ELSE pos' = [pos EXCEPT ![d] = @ + 1] /\ UNCHANGED relaxing
      /\ UNCHANGED <<SP, frontier, next, rounds, state, negCycle>>

\* The write SP[d] = SP[s] + w, with SP[s] loaded again, and next[d] = 1.
Relax(d) ==
  /\ d \in relaxing
  /\ SP' = [SP EXCEPT ![d] = SP[Edge(d)[1]] + Edge(d)[2]]
  /\ next' = next \cup {d}
  /\ pos' = [pos EXCEPT ![d] = @ + 1]
  /\ relaxing' = relaxing \ {d}
  /\ UNCHANGED <<frontier, rounds, state, negCycle>>

\* Every thread is through its in-neighbours: next becomes the frontier,
\* rounds goes up, and the loop ends on rounds = n or an empty frontier.
\* Otherwise the next pass starts with a fresh next array.
EndPass ==
  /\ state = "pass" /\ relaxing = {}
  /\ \A d \in Vertex : pos[d] = Len(InNeigh[d])
  /\ frontier' = next
  /\ rounds' = rounds + 1
  /\ negCycle' = (rounds + 1 = N)
  /\ state' = IF rounds + 1 = N \/ next = {} THEN "done" ELSE "pass"
  /\ next' = {}
  /\ pos' = [d \in Vertex |-> 0]
  /\ UNCHANGED <<SP, relaxing>>

SsspNext ==
  \/ \E d \in Vertex : Compare(d) \/ Relax(d)
  \/ EndPass

\* parallel_for runs every thread's loop to its end.
SsspSpec == SsspInit /\ [][SsspNext]_ssspVars /\ WF_ssspVars(SsspNext)
----------------------------------------------------------------------------
(***************************************************************************)
(* Reference: distances by N-1 rounds of relaxing every edge at once.      *)
(***************************************************************************)
\* The in-edges of v as a set.
InEdges(v) == {InNeigh[v][j] : j \in DOMAIN InNeigh[v]}

\* One round: each vertex takes the least of its value and of what its
\* in-neighbours with a finite value offer.
Relaxed(D) ==
  [v \in Vertex |->
     Min({D[v]} \cup {D[e[1]] + e[2] : e \in {e \in InEdges(v) : D[e[1]] < IntMax}})]

RECURSIVE RoundsOf(_)
RoundsOf(k) == IF k = 0 THEN [v \in Vertex |-> IF v = 0 THEN 0 ELSE IntMax]
               ELSE Relaxed(RoundsOf(k - 1))

Dist == RoundsOf(N - 1)

\* No step raises a distance.  Relax stores SP[s] + w from a second load
\* of SP[s], after the compare made with the first; the store is an
\* improvement only because the thread of s can have lowered SP[s]
\* in between but never raised it, and only if the compare came first.
SsspDistancesNeverRise == [][\A v \in Vertex : SP'[v] <= SP[v]]_SP

\* main's while loop ends, and then SP holds the shortest distances from
\* vertex 0: whatever order the threads' loads and stores of SP take,
\* every vertex that improved is pulled from again in the next pass, and
\* the rounds = n exit comes only after a pass that changed nothing.
SsspDistancesExact == <>(state = "done" /\ SP = Dist)

\* A graph reachable from 0 has a negative cycle exactly when an edge can
\* still lower a distance after n-1 rounds.
HasNegativeCycle == Relaxed(Dist) # Dist

\* main prints "negative cycle" (rounds = n) only on a graph that has one.
\* The check follows every pass, the pass that found nothing to improve
\* included, so a graph whose shortest path to some vertex has n-1 edges
\* reaches it with an empty frontier.
NegativeCycleReportedOnlyIfOne == negCycle => HasNegativeCycle
====
