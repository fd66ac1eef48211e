------------------------------ MODULE BfsPush ------------------------------
(***************************************************************************)
(* The bfs benchmark (bfs_benchmark.gt__push-omega.gt__.cpp) end to end: *)
(* main maps parent into the scratchpads, starts from the frontier {0}    *)
(* with parent[0] = 0, and runs the sparse push pass until the frontier   *)
(* is empty.  In a pass every thread walks the out-neighbours d of its    *)
(* frontier vertex s in order; a d below omega's mapped count is claimed *)
(* by a CAS32 PISC packet (omegaSetSparseOffset, omegaCas32) that the     *)
(* SPM of d executes later and that writes the active-list entry itself; *)
(* any other d is claimed by the thread's own compare_and_swap on parent, *)
(* which writes the entry.  After omegaWaitForPISCs the entries that are *)
(* not UINT_E_MAX are the next frontier.  When every vertex fits, main    *)
(* runs the _allInSPM variant, which is the same pass with no CPU branch. *)
(*                                                                         *)
(* The SPM side is AtomicEngine with opcode 'j': the engine's slots are   *)
(* the edges <<s, j>> (the j-th out-neighbour of s), each pushed at most *)
(* once over the whole run because a vertex enters a frontier only when *)
(* its CAS from -1 succeeds.                                              *)
(***************************************************************************)
EXTENDS AtomicEngine, Sequences

CONSTANTS
  Adj,          \* g.out_neigh: the out-neighbours of each vertex, in order
  MappedCounts  \* curr_data_count values map can leave (all, or the cap)

\* The int -1 main and updateEdge store and compare against, as a W-bit word.
NegOne == 2^W - 1

ASSUME /\ Adj \in [Vertices -> Seq(Vertices)] /\ 0 \in Vertices
       /\ Vertices \subseteq 0 .. NegOne - 1
       /\ MappedCounts \subseteq 1 .. Cardinality(Vertices)
       /\ Slots = UNION {{<<s, j>> : j \in 1 .. Len(Adj[s])} : s \in Vertices}
       /\ \A e \in Slots :
            Update[e] = [dst |-> Adj[e[1]][e[2]], src |-> e[1], cmp |-> NegOne, add |-> 0]
       /\ Opp = "j" /\ IsSparse /\ ~DedupEnabled
       /\ {0, NegOne} \subseteq InitValues

VARIABLES
  mappedCount, \* omega.curr_data_count, fixed by omegaMap(parent, ...)
  memParent,   \* parent[] in memory, read for the vertices not in the SPM
  frontier,    \* dense_vertex_set_ of the current VertexSubset
  nextEdge,    \* per frontier vertex, the neighbours its thread has pushed
  inflight,    \* CAS32 packets sent and not yet executed by their SPM
  cpuOut,      \* outEdges entries the threads wrote for unmapped vertices
  phase        \* "start" of a pass, "push" in the parallel loop, "done"

bfsVars == <<blk, pktData, active_vertices_per_spm, active_vertices_total,
             mappedCount, memParent, frontier, nextEdge, inflight, cpuOut, phase>>

\* omegaInSPM: the vertex ids below the mapped count live in the SPM.
InSPM(v) == v < mappedCount

\* omegaAllInSPM: map did not cap the count, and main runs the _allInSPM
\* variant of the pass, whose loop has no CPU branch.
AllInSPM == \A v \in Vertices : InSPM(v)

\* updateEdge's compare_and_swap(parent[dst], -(1), src), and the CAS32 the
\* SPM executes for omegaCas32(src, -1, dst): the parent is set only if it
\* is still -1.
CasFromNegOne(old, src) == IF old = NegOne THEN src ELSE old

\* parent[v] as the program reads it.
Parent(v) == IF InSPM(v) THEN blk[v].f0 ELSE memParent[v]

\* The out-edges of the current frontier: the entries of outEdges.
PassSlots == {e \in Slots : e[1] \in frontier}

\* outEdges: the SPM writes the entries of CAS32 packets, the threads the rest.
OutEdges == pktData @@ cpuOut

\* sequence::filter(outEdges, nextIndices, ..., nonMaxF()).
NextIndices == {OutEdges[e] : e \in PassSlots} \ {UINT_MAX}

BfsInit ==
  /\ Init
  /\ \A v \in Vertices : blk[v].f0 = IF v = 0 THEN 0 ELSE NegOne
  /\ mappedCount \in MappedCounts
  /\ memParent = [v \in Vertices |-> IF v = 0 THEN 0 ELSE NegOne]
  /\ frontier = {0}
  /\ nextEdge = [v \in Vertices |-> 0]
  /\ inflight = {}
  /\ cpuOut = [e \in {} |-> UINT_MAX]
  /\ phase = "start"

\* outDegrees == 0: the pass returns the empty frontier at once, which ends
\* main's while loop.
EmptyPass ==
  /\ phase = "start"
  /\ PassSlots = {}
  /\ frontier' = {}
  /\ phase' = "done"
  /\ UNCHANGED <<blk, pktData, active_vertices_per_spm, active_vertices_total,
                 mappedCount, memParent, nextEdge, inflight, cpuOut>>

\* omegaMapSparseActive and omegaEnableAtomic(CAS_32): writing enableAtomic 1
\* zeroes the active-vertex counters.
BeginPass ==
  /\ phase = "start"
  /\ PassSlots # {}
  /\ phase' = "push"
  /\ active_vertices_per_spm' = [d \in Spds |-> 0]
  /\ active_vertices_total' = 0
  /\ UNCHANGED <<blk, pktData, mappedCount, memParent, frontier, nextEdge,
                 inflight, cpuOut>>

\* The next neighbour d of s is in the SPM: send its CAS32 packet.
PushEdgeSPM(s) ==
  LET j == nextEdge[s] + 1
      d == Adj[s][j]
  IN  /\ phase = "push"
      /\ s \in frontier /\ nextEdge[s] < Len(Adj[s])
      /\ InSPM(d)
      /\ inflight' = inflight \cup {<<s, j>>}
      /\ nextEdge' = [nextEdge EXCEPT ![s] = j]
      /\ UNCHANGED <<blk, pktData, active_vertices_per_spm, active_vertices_total,
                     mappedCount, memParent, frontier, cpuOut, phase>>

\* Mutant: the CPU branch writes the parent without comparing it to -1.
PushEdgeCPUNoCompare(s) ==
  LET j == nextEdge[s] + 1
      d == Adj[s][j]
  IN  /\ phase = "push"
      /\ s \in frontier /\ nextEdge[s] < Len(Adj[s])
      /\ ~AllInSPM /\ ~InSPM(d)
      /\ memParent' = [memParent EXCEPT ![d] = s]
      /\ cpuOut' = cpuOut @@ (<<s, j>> :> d)
      /\ nextEdge' = [nextEdge EXCEPT ![s] = j]
      /\ UNCHANGED <<blk, pktData, active_vertices_per_spm, active_vertices_total,
                     mappedCount, frontier, inflight, phase>>

\* The next neighbour d of s is not in the SPM: compare_and_swap(parent[d],
\* -1, s), and outEdges[offset + j] = d if it succeeded, else UINT_E_MAX.
PushEdgeCPU(s) ==
  LET j  == nextEdge[s] + 1
      d  == Adj[s][j]
      ok == memParent[d] = NegOne
  IN  /\ phase = "push"
      /\ s \in frontier /\ nextEdge[s] < Len(Adj[s])
      /\ ~AllInSPM /\ ~InSPM(d)
      /\ memParent' = [memParent EXCEPT ![d] = CasFromNegOne(@, s)]
      /\ cpuOut' = cpuOut @@ (<<s, j>> :> IF ok THEN d ELSE UINT_MAX)
      /\ nextEdge' = [nextEdge EXCEPT ![s] = j]
      /\ UNCHANGED <<blk, pktData, active_vertices_per_spm, active_vertices_total,
                     mappedCount, frontier, inflight, phase>>

\* The SPM of the destination executes one CAS32 packet.
ExecutePISC(e) ==
  /\ e \in inflight
  /\ AtomicExecution(e)
  /\ inflight' = inflight \ {e}
  /\ UNCHANGED <<mappedCount, memParent, frontier, nextEdge, cpuOut, phase>>

\* Mutant: the pass ends without waiting for the packets in flight; the
\* filter reads whatever the unwritten entries of outEdges hold.
EndPassNoWait ==
  /\ phase = "push"
  /\ \A s \in frontier : nextEdge[s] = Len(Adj[s])
  /\ \E junk \in [PassSlots \ DOMAIN OutEdges -> Vertices \cup {UINT_MAX}] :
       LET next == {(OutEdges @@ junk)[e] : e \in PassSlots} \ {UINT_MAX}
       IN  /\ frontier' = next
           /\ phase' = IF next = {} THEN "done" ELSE "start"
  /\ nextEdge' = [v \in Vertices |-> 0]
  /\ UNCHANGED <<blk, pktData, active_vertices_per_spm, active_vertices_total,
                 mappedCount, memParent, inflight, cpuOut>>

\* Every thread has finished its loop; omegaWaitForPISCs spins until no
\* packet is outstanding; then the filter builds the next frontier, and the
\* while loop of main goes round again unless it is empty.
EndPass ==
  /\ phase = "push"
  /\ \A s \in frontier : nextEdge[s] = Len(Adj[s])
  /\ inflight = {}
  /\ frontier' = NextIndices
  /\ nextEdge' = [v \in Vertices |-> 0]
  /\ phase' = IF NextIndices = {} THEN "done" ELSE "start"
  /\ UNCHANGED <<blk, pktData, active_vertices_per_spm, active_vertices_total,
                 mappedCount, memParent, inflight, cpuOut>>

BfsNext ==
  \/ EmptyPass
  \/ BeginPass
  \/ \E s \in Vertices : PushEdgeSPM(s) \/ PushEdgeCPU(s)
  \/ \E e \in Slots : ExecutePISC(e)
  \/ EndPass

\* The threads run their loops to the end and the SPMs serve every packet.
BfsSpec == BfsInit /\ [][BfsNext]_bfsVars /\ WF_bfsVars(BfsNext)
----------------------------------------------------------------------------
(***************************************************************************)
(* Reference: breadth-first distances from vertex 0.                      *)
(***************************************************************************)
Edges == {<<e[1], Update[e].dst>> : e \in Slots}

\* The vertices at distance at most k from 0.
RECURSIVE Within(_)
Within(k) ==
  IF k = 0 THEN {0}
  ELSE LET near == Within(k - 1)
       IN  near \cup {d \in Vertices : \E s \in near : <<s, d>> \in Edges}

Reachable == Within(Cardinality(Vertices))

\* The breadth-first distance of each reachable vertex.
Dist == [v \in Reachable |->
           CHOOSE k \in 0 .. Cardinality(Vertices) :
             v \in Within(k) /\ (k = 0 \/ v \notin Within(k - 1))]

Claimed == {v \in Vertices : Parent(v) # NegOne}

\* The parents form a breadth-first tree: whatever order the threads' CAS
\* instructions and the SPMs' CAS32 packets take, the parent of every
\* claimed vertex is an in-neighbour one level closer to vertex 0.  It
\* fails if a packet of one pass can execute in the next, when a vertex
\* one level further out can claim its destination first.
ParentsFormBfsTree ==
  /\ Parent(0) = 0
  /\ \A v \in Claimed \ {0} :
       /\ <<Parent(v), v>> \in Edges
       /\ Parent(v) \in Reachable /\ Dist[Parent(v)] + 1 = Dist[v]

\* Every vertex is claimed at most once over the whole run: no two entries
\* of the active lists, whether the SPM or a thread wrote them, hold the
\* same vertex, so no vertex is expanded twice even though bfs runs with
\* deduplication off.  Both claim paths rely on the compare with -1.
ClaimedOnce ==
  \A e1, e2 \in DOMAIN OutEdges :
    e1 # e2 /\ OutEdges[e1] = OutEdges[e2] => OutEdges[e1] = UINT_MAX

\* main's while loop ends, and then exactly the vertices reachable from 0
\* have a parent.
BfsComplete == <>(phase = "done" /\ Claimed = Reachable)
====
