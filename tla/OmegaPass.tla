----------------------------- MODULE OmegaPass -----------------------------
(***************************************************************************)
(* The cc benchmark's push loop around the atomic engine                  *)
(* (cc_benchmark.gt__push-pull-omega.gt__.cpp, the sparse branch of       *)
(* edgeset_apply_hybrid_dense_parallel_deduplicatied_...).  A pass maps   *)
(* the sparse active list, enables deduplication and atomic min ('g'),   *)
(* and the cores send one PISC packet per out-edge; then the program      *)
(* waits for the packets, disables atomics and deduplication, maps        *)
(* mappedNext back into range 3 as a dense bool array, filters the new    *)
(* frontier, and writes mappedNext[v] = 0 for every frontier vertex.  In  *)
(* the SPM that one-byte write is a CHECK_ACTIVEVERTEX access which       *)
(* isVertexActiveSPM turns into clearing the vertex line's valid byte,    *)
(* the byte the next pass deduplicates on.  The while loop of main runs   *)
(* passes while the frontier is non-empty; omegaMap(IDs) returns at once  *)
(* when IDs is already mapped, so the vertex lines carry over.            *)
(*                                                                         *)
(* The updates of each pass are a constant (PassSlots, Update) rather     *)
(* than the out-edges of the previous frontier: the deduplication and     *)
(* reset protocol does not depend on which edges a pass pushes.           *)
(***************************************************************************)
EXTENDS AtomicEngine, Sequences

\* The slots of each pass; Slots is their union.  The instance fixes the
\* engine's constants to those of the cc pass: Opp "g", IsSparse and
\* DedupEnabled TRUE, and IterCount 0, since the increment of
\* system->iterCount is commented out.
CONSTANT PassSlots

ASSUME /\ PassSlots \in Seq(SUBSET Nat) /\ Len(PassSlots) > 0
       /\ Slots = UNION {PassSlots[p] : p \in DOMAIN PassSlots}
       /\ Opp = "g" /\ IsSparse /\ DedupEnabled

VARIABLES
  pass,    \* the iteration of main's while loop
  phase,   \* "push" while the PISC packets run, "reset" after unmapSparseActive
  cleared  \* frontier vertices whose mappedNext entry has been written 0

passVars == <<blk, pktData, active_vertices_per_spm, active_vertices_total,
              pass, phase, cleared>>

Range3Offset == IF IterCount % 2 = 1 THEN 5 ELSE 4

\* isVertexActiveSPM on a dense write that is not a copy: clear the byte at
\* offset * 8, one of the two valid bytes (offsets 4 and 5, bytes 32 and 40).
IsVertexActiveSPMWrite(b, offset) == [b EXCEPT !.valid[offset - 4] = FALSE]

\* The filtered active list: the entries of this pass that are not UINT_MAX.
NextIndices ==
  {pktData[s] : s \in PassSlots[pass] \cap DOMAIN pktData} \ {UINT_MAX}

PassInit ==
  /\ Init
  /\ pass = 1
  /\ phase = "push"
  /\ cleared = {}

\* One out-edge of the parallel loop: omegaSetSparseOffset(offset + j) and
\* the omegaWriteX of push_apply_func, executed by the destination's SPM.
PushEdge(s) ==
  /\ phase = "push"
  /\ s \in PassSlots[pass]
  /\ AtomicExecution(s)
  /\ UNCHANGED <<pass, phase, cleared>>

\* omegaWaitForPISCs returns once every packet has executed; then atomics
\* and deduplication are disabled and mappedNext is mapped back.
EndPass ==
  /\ phase = "push"
  /\ PassSlots[pass] \subseteq DOMAIN pktData
  /\ phase' = "reset"
  /\ cleared' = {}
  /\ UNCHANGED <<blk, pktData, active_vertices_per_spm, active_vertices_total, pass>>

\* mappedNext[temp] = 0 for one vertex temp of nextIndices.
ResetMappedNext(v) ==
  /\ phase = "reset"
  /\ v \in NextIndices \ cleared
  /\ blk' = [blk EXCEPT ![v] = IsVertexActiveSPMWrite(@, Range3Offset)]
  /\ cleared' = cleared \cup {v}
  /\ UNCHANGED <<pktData, active_vertices_per_spm, active_vertices_total, pass, phase>>

\* The while loop goes round while the frontier is non-empty: the next
\* pass maps a fresh active list and writes enableAtomic 1, which resets
\* the active-vertex counters.
StartPass ==
  /\ phase = "reset"
  /\ cleared = NextIndices
  /\ NextIndices # {}
  /\ pass < Len(PassSlots)
  /\ pass' = pass + 1
  /\ phase' = "push"
  /\ cleared' = {}
  /\ active_vertices_per_spm' = [d \in Spds |-> 0]
  /\ active_vertices_total' = 0
  /\ UNCHANGED <<blk, pktData>>

PassNext ==
  \/ \E s \in Slots : PushEdge(s)
  \/ EndPass
  \/ \E v \in Vertices : ResetMappedNext(v)
  \/ StartPass

\* The SPM serves every packet and the program's threads run their loops
\* to the end.
PassSpec ==
  /\ PassInit /\ [][PassNext]_passVars
  /\ WF_passVars(\E s \in Slots : PushEdge(s))
  /\ WF_passVars(EndPass)
  /\ WF_passVars(\E v \in Vertices : ResetMappedNext(v))
  /\ WF_passVars(StartPass)

----------------------------------------------------------------------------
PassFrontier ==
  [v \in NextIndices |->
     Cardinality({s \in PassSlots[pass] \cap DOMAIN pktData : pktData[s] = v})]

\* MC_AtomicEngineSparse checks that the cc passes implement AtomicPasses
\* under this mapping (CcPassesImplementAtomicPasses): in every pass,
\* whatever the order of its packets, the values, the tally and the
\* deduplicated frontier are those of an atomic pass.  This holds only if
\* the mappedNext writes of the previous pass cleared exactly the valid
\* byte atomicExecution reads, so that a vertex of the old frontier can
\* enter the new one again.
PassAbstract == INSTANCE AtomicPasses WITH
  value <- [v \in Vertices |-> blk[v].f0],
  frontier <- PassFrontier,
  pending <- PassSlots[pass] \ DOMAIN pktData,
  activeCount <- active_vertices_total,
  OppClass <- "min",
  Dedup <- TRUE
====
