---------------------------- MODULE AtomicEngine ----------------------------
(***************************************************************************)
(* The scratchpad's atomic execution engine (ScratchpadMemory.cc,         *)
(* atomicExecution and setSparseActiveVertex, and the dense active-vertex  *)
(* accesses of isVertexActiveSPM).                                        *)
(*                                                                         *)
(* One pass of PISC operations: every edge slot of the sparse active list *)
(* carries one update (destination vertex, source operand, CAS compare    *)
(* operand, add info), and the SPM controller executes them one at a time *)
(* in any order.  A vertex line keeps the 4- or 8-byte fields the opcodes *)
(* touch (offsets 0, 8 and 24) and the two valid bytes at offsets 32 and  *)
(* 40, chosen by the parity of system->iterCount.  Field values are the   *)
(* W-bit patterns of the stored words; int operands are read as two's    *)
(* complement, unsigned ones as they are.  The float and double opcodes  *)
(* hold numbers instead: the models give them small non-negative integer *)
(* operands, which IEEE floats represent exactly and whose sums stay far *)
(* below 2^24, so the + and < of the code are the exact ones (no NaN,    *)
(* infinity or rounding arises).                                          *)
(***************************************************************************)
EXTENDS Integers, FiniteSetsExt, Bitwise, TLC

CONSTANTS
  Vertices,     \* destination vertex ids mapped to the scratchpads
  Spds,         \* the scratchpads (one per core)
  DestSpd,      \* destSPM: the scratchpad holding each vertex
  Slots,        \* edge slots of the sparse active list (offset + j)
  Update,       \* the PISC update each slot's omegaWriteX / omegaCas32 sends
  Opp,          \* system->atomicOppType1, set by enableAtomic
  IsSparse,     \* system->isSparse while the pass runs
  DedupEnabled, \* system->dedupEnabled while the pass runs
  IterCount,    \* system->iterCount (its increment is commented out)
  W,            \* width, in bits, of a stored word
  InitValues    \* values a vertex line may hold when the pass starts

Val == 0 .. 2^W - 1
Parity == {0, 1}

ASSUME /\ W \in Nat \ {0} /\ InitValues \subseteq Val /\ IterCount \in Nat
       /\ DestSpd \in [Vertices -> Spds]
       /\ Update \in [Slots -> [dst: Vertices, src: Val, cmp: Val, add: Val]]
       /\ Opp \in {"1","2","3","4","5","6","7","8","a","b","c","d","e","f","g","h","i","j"}
       /\ IsSparse \in BOOLEAN /\ DedupEnabled \in BOOLEAN

\* The destination id written into a sparse active-list entry that holds no
\* vertex: UINT_MAX, which no mapped vertex id reaches.
UINT_MAX == -1

\* The valid byte atomicExecution uses: offset 32, or 40 when iterCount is odd.
ValidByte == IterCount % 2

\* Two's complement reading of a stored word, and truncation of a result.
Signed(x) == IF x >= 2^(W-1) THEN x - 2^W ELSE x
Trunc(x)  == x % 2^W

\* The opcodes whose value field is a float or a double.
FloatOpp == {"1", "a", "e", "f", "h", "i"}

Block == [f0: IF Opp \in FloatOpp THEN Nat ELSE Val, f8: Val, f24: Val,
          valid: [Parity -> BOOLEAN]]

VARIABLES
  blk,                     \* the SPM line of each vertex
  pktData,                 \* the data each executed PISC packet returns
  active_vertices_per_spm, \* system->active_vertices_per_spm
  active_vertices_total    \* system->active_vertices_total

vars == <<blk, pktData, active_vertices_per_spm, active_vertices_total>>

(***************************************************************************)
(* The opcodes.  Each maps a line and a packet to the new line and the    *)
(* success flag, before the active-list bookkeeping.                       *)
(***************************************************************************)
Res(b, ok) == [b |-> b, success |-> ok]

\* Mutant: the sum is not truncated to the word.
AddAlwaysNoTrunc(b, u) == Res([b EXCEPT !.f0 = @ + u.src], TRUE)

\* '7' KCore, '8' Triangle, 'd' GraphIt int sum: always successful; the
\* int (long) result wraps.
AddAlways(b, u) == Res([b EXCEPT !.f0 = Trunc(@ + u.src)], TRUE)

\* '1' PageRank, 'e' and 'f' GraphIt float and double sum: always successful.
FloatAdd(b, u) == Res([b EXCEPT !.f0 = @ + u.src], TRUE)

\* '2' BFS: the first write to an unvisited (UINT_MAX) vertex wins.
FirstTouch(b, u) ==
  IF b.f0 = 2^W - 1 THEN Res([b EXCEPT !.f0 = u.src], TRUE) ELSE Res(b, FALSE)

\* '3' BellmanFord: relax the distance; active only the first time (f8 = 0).
Relax(b, u) ==
  IF Signed(b.f0) > Signed(u.src)
  THEN Res([b EXCEPT !.f0 = u.src, !.f8 = IF b.f8 = 0 THEN 1 ELSE b.f8], b.f8 = 0)
  ELSE Res(b, FALSE)

\* '4' BC: add unless the vertex is marked done (f8); active if it was 0.
BCAdd(b, u) ==
  Res([b EXCEPT !.f0 = IF b.f8 = 0 THEN Trunc(@ + u.src) ELSE @], b.f0 = 0)

\* '5' Components: unsigned min; active only while the label equals f8.
ComponentsMin(b, u) ==
  IF u.src < b.f0 THEN Res([b EXCEPT !.f0 = u.src], b.f0 = b.f8) ELSE Res(b, FALSE)

\* '6' Radii: or the visited bitmask into NextVisited, set the round.
RadiiOr(b, u) ==
  LET toWrite == b.f8 | u.src
      changed == b.f8 # toWrite
      ok      == changed /\ b.f0 # u.add
  IN  Res([b EXCEPT !.f24 = IF changed THEN @ | toWrite ELSE @,
                    !.f0  = IF ok THEN u.add ELSE @], ok)

UMin(x, y) == IF x <= y THEN x ELSE y

\* How 'a' (PageRank sum), 'b' (BFS, last parent) and 'c' (Bellman-Ford,
\* unsigned min) reduce a later message into the accumulated value.
GraphMatCombine(x, y) ==
  CASE Opp = "a" -> x + y [] Opp = "b" -> y [] Opp = "c" -> UMin(x, y)

\* 'a', 'b', 'c' (GraphMat): the first message of a pass (valid byte clear)
\* replaces the value and succeeds; later ones are reduced into it.
GraphMatReduce(b, u) ==
  IF b.valid[ValidByte]
  THEN Res([b EXCEPT !.f0 = GraphMatCombine(@, u.src)], FALSE)
  ELSE Res([b EXCEPT !.f0 = u.src], TRUE)

\* 'g': signed min, successful when the operand is smaller.
AtomicMin(b, u) ==
  IF Signed(u.src) < Signed(b.f0) THEN Res([b EXCEPT !.f0 = u.src], TRUE)
  ELSE Res(b, FALSE)

\* Mutant: an equal operand counts as an improvement.
FloatMinNonStrict(b, u) ==
  IF u.src <= b.f0 THEN Res([b EXCEPT !.f0 = u.src], TRUE) ELSE Res(b, FALSE)

\* 'h', 'i': float and double min, successful when the operand is smaller.
FloatMin(b, u) ==
  IF u.src < b.f0 THEN Res([b EXCEPT !.f0 = u.src], TRUE) ELSE Res(b, FALSE)

\* Mutant: the compare and swap operands are swapped.
AtomicCASSwapped(b, u) ==
  IF u.src = b.f0 THEN Res([b EXCEPT !.f0 = u.cmp], TRUE) ELSE Res(b, FALSE)

\* 'j': 32-bit compare-and-swap.
AtomicCAS(b, u) ==
  IF u.cmp = b.f0 THEN Res([b EXCEPT !.f0 = u.src], TRUE) ELSE Res(b, FALSE)

Combine(b, u) ==
  CASE Opp \in {"7", "8", "d"} -> AddAlways(b, u)
    [] Opp \in {"1", "e", "f"} -> FloatAdd(b, u)
    [] Opp = "2" -> FirstTouch(b, u)
    [] Opp = "3" -> Relax(b, u)
    [] Opp = "4" -> BCAdd(b, u)
    [] Opp = "5" -> ComponentsMin(b, u)
    [] Opp = "6" -> RadiiOr(b, u)
    [] Opp \in {"a", "b", "c"} -> GraphMatReduce(b, u)
    [] Opp = "g" -> AtomicMin(b, u)
    [] Opp \in {"h", "i"} -> FloatMin(b, u)
    [] Opp = "j" -> AtomicCAS(b, u)

GraphItOpp == {"d", "e", "f", "g", "h", "i", "j"}

\* setSparseActiveVertex: the packet returns the destination id, or UINT_MAX.
SetSparseActiveVertex(v, success) == IF success THEN v ELSE UINT_MAX

\* Mutant: the sparse path ignores the deduplication flag.
ActiveListUpdateNoDedup(b, v, success) ==
  IF ~IsSparse
  THEN [data |-> v, b |-> IF success THEN [b EXCEPT !.valid[ValidByte] = TRUE] ELSE b]
  ELSE [data |-> SetSparseActiveVertex(v, success), b |-> b]

\* Mutant: a dense update never marks the valid byte.
ActiveListUpdateDenseNoValid(b, v, success) ==
  CASE ~IsSparse -> [data |-> v, b |-> b]
    [] Opp \in GraphItOpp /\ success /\ DedupEnabled /\ ~b.valid[ValidByte] ->
         [data |-> v, b |-> [b EXCEPT !.valid[ValidByte] = TRUE]]
    [] Opp \in GraphItOpp /\ success /\ DedupEnabled ->
         [data |-> UINT_MAX, b |-> b]
    [] OTHER -> [data |-> SetSparseActiveVertex(v, success), b |-> b]

\* The bookkeeping after the combine: the returned packet data and the line.
\* GraphIt opcodes deduplicate on the valid byte; the older opcodes only
\* report success.  A dense pass marks the valid byte of a successful update.
ActiveListUpdate(b, v, success) ==
  CASE ~IsSparse ->
         [data |-> v, b |-> IF success THEN [b EXCEPT !.valid[ValidByte] = TRUE] ELSE b]
    [] Opp \in GraphItOpp /\ success /\ DedupEnabled /\ ~b.valid[ValidByte] ->
         [data |-> v, b |-> [b EXCEPT !.valid[ValidByte] = TRUE]]
    [] Opp \in GraphItOpp /\ success /\ DedupEnabled ->
         [data |-> UINT_MAX, b |-> b]
    [] OTHER -> [data |-> SetSparseActiveVertex(v, success), b |-> b]

Init ==
  /\ blk \in [Vertices -> {[f0 |-> x, f8 |-> 0, f24 |-> 0, valid |-> [p \in Parity |-> FALSE]] :
                            x \in InitValues}]
  /\ pktData = [s \in {} |-> UINT_MAX]
  /\ active_vertices_per_spm = [d \in Spds |-> 0]
  /\ active_vertices_total = 0

\* atomicExecution of the PISC packet of slot s, reached through setDataSPM.
AtomicExecution(s) ==
  LET u   == Update[s]
      v   == u.dst
      r   == Combine(blk[v], u)
      out == ActiveListUpdate(r.b, v, r.success)
  IN  /\ s \notin DOMAIN pktData
      /\ blk' = [blk EXCEPT ![v] = out.b]
      /\ pktData' = pktData @@ (s :> out.data)
      /\ active_vertices_per_spm' =
           IF r.success THEN [active_vertices_per_spm EXCEPT ![DestSpd[v]] = @ + 1]
           ELSE active_vertices_per_spm
      /\ active_vertices_total' =
           IF r.success THEN active_vertices_total + 1 ELSE active_vertices_total

Next == \E s \in Slots : AtomicExecution(s)

\* The SPM controller serves every PISC packet it receives.
Spec == Init /\ [][Next]_vars /\ WF_vars(Next)

----------------------------------------------------------------------------
(***************************************************************************)
(* Properties                                                              *)
(***************************************************************************)
TypeOK ==
  /\ blk \in [Vertices -> Block]
  /\ DOMAIN pktData \subseteq Slots
  /\ \A s \in DOMAIN pktData : pktData[s] \in Vertices \cup {UINT_MAX}
  /\ active_vertices_per_spm \in [Spds -> Nat]
  /\ active_vertices_total \in Nat

\* The frontier the pass produces: in sparse mode the entries the returned
\* packets write into the active list, in dense mode the set valid bytes.
Frontier ==
  IF IsSparse
  THEN [v \in {pktData[s] : s \in DOMAIN pktData} \ {UINT_MAX} |->
          Cardinality({s \in DOMAIN pktData : pktData[s] = v})]
  ELSE [v \in {x \in Vertices : blk[x].valid[ValidByte]} |-> 1]

OppClassOf == CASE Opp = "d" -> "sum" [] Opp = "g" -> "min" [] Opp = "j" -> "cas"
                [] Opp \in {"e", "f"} -> "fsum" [] Opp \in {"h", "i"} -> "fmin"

Abstract == INSTANCE AtomicSpec WITH
  value <- [v \in Vertices |-> blk[v].f0],
  frontier <- Frontier,
  pending <- Slots \ DOMAIN pktData,
  activeCount <- active_vertices_total,
  OppClass <- OppClassOf,
  Dedup <- ~IsSparse \/ DedupEnabled

\* The engine implements the opcode table: whatever order the packets of a
\* pass arrive in, each value, the active-vertex tally and the frontier the
\* returned packets build (each vertex once with deduplication) are those of
\* the abstract pass, and every packet is eventually executed.
ImplementsAtomicSpec == Abstract!Spec

\* The GraphMat opcodes reduce the messages of a pass: the first message
\* (valid byte clear) replaces the old value and each later one is reduced
\* into it, so once every packet has executed, each destination holds the
\* minimum of its messages (spec.md 4.3: Bellman-Ford "relaxes if improves").
MessagesReduced ==
  DOMAIN pktData = Slots =>
    \A v \in {Update[s].dst : s \in Slots} :
      blk[v].f0 = Min({Update[s].src : s \in {t \in Slots : Update[t].dst = v}})
====
