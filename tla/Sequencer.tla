----------------------------- MODULE Sequencer -----------------------------
(***************************************************************************)
(* The Ruby Sequencer of the OMEGA gem5 model with ASYNC_PISCS defined     *)
(* (src/omega/gem5/src/mem/ruby/system/Sequencer.{hh,cc}).                 *)
(*                                                                         *)
(* One sequencer per core admits requests into a write table and a read    *)
(* table keyed by address, counts them in m_outstanding_count, hands PISC  *)
(* atomic operations a pseudo address from a pool of ASYNC_PISC_LIMIT      *)
(* addresses, converts a completed sparse PISC operation into a store of   *)
(* the destination id to the sparse active list (writeActiveVertex), and   *)
(* parks such a store in retryActiveVertexList when it cannot be admitted. *)
(* system->outstandingPISCOps counts the operations in flight over all     *)
(* cores; waitForPISCs in the benchmarks spins until it is 0.             *)
(*                                                                         *)
(* insertRequest schedules deadlockCheckEvent when it is not scheduled;   *)
(* wakeup, when it fires, checks the tables and schedules itself again     *)
(* only while m_outstanding_count > 0.                                    *)
(*                                                                         *)
(* Data is abstracted away: a packet is a record of the flags the control  *)
(* flow reads.  The coherence protocol is the environment: any admitted   *)
(* request may be answered at any time (readCallback / writeCallback).   *)
(***************************************************************************)
EXTENDS Integers, Sequences, SequencesExt, FiniteSets, Functions, TLC

CONSTANTS
  Cores,          \* one Sequencer per core (m_version)
  Lines,          \* line addresses of ordinary memory
  V3,             \* element addresses of tracked range 3 (the dense next frontier)
  Ops,            \* PISC operations of a pass, named by their edge index
  EdgeLineOf,     \* line of the sparse active list that edge index i lands in
  MaxOutstanding, \* m_max_outstanding_requests
  PISCLimit,      \* ASYNC_PISC_LIMIT
  IsCopy          \* system->isCopy, set through the is-copy register

\* Sequencer.cc:166 and 173, checked in the constructor.
ASSUME PISCLimit >= MaxOutstanding /\ MaxOutstanding > 0
ASSUME EdgeLineOf \in [Ops -> Lines] /\ IsCopy \in BOOLEAN /\ Ops \subseteq Nat \ {0}

\* Pseudo address ASYNC_PISC_PADDR_START + i is represented by i.
PAddrs == 0 .. PISCLimit - 1
Addrs  == Lines \cup V3 \cup PAddrs
NoOp   == 0

VARIABLES
  seqr,               \* per core: tables, counter, pool, retry list, local PISC count
  outstandingPISCOps, \* system->outstandingPISCOps, shared by all cores
  isSparse,           \* system->isSparse, fixed while a pass runs
  issuedOps,          \* dest-info writes made so far (each edge index once per pass)
  waiting             \* per core: addresses of CPU requests awaiting ruby_hit_callback

vars == <<seqr, outstandingPISCOps, isSparse, issuedOps, waiting>>

Packet == [op: Ops \cup {NoOp}, addr: Addrs, read: BOOLEAN, atomic: BOOLEAN,
           sparse: BOOLEAN, handled: BOOLEAN, copy: BOOLEAN]
RequestType == {"ST", "LD", "ST_Vertex", "CHECK_ACTIVEVERTEX"}
Request == [type: RequestType, pkt: Packet]

\* Request types that insertRequest files in the write table (Sequencer.cc:368-384).
StoreClass == {"ST", "ST_Vertex", "CHECK_ACTIVEVERTEX"}

\* The constructor fills availablePISCPAddrs with START+0 .. START+LIMIT-1.
InitSeqr ==
  [w |-> <<>>, r |-> <<>>, count |-> 0,
   pool |-> [i \in 1 .. PISCLimit |-> i - 1], retry |-> <<>>, local |-> 0,
   armed |-> FALSE]

\* insertRequest's first step: schedule deadlockCheckEvent unless it is scheduled.
ScheduleDeadlockCheck(s) == [s EXCEPT !.armed = TRUE]

\* markRemoved: a request left its table.
MarkRemoved(s) == [s EXCEPT !.count = @ - 1]

(***************************************************************************)
(* insertRequest: an atomic packet takes the last pseudo address of the    *)
(* pool; a store-class request aliases an outstanding read or write of the *)
(* same address, a load aliases an outstanding write or read.  The       *)
(* deadlock check is scheduled before the alias test.                     *)
(***************************************************************************)
\* Mutant: a store does not check the read table for an outstanding load.
InsertRequestNoLoadCheck(s, pkt, type) ==
  LET a   == IF pkt.atomic THEN Last(s.pool) ELSE pkt.addr
      s0  == ScheduleDeadlockCheck(s)
      s1  == IF pkt.atomic THEN [s0 EXCEPT !.pool = Front(@)] ELSE s0
      req == [type |-> type, pkt |-> [pkt EXCEPT !.addr = a]]
      aliased == IF type \in StoreClass THEN a \in DOMAIN s.w
                 ELSE a \in DOMAIN s.w \/ a \in DOMAIN s.r
  IN  IF aliased THEN [status |-> "Aliased", s |-> s1]
      ELSE IF type \in StoreClass
      THEN [status |-> "Ready", s |-> [s1 EXCEPT !.w = @ @@ (a :> req), !.count = @ + 1]]
      ELSE [status |-> "Ready", s |-> [s1 EXCEPT !.r = @ @@ (a :> req), !.count = @ + 1]]

InsertRequest(s, pkt, type) ==
  LET a   == IF pkt.atomic THEN Last(s.pool) ELSE pkt.addr
      s0  == ScheduleDeadlockCheck(s)
      s1  == IF pkt.atomic THEN [s0 EXCEPT !.pool = Front(@)] ELSE s0
      req == [type |-> type, pkt |-> [pkt EXCEPT !.addr = a]]
      aliased == IF type \in StoreClass
                 THEN a \in DOMAIN s.r \/ a \in DOMAIN s.w
                 ELSE a \in DOMAIN s.w \/ a \in DOMAIN s.r
  IN  IF aliased THEN [status |-> "Aliased", s |-> s1]
      ELSE IF type \in StoreClass
      THEN [status |-> "Ready", s |-> [s1 EXCEPT !.w = @ @@ (a :> req), !.count = @ + 1]]
      ELSE [status |-> "Ready", s |-> [s1 EXCEPT !.r = @ @@ (a :> req), !.count = @ + 1]]

(***************************************************************************)
(* The request type makeRequest gives an ordinary load or store: a dense   *)
(* access to tracked range 3 is CHECK_ACTIVEVERTEX, except a store that is *)
(* already an active-list write; everything else is ST or LD.             *)
(***************************************************************************)
Classify(pkt) ==
  IF pkt.read
  THEN IF ~isSparse /\ pkt.addr \in V3 THEN "CHECK_ACTIVEVERTEX" ELSE "LD"
  ELSE IF ~isSparse /\ ~pkt.handled /\ pkt.addr \in V3 THEN "CHECK_ACTIVEVERTEX" ELSE "ST"

\* makeRequest for a packet that is neither a configuration access nor a PISC dispatch.
\* Mutant: BufferFull only once the count exceeds the maximum.
MakeRequestOffByOne(s, pkt) ==
  IF s.count > MaxOutstanding THEN [status |-> "BufferFull", s |-> s]
  ELSE LET res == InsertRequest(s, pkt, Classify(pkt))
       IN  IF res.status # "Ready" THEN res ELSE [status |-> "Issued", s |-> res.s]

MakeRequest(s, pkt) ==
  IF s.count >= MaxOutstanding THEN [status |-> "BufferFull", s |-> s]
  ELSE LET res == InsertRequest(s, pkt, Classify(pkt))
       IN  IF res.status # "Ready" THEN res ELSE [status |-> "Issued", s |-> res.s]

\* addToRetryActiveVertexList (Sequencer.hh): a packet is parked at most once.
AddToRetryActiveVertexList(s, pkt) ==
  IF pkt \in ToSet(s.retry) THEN s
  ELSE [s EXCEPT !.retry = Append(@, pkt), !.count = @ + 1]

\* writeActiveVertex: issue the active-list store or park it.
WriteActiveVertex(s, pkt) ==
  LET res == MakeRequest(s, pkt)
  IN  IF res.status = "Issued" THEN res.s ELSE AddToRetryActiveVertexList(res.s, pkt)

\* The tail of hitCallback: the parked stores leave the count and are re-issued in order.
\* Mutant: the parked stores are re-issued without leaving the count first.
DrainRetryListKeepCount(s) ==
  IF s.retry = <<>> THEN s
  ELSE FoldLeft(WriteActiveVertex, [s EXCEPT !.retry = <<>>], s.retry)

\* Mutant: hitCallback never retries the parked stores.
DrainRetryListNever(s) == s

DrainRetryList(s) ==
  IF s.retry = <<>> THEN s
  ELSE FoldLeft(WriteActiveVertex,
                [s EXCEPT !.count = @ - Len(s.retry), !.retry = <<>>], s.retry)

\* A packet that is a PISC operation or its active-list store when it completes.
\* Mutant: only a packet still marked atomic completes a PISC operation.
IsPISCPacketAtomicOnly(pkt) == pkt.atomic

IsPISCPacket(pkt) == pkt.atomic \/ pkt.handled

\* The first branch of hitCallback: a sparse PISC result or a copy-mode range-3 store.
IsActiveListWrite(req) ==
  /\ ~req.pkt.handled
  /\ \/ req.pkt.atomic /\ req.pkt.sparse
     \/ req.type = "CHECK_ACTIVEVERTEX" /\ req.pkt.copy

(***************************************************************************)
(* hitCallback of core c, after the callback removed req from its table   *)
(* and the sequencer state became s.                                      *)
(***************************************************************************)
HitCallback(c, s, req) ==
  LET pkt == req.pkt IN
  IF IsActiveListWrite(req)
  THEN LET wb == [pkt EXCEPT !.handled = TRUE, !.atomic = FALSE, !.read = FALSE,
                             !.addr = IF pkt.atomic /\ pkt.sparse THEN EdgeLineOf[pkt.op] ELSE @]
       IN  /\ seqr' = [seqr EXCEPT ![c] = WriteActiveVertex(s, wb)]
           /\ UNCHANGED <<outstandingPISCOps, waiting>>
  ELSE LET pisc == IsPISCPacket(pkt)
           s1   == IF pisc THEN [s EXCEPT !.local = @ - 1] ELSE s
       IN  /\ outstandingPISCOps' = IF pisc THEN outstandingPISCOps - 1 ELSE outstandingPISCOps
           /\ waiting' = IF pisc THEN waiting ELSE [waiting EXCEPT ![c] = @ \ {pkt.addr}]
           /\ seqr' = [seqr EXCEPT ![c] = DrainRetryList(s1)]

-----------------------------------------------------------------------------
Init ==
  /\ seqr = [c \in Cores |-> InitSeqr]
  /\ outstandingPISCOps = 0
  /\ isSparse \in BOOLEAN
  /\ issuedOps = {}
  /\ waiting = [c \in Cores |-> {}]

(***************************************************************************)
(* A core loads or stores addr through makeRequest.  Aliased and         *)
(* BufferFull leave everything as it was (the port retries later), so    *)
(* only an issued request is a step.  (An aliased insertRequest has      *)
(* scheduled the deadlock check, but an entry of the table is outstanding *)
(* then, so the check is already scheduled.)                              *)
(***************************************************************************)
CpuAccess(c, addr, isRead) ==
  LET pkt == [op |-> NoOp, addr |-> addr, read |-> isRead, atomic |-> FALSE,
              sparse |-> isSparse, handled |-> FALSE,
              copy |-> ~isRead /\ IsCopy /\ ~isSparse /\ addr \in V3]
      res == MakeRequest(seqr[c], pkt)
  IN  /\ addr \notin waiting[c]
      /\ res.status = "Issued"
      /\ seqr' = [seqr EXCEPT ![c] = res.s]
      /\ waiting' = [waiting EXCEPT ![c] = @ \cup {addr}]
      /\ UNCHANGED <<outstandingPISCOps, isSparse, issuedOps>>

(***************************************************************************)
(* The dest-info configuration write with enableAtomic = 1: a new         *)
(* Writeback packet carries the operation into insertRequest, is issued,   *)
(* and the counters grow; the core continues at once (Satisfied).         *)
(***************************************************************************)
DispatchPISC(c, op) ==
  LET pkt == [op |-> op, addr |-> NoOp, read |-> FALSE, atomic |-> TRUE,
              sparse |-> isSparse, handled |-> FALSE, copy |-> FALSE]
      res == InsertRequest(seqr[c], pkt, "ST_Vertex")
  IN  /\ op \notin issuedOps
      /\ seqr[c].count < MaxOutstanding
      /\ issuedOps' = issuedOps \cup {op}
      /\ seqr' = [seqr EXCEPT ![c] = [res.s EXCEPT !.local = @ + 1]]
      /\ outstandingPISCOps' = outstandingPISCOps + 1
      /\ UNCHANGED <<isSparse, waiting>>

\* writeCallback: a PISC operation returns its pseudo address to the pool.
\* Mutant: writeCallback does not return the pseudo address to the pool.
WriteCallbackNoFree(c, a) ==
  LET s   == seqr[c]
      req == s.w[a]
      s1  == MarkRemoved([s EXCEPT !.w = Restrict(@, DOMAIN @ \ {a})])
  IN  /\ a \in DOMAIN s.w
      /\ HitCallback(c, s1, req)
      /\ UNCHANGED <<isSparse, issuedOps>>

\* Mutant: every PISC-marked packet, active-list stores included, returns its
\* address to the pool.
WriteCallbackFreeAnyPISC(c, a) ==
  LET s   == seqr[c]
      req == s.w[a]
      s1  == MarkRemoved([s EXCEPT !.w = Restrict(@, DOMAIN @ \ {a}),
                       !.pool = IF IsPISCPacket(req.pkt) THEN Append(@, a) ELSE @])
  IN  /\ a \in DOMAIN s.w
      /\ HitCallback(c, s1, req)
      /\ UNCHANGED <<isSparse, issuedOps>>

WriteCallback(c, a) ==
  LET s   == seqr[c]
      req == s.w[a]
      s1  == MarkRemoved([s EXCEPT !.w = Restrict(@, DOMAIN @ \ {a}),
                       !.pool = IF req.pkt.atomic THEN Append(@, a) ELSE @])
  IN  /\ a \in DOMAIN s.w
      /\ HitCallback(c, s1, req)
      /\ UNCHANGED <<isSparse, issuedOps>>

ReadCallback(c, a) ==
  LET s   == seqr[c]
      req == s.r[a]
      s1  == MarkRemoved([s EXCEPT !.r = Restrict(@, DOMAIN @ \ {a})])
  IN  /\ a \in DOMAIN s.r
      /\ HitCallback(c, s1, req)
      /\ UNCHANGED <<isSparse, issuedOps>>

(***************************************************************************)
(* deadlockCheckEvent of core c fires.  A table entry older than           *)
(* m_deadlock_threshold panics and ends the simulation, which the          *)
(* behaviours here exclude (see Fairness); wakeup then asserts the count   *)
(* (OutstandingCountExact) and schedules itself again while requests are   *)
(* outstanding.                                                            *)
(***************************************************************************)
\* Mutant: wakeup never schedules itself again.
WakeupOneShot(c) ==
  /\ seqr[c].armed
  /\ seqr' = [seqr EXCEPT ![c].armed = FALSE]
  /\ UNCHANGED <<outstandingPISCOps, isSparse, issuedOps, waiting>>

Wakeup(c) ==
  /\ seqr[c].armed
  /\ seqr' = [seqr EXCEPT ![c].armed = seqr[c].count > 0]
  /\ UNCHANGED <<outstandingPISCOps, isSparse, issuedOps, waiting>>

Next ==
  \E c \in Cores :
    \/ Wakeup(c)
    \/ \E a \in Lines \cup V3, rd \in BOOLEAN : CpuAccess(c, a, rd)
    \/ \E op \in Ops : DispatchPISC(c, op)
    \/ \E a \in Addrs : WriteCallback(c, a)
    \/ \E a \in Addrs : ReadCallback(c, a)

(***************************************************************************)
(* The protocol answers every issued request: a request older than the    *)
(* deadlock threshold makes wakeup panic, so a run that goes on has every  *)
(* table entry answered.  The cores themselves need not do anything.       *)
(***************************************************************************)
Fairness ==
  \A c \in Cores, a \in Addrs : WF_vars(WriteCallback(c, a)) /\ WF_vars(ReadCallback(c, a))

Spec == Init /\ [][Next]_vars /\ Fairness

-----------------------------------------------------------------------------
(***************************************************************************)
(* Properties                                                              *)
(***************************************************************************)
IsTable(t) == DOMAIN t \subseteq Addrs /\ \A a \in DOMAIN t : t[a] \in Request

\* Type invariant. The counters are unsigned in the code (uint64_t outstandingPISCOps,
\* int m_outstanding_count asserted >= 0), and writeCallback asserts that the pool never
\* holds more than ASYNC_PISC_LIMIT pseudo addresses.
TypeOK ==
  /\ \A c \in Cores :
       /\ IsTable(seqr[c].w) /\ IsTable(seqr[c].r)
       /\ seqr[c].count \in Nat /\ seqr[c].local \in Nat
       /\ seqr[c].pool \in Seq(PAddrs) /\ Len(seqr[c].pool) <= PISCLimit
       /\ seqr[c].retry \in Seq(Packet) /\ seqr[c].armed \in BOOLEAN
  /\ outstandingPISCOps \in Nat
  /\ isSparse \in BOOLEAN
  /\ issuedOps \subseteq Ops
  /\ waiting \in [Cores -> SUBSET (Lines \cup V3)]

\* The pseudo addresses held by PISC operations in core c's write table.
PAddrsInUse(c) == {a \in DOMAIN seqr[c].w : seqr[c].w[a].pkt.atomic}

\* The PISC operations core c still has in flight, told apart by the edge index a
\* dispatched packet carries: the operations in its write table and their
\* active-list stores in the write table (such stores are never loads) or parked.
InFlight(c) ==
  Cardinality({a \in DOMAIN seqr[c].w : seqr[c].w[a].pkt.op # NoOp})
  + Len(SelectSeq(seqr[c].retry, LAMBDA p : p.op # NoOp))

(***************************************************************************)
(* m_outstanding_count equals the entries of both request tables plus the  *)
(* parked active-list stores, as insertRequest, markRemoved and wakeup     *)
(* assert; the drain in hitCallback subtracts the list before re-issuing.  *)
(***************************************************************************)
OutstandingCountExact ==
  \A c \in Cores :
    seqr[c].count = Cardinality(DOMAIN seqr[c].w) + Cardinality(DOMAIN seqr[c].r)
                    + Len(seqr[c].retry)

(***************************************************************************)
(* No core ever holds more than m_max_outstanding_requests requests,       *)
(* counting parked active-list stores (the assert in                       *)
(* addToRetryActiveVertexList); makeRequest's BufferFull check and the     *)
(* order of markRemoved before hitCallback are what keep it.               *)
(***************************************************************************)
OutstandingBounded ==
  \A c \in Cores : seqr[c].count <= MaxOutstanding

(***************************************************************************)
(* Every pseudo address is either in availablePISCPAddrs, exactly once, or *)
(* held by exactly one PISC operation in the write table: insertRequest    *)
(* pops and writeCallback pushes back, so the pool is never empty when a   *)
(* dispatch needs it and never holds more than ASYNC_PISC_LIMIT entries.   *)
(***************************************************************************)
PISCAddrsConserved ==
  \A c \in Cores :
    /\ Len(seqr[c].pool) + Cardinality(PAddrsInUse(c)) = PISCLimit
    /\ ToSet(seqr[c].pool) \cup PAddrsInUse(c) = PAddrs

(***************************************************************************)
(* The per-address discipline of the admission tables: an address is      *)
(* never outstanding as a read and as a write at once.                     *)
(***************************************************************************)
NoLoadStoreAlias ==
  \A c \in Cores : DOMAIN seqr[c].w \cap DOMAIN seqr[c].r = {}

(***************************************************************************)
(* outstandingPISCOps (what waitForPISCs polls) counts exactly the PISC    *)
(* operations in flight on all cores, a sparse operation until its         *)
(* active-list store completes; so when it reads 0 every result and every  *)
(* sparse frontier entry has been written.                                 *)
(***************************************************************************)
PISCCountExact ==
  /\ \A c \in Cores :
       seqr[c].local = InFlight(c)
  /\ outstandingPISCOps = FoldFunction(LAMBDA x, y : x + y, 0, [c \in Cores |-> seqr[c].local])

(***************************************************************************)
(* A core with outstanding requests always has its deadlock check         *)
(* scheduled, so a request the protocol never answers ends in wakeup's    *)
(* panic rather than a silent hang.  Only insertRequest schedules the     *)
(* event: a store parked by addToRetryActiveVertexList raises the count   *)
(* without scheduling it, and wakeup drops it once the count reads 0.     *)
(***************************************************************************)
DeadlockCheckArmed ==
  \A c \in Cores : seqr[c].count > 0 => seqr[c].armed

(***************************************************************************)
(* waitForPISCs returns: once the pass stops dispatching, the PISC         *)
(* operations in flight, parked active-list stores included, all finish. *)
(***************************************************************************)
PISCsDrain == <>[](outstandingPISCOps = 0)

=============================================================================
