----------------------------- MODULE AddressMap -----------------------------
(***************************************************************************)
(* The address-space map of the sequencer: the MMIO configuration writes  *)
(* that set tracked ranges 1 and 3 (and the range-3 "old" copy) in         *)
(* Sequencer::makeRequest, and the classification of a virtual address    *)
(* into scratchpad, set and line offset by isVertexInAddrRange,            *)
(* isVertexStartAddr, destSPM and setEntry.  Ranges 2 and 4 are handled by *)
(* the same code with offsets 1 and 3 and are left out.                    *)
(*                                                                         *)
(* Configuration values come from small sets: the program may write any   *)
(* of them in any order.  Strides and chunk sizes are positive, as every   *)
(* writer in the repository (OMEGA_API::init and map) writes them.         *)
(***************************************************************************)
EXTENDS Integers, FiniteSets

CONSTANTS
  NumCPU,        \* m_numCPU
  NumSpdSets,    \* (m_spm_size / m_spm_assoc) / m_block_size
  MaxChunkSize,  \* maxChunkSize, the slack sets init() adds
  VAddrs,        \* virtual addresses the program touches
  Starts,        \* values written to the vertexStartAddr registers
  Strides,       \* values written to the stride registers
  Chunks,        \* values written to configChunkSize
  NumVertices,   \* values written to configNumVertex
  Opps           \* values written to configAtomicOppTypeAddr1

ASSUME /\ NumCPU \in Nat \ {0} /\ NumSpdSets \in Nat \ {0}
       /\ Strides \subseteq Nat \ {0} /\ Chunks \subseteq Nat \ {0}

\* system->iterCount: its only increment (Sequencer.cc 1302) is commented out.
iterCount == 0

\* A tracked range: start address, stride, enable flag.
Range == [start: Starts, stride: Strides, enable: {0, 1}]

VARIABLES
  r1, r3, r3old,   \* ranges 1, 3 and 3_old
  numVertex, chunkSize, isSparse, atomicOppType1

vars == <<r1, r3, r3old, numVertex, chunkSize, isSparse, atomicOppType1>>

----------------------------------------------------------------------------
\* ScratchpadMemory::init: m_spm_num_sets, the sets of m_spm, slack included.
SpmNumSets == NumSpdSets + MaxChunkSize

\* getNumSets: the sets without the slack.
GetNumSets == SpmNumSets - MaxChunkSize

\* moduloHash: its modulo is commented out, so the set is the address.
ModuloHash(addr) == addr

\* addressToCacheSet with hashType 'm', the only type the constructor sets.
AddressToCacheSet(addr) == ModuloHash(addr)

\* numLinesMapped: the vertices the scratchpads hold, capped at their sets.
NumLinesMapped ==
  IF numVertex > GetNumSets * NumCPU THEN GetNumSets * NumCPU ELSE numVertex

\* isVertexInAddrRange for an enabled range r.
InRange(va, r) ==
  /\ r.enable = 1
  /\ va >= r.start /\ va < r.start + r.stride * NumLinesMapped
  /\ (va - r.start) % r.stride = 0

ElementIndex(va, r) == (va - r.start) \div r.stride

\* A plausible slip in the layout: chunks dealt to scratchpads by element.
DestSPMByElement(v) == v % NumCPU

\* destSPM and setEntry: the chunked round-robin layout.
DestSPM(v) == (v \div chunkSize) % NumCPU

\* A plausible slip: setEntry without the division by the core count.
SetEntryFlat(v) == (v \div chunkSize) * chunkSize + (v % chunkSize)

SetEntry(v) == ((v \div chunkSize) \div NumCPU) * chunkSize + (v % chunkSize)

Place(va, r, offset) ==
  [dest |-> DestSPM(ElementIndex(va, r)), set |-> SetEntry(ElementIndex(va, r)),
   offset |-> offset]

\* No tracked range holds the address.
NULLPLACE == [dest |-> -1, set |-> -1, offset |-> -1]

\* A plausible slip: range 3 takes the same byte parity as range 3_old.
IsVertexStartAddrSameParity(va) ==
  CASE InRange(va, r1) -> Place(va, r1, 0)
    [] r3.enable = 1 /\ ~isSparse /\ InRange(va, r3) ->
         Place(va, r3, IF iterCount % 2 = 1 THEN 4 ELSE 5)
    [] InRange(va, r3old) -> Place(va, r3old, IF iterCount % 2 = 1 THEN 4 ELSE 5)
    [] OTHER -> NULLPLACE

\* isVertexStartAddr: the first tracked range that holds va gives its line
\* offset (0 for range 1; 4 or 5 for range 3 by iterCount parity, only in
\* dense mode; the other one for range 3_old), its scratchpad and its set.
IsVertexStartAddr(va) ==
  CASE InRange(va, r1) -> Place(va, r1, 0)
    [] r3.enable = 1 /\ ~isSparse /\ InRange(va, r3) ->
         Place(va, r3, IF iterCount % 2 = 1 THEN 5 ELSE 4)
    [] InRange(va, r3old) -> Place(va, r3old, IF iterCount % 2 = 1 THEN 4 ELSE 5)
    [] OTHER -> NULLPLACE

\* isVertexLocal, called for an address isVertexStartAddr accepted: is the
\* destSPM of its element, in the first enabled range that holds it (1, 3,
\* then 3_old; range 3 in either mode), the requesting context ctx?  makeRequest
\* types the request _Local or _Remote by it.
IsVertexLocal(va, ctx) ==
  CASE InRange(va, r1) -> DestSPM(ElementIndex(va, r1)) = ctx
    [] InRange(va, r3) -> DestSPM(ElementIndex(va, r3)) = ctx
    [] InRange(va, r3old) -> DestSPM(ElementIndex(va, r3old)) = ctx

----------------------------------------------------------------------------
(***************************************************************************)
(* The request types makeRequest gives a packet that reaches the memory  *)
(* system (Sequencer.cc 1861-2166), as <<primary, secondary>>.  A packet  *)
(* is one of these kinds: a PISC dispatch (a configDestInfo store in       *)
(* atomic mode, va being its destination vertex), LL, SC, an x86 locked   *)
(* read or write, an instruction fetch, a store-checked read, a plain     *)
(* read or write, a write of configPrefetchSize with prefetch enabled, and *)
(* a flush.  handled is the packet's isActiveListHandled flag.             *)
(***************************************************************************)
Kinds == {"pisc", "ll", "sc", "lockedRead", "lockedWrite", "ifetch",
          "storecheck", "ld", "st", "prefetchSize", "flush"}

IsVertex(va) == IsVertexStartAddr(va) # NULLPLACE

\* The _Local or the _Remote type, as isVertexLocal chooses.
Side(local, remote, va, ctx) == IF IsVertexLocal(va, ctx) THEN local ELSE remote

Both(t) == <<t, t>>

\* The dense active-list tests: range 3, then range 3_old (addrRange 5).
DenseActive(va) == ~isSparse /\ IsVertex(va) /\ (InRange(va, r3) \/ InRange(va, r3old))

\* atomicExec: local when destSPM of the destination vertex is the requester.
PiscRequestType(v, ctx) ==
  IF DestSPM(v) = ctx THEN Both("ST_Vertex_Local") ELSE Both("ST_Vertex_Remote")

\* A plausible slip: a remote locked vertex read issued with the types swapped.
LockedRequestTypeSwapped(k, va, ctx) ==
  CASE k = "ll" -> <<"Load_Linked", "ATOMIC">>
    [] k = "sc" -> <<"Store_Conditional", "ATOMIC">>
    [] k = "lockedWrite" /\ IsVertex(va) ->
         <<Side("Locked_Vertex_Write_Local", "Locked_Vertex_Write_Remote", va, ctx), Side("ST_Vertex_Local", "ST_Vertex_Remote", va, ctx)>>
    [] k = "lockedRead" /\ IsVertex(va) ->
         IF IsVertexLocal(va, ctx)
         THEN <<"Locked_Vertex_Read_Local", "ST_Vertex_Local">>
         ELSE <<"Locked_LD_Vertex_Remote", "Locked_Vertex_Read_Remote">>
    [] k = "lockedWrite" -> <<"Locked_RMW_Write", "ST">>
    [] k = "lockedRead" -> <<"Locked_RMW_Read", "ST">>

\* LL/SC (ATOMIC secondary), and x86 locked reads and writes, typed by the
\* vertex placement; a locked access outside the ranges has secondary ST.
LockedRequestType(k, va, ctx) ==
  CASE k = "ll" -> <<"Load_Linked", "ATOMIC">>
    [] k = "sc" -> <<"Store_Conditional", "ATOMIC">>
    [] k = "lockedWrite" /\ IsVertex(va) ->
         <<Side("Locked_Vertex_Write_Local", "Locked_Vertex_Write_Remote", va, ctx), Side("ST_Vertex_Local", "ST_Vertex_Remote", va, ctx)>>
    [] k = "lockedRead" /\ IsVertex(va) ->
         IF IsVertexLocal(va, ctx)
         THEN <<"Locked_Vertex_Read_Local", "ST_Vertex_Local">>
         ELSE <<"Locked_Vertex_Read_Remote", "Locked_LD_Vertex_Remote">>
    [] k = "lockedWrite" -> <<"Locked_RMW_Write", "ST">>
    [] k = "lockedRead" -> <<"Locked_RMW_Read", "ST">>

\* Reads: a fetch, a store-checked read (its vertex case is "not handled"
\* and stays RMW_Read), the dense active-list check, a vertex load, or LD.
ReadRequestType(k, va, ctx) ==
  CASE k = "ifetch" -> Both("IFETCH")
    [] k = "storecheck" -> <<"RMW_Read", "ST">>
    [] DenseActive(va) -> Both(Side("CHECK_ACTIVEVERTEX_Local", "CHECK_ACTIVEVERTEX_Remote", va, ctx))
    [] IsVertex(va) -> Both(Side("LD_Vertex_Local", "LD_Vertex_Remote", va, ctx))
    [] OTHER -> Both("LD")

\* Writes: an edge prefetch, the dense active-list check of a store not yet
\* handled (copy mode or not, the types agree), a vertex store, or ST.
WriteRequestType(k, va, ctx, handled) ==
  CASE k = "prefetchSize" -> Both("PREFETCH_EDGE")
    [] ~handled /\ DenseActive(va) -> Both(Side("CHECK_ACTIVEVERTEX_Local", "CHECK_ACTIVEVERTEX_Remote", va, ctx))
    [] ~handled /\ IsVertex(va) -> Both(Side("ST_Vertex_Local", "ST_Vertex_Remote", va, ctx))
    [] OTHER -> Both("ST")

RequestType(k, va, ctx, handled) ==
  CASE k = "pisc" -> PiscRequestType(va, ctx)
    [] k \in {"ll", "sc", "lockedRead", "lockedWrite"} -> LockedRequestType(k, va, ctx)
    [] k \in {"ifetch", "storecheck", "ld"} -> ReadRequestType(k, va, ctx)
    [] k \in {"st", "prefetchSize"} -> WriteRequestType(k, va, ctx, handled)
    [] k = "flush" -> Both("FLUSH")

\* insertRequest: the primary types that enter m_writeRequestTable; the
\* others enter m_readRequestTable.
WriteTableTypes ==
  {"ST", "ST_Vertex_Local", "ST_Vertex_Remote", "RMW_Read", "RMW_Write",
   "Load_Linked", "Store_Conditional", "Locked_RMW_Read",
   "Locked_Vertex_Read_Local", "Locked_Vertex_Read_Remote", "Locked_RMW_Write",
   "Locked_Vertex_Write_Local", "Locked_Vertex_Write_Remote", "PREFETCH_EDGE",
   "CHECK_ACTIVEVERTEX_Local", "CHECK_ACTIVEVERTEX_Remote", "FLUSH"}

\* insertRequest: the types keyed by the word address, not the line address.
WordKeyedTypes ==
  {"ST_Vertex_Local", "ST_Vertex_Remote", "Locked_Vertex_Read_Local",
   "Locked_Vertex_Read_Remote", "Locked_Vertex_Write_Local",
   "Locked_Vertex_Write_Remote", "LD_Vertex_Local", "PREFETCH_EDGE",
   "CHECK_ACTIVEVERTEX_Local", "CHECK_ACTIVEVERTEX_Remote", "LD_Vertex_Remote"}

\* writeCallback: the types its assertion accepts, and those it looks up by
\* the word address (the others must be line addresses).
WriteCallbackTypes ==
  {"ST", "ST_Vertex_Local", "ST_Vertex_Remote", "ATOMIC", "RMW_Read",
   "RMW_Write", "Load_Linked", "Store_Conditional", "Locked_RMW_Read",
   "Locked_Vertex_Read_Local", "Locked_Vertex_Read_Remote", "Locked_RMW_Write",
   "Locked_Vertex_Write_Local", "Locked_Vertex_Write_Remote", "PREFETCH_EDGE",
   "CHECK_ACTIVEVERTEX_Local", "CHECK_ACTIVEVERTEX_Remote", "FLUSH"}
WriteCallbackWordTypes ==
  {"ST_Vertex_Local", "ST_Vertex_Remote", "Locked_Vertex_Read_Local",
   "Locked_Vertex_Read_Remote", "Locked_Vertex_Write_Local",
   "Locked_Vertex_Write_Remote", "CHECK_ACTIVEVERTEX_Local",
   "CHECK_ACTIVEVERTEX_Remote", "PREFETCH_EDGE"}

\* readCallback: the same two lists.
ReadCallbackTypes == {"LD", "LD_Vertex_Local", "LD_Vertex_Remote", "IFETCH"}
ReadCallbackWordTypes == {"LD_Vertex_Local", "LD_Vertex_Remote"}

----------------------------------------------------------------------------
\* The registers as System declares them.  vertexStartAddr* and chunkSize
\* have no initialiser; the program writes chunkSize before it enables a
\* range, so their first values are any the program may write.
Init ==
  /\ r1 \in [start: Starts, stride: {1}, enable: {0}]
  /\ r3 \in [start: Starts, stride: {1}, enable: {0}]
  /\ r3old \in [start: Starts, stride: {1}, enable: {0}]
  /\ numVertex = 0
  /\ chunkSize \in Chunks
  /\ isSparse = TRUE
  /\ atomicOppType1 \in Opps

\* configVertexStartAddr1, configStride1, configEnableTrackedAddr1.
WriteRange1(f, x) ==
  /\ r1' = [r1 EXCEPT ![f] = x]
  /\ UNCHANGED <<r3, r3old, numVertex, chunkSize, isSparse, atomicOppType1>>

\* configVertexStartAddr3 and configStride3.
WriteRange3(f, x) ==
  /\ r3' = [r3 EXCEPT ![f] = x]
  /\ UNCHANGED <<r1, r3old, numVertex, chunkSize, isSparse, atomicOppType1>>

\* configEnableTrackedAddr3: disabling range 3 in dense mode saves it as
\* range 3_old (except for opcodes 4, 7, a, b, c); disabling it in sparse
\* mode drops range 3_old.
WriteEnableTracked3(tmp) ==
  /\ r3' = [r3 EXCEPT !.enable = tmp]
  /\ r3old' =
       IF atomicOppType1 \in {"4", "7", "a", "b", "c"} \/ tmp # 0 THEN r3old
       ELSE IF ~isSparse THEN r3 ELSE [r3old EXCEPT !.enable = 0]
  /\ UNCHANGED <<r1, numVertex, chunkSize, isSparse, atomicOppType1>>

WriteNumVertex(n) ==
  numVertex' = n /\ UNCHANGED <<r1, r3, r3old, chunkSize, isSparse, atomicOppType1>>

WriteChunkSize(c) ==
  chunkSize' = c /\ UNCHANGED <<r1, r3, r3old, numVertex, isSparse, atomicOppType1>>

WriteIsSparse(b) ==
  isSparse' = b /\ UNCHANGED <<r1, r3, r3old, numVertex, chunkSize, atomicOppType1>>

WriteAtomicOppType1(o) ==
  atomicOppType1' = o /\ UNCHANGED <<r1, r3, r3old, numVertex, chunkSize, isSparse>>

\* The values the program may write to a field of a range.
FieldValues(f) == CASE f = "start" -> Starts [] f = "stride" -> Strides [] OTHER -> {0, 1}

Next ==
  \/ \E f \in {"start", "stride", "enable"} : \E x \in FieldValues(f) : WriteRange1(f, x)
  \/ \E f \in {"start", "stride"} : \E x \in FieldValues(f) : WriteRange3(f, x)
  \/ \E tmp \in {0, 1} : WriteEnableTracked3(tmp)
  \/ \E n \in NumVertices : WriteNumVertex(n)
  \/ \E c \in Chunks : WriteChunkSize(c)
  \/ \E b \in BOOLEAN : WriteIsSparse(b)
  \/ \E o \in Opps : WriteAtomicOppType1(o)

Spec == Init /\ [][Next]_vars
----------------------------------------------------------------------------
Mapped == 0 .. NumLinesMapped - 1

\* spec.md 4.1 describes the layout as chunks dealt round-robin to the
\* cores, each core's chunks packed in order.  So destSPM and setEntry must
\* put every mapped element at its rank among the elements with the same
\* scratchpad, for whatever chunkSize and numVertex the program last wrote.
SetEntryIsRank ==
  \A v \in Mapped :
    SetEntry(v) = Cardinality({w \in 0 .. v - 1 : DestSPM(w) = DestSPM(v)})

\* The set addressToCacheSet computes from every set entry setEntry yields
\* lies within m_spm, slack included (spec.md 4.1: the slack, at least the
\* largest chunk size, absorbs chunk-based scheduling).  The scratchpad
\* indexes m_spm[cacheSet] with no bounds check.
SetFits == \A v \in Mapped : AddressToCacheSet(SetEntry(v)) < SpmNumSets

\* No two addresses the program may touch are classified onto the same
\* scratchpad line and byte offset, whatever the ranges, the range-3_old
\* copy and the modes the program configured.
NoAliasing ==
  \A va, vb \in VAddrs :
    (va # vb /\ IsVertexStartAddr(va) # NULLPLACE)
      => IsVertexStartAddr(va) # IsVertexStartAddr(vb)

\* A request makeRequest types _Local goes to the requesting core's own
\* scratchpad, and a _Remote one to another: isVertexLocal agrees with the
\* scratchpad isVertexStartAddr placed the line on, for every context.
LocalMatchesPlace ==
  \A va \in VAddrs, ctx \in 0 .. NumCPU - 1 :
    IsVertexStartAddr(va) # NULLPLACE =>
      (IsVertexLocal(va, ctx) <=> IsVertexStartAddr(va).dest = ctx)

\* Every request makeRequest can issue under the configuration the program
\* wrote completes without tripping an assertion: insertRequest files it
\* by its primary type in the table whose callback accepts that type
\* (writeCallback and readCallback assert it), and a request keyed by its
\* word address is looked up by the word there, since the callback
\* asserts that any other address is a line address.  The three lists are
\* kept by hand in makeRequest, insertRequest and the two callbacks.
CallbacksAcceptIssuedTypes ==
  \A k \in Kinds, va \in VAddrs, ctx \in 0 .. NumCPU - 1, h \in BOOLEAN :
    LET t == RequestType(k, va, ctx, h)[1]
    IN  IF t \in WriteTableTypes
        THEN t \in WriteCallbackTypes /\ (t \in WordKeyedTypes => t \in WriteCallbackWordTypes)
        ELSE t \in ReadCallbackTypes /\ (t \in WordKeyedTypes => t \in ReadCallbackWordTypes)
====
