---------------------------- MODULE VertexBuffer ----------------------------
(***************************************************************************)
(* The read-only cached vertex buffer of the sequencers and the           *)
(* enable-atomic register that governs it (Sequencer.cc, system.hh).       *)
(*                                                                         *)
(* While system->enableAtomic is 1, every vertex load that completes       *)
(* stashes its data in system->readOnlyCachedData of the answering         *)
(* context and sets validVCaching of that context (hitCallback); a later  *)
(* load of the same virtual address by a context whose validVCaching is   *)
(* set is answered from the buffer in makeRequest and never reaches a     *)
(* scratchpad.  Writing 1 to configEnableAtomicAddr resets the active-     *)
(* vertex counters; writing 0 clears the flags and empties every buffer.  *)
(*                                                                         *)
(* A load is three steps: makeRequest (hit, or a read-table entry), the   *)
(* scratchpad reading the word (the data block the response carries),     *)
(* and readCallback/hitCallback.  PISC atomic-min updates of the cc pass   *)
(* (opcode g) and plain stores may change a vertex between the two last   *)
(* steps.  The protocol's MachineID of a response is the sequencer's own  *)
(* controller, so the answering context is the requesting one.            *)
(*                                                                         *)
(* The benchmarks write the register from one thread between parallel     *)
(* loops (omegaEnableAtomic before the edge loop, omegaDisableAtomic after *)
(* the join and waitForPISCs), so no vertex load is outstanding when it is *)
(* written.                                                                 *)
(***************************************************************************)
EXTENDS Integers, Functions, TLC

CONSTANTS
  Cores,      \* contexts, one per core and sequencer
  Verts,      \* virtual addresses of mapped vertices
  Values,     \* vertex values
  DestSpd,    \* the scratchpad (core) that holds each vertex
  MaxActive,  \* bound on active_vertices_total
  InitEnableAtomic \* values system->enableAtomic may hold before its first write

ASSUME DestSpd \in [Verts -> Cores] /\ Values \subseteq Nat
ASSUME InitEnableAtomic \subseteq {0, 1}

\* The response of a load has not yet read its data block.
NoData == -1

VARIABLES
  enableAtomic,            \* system->enableAtomic
  enableVCaching,          \* system->enableVCaching, per context
  validVCaching,           \* system->validVCaching, per context
  readOnlyCachedData,      \* per context: vaddr -> cached data
  pending,                 \* per context: read-table entries, vaddr -> data or NoData
  mem,                     \* the word of each vertex in its scratchpad
  active_vertices_per_spm, \* system->active_vertices_per_spm
  active_vertices_total,   \* system->active_vertices_total
  cpuLoad,                 \* per context: the last load answered, and whether
                           \* the buffer answered it
  inPass,                  \* ghost: the program is between omegaEnableAtomic
                           \* and omegaDisableAtomic
  passVals                 \* ghost: the values each vertex held since the
                           \* program's last omegaEnableAtomic

vars == <<enableAtomic, enableVCaching, validVCaching, readOnlyCachedData,
          pending, mem, active_vertices_per_spm, active_vertices_total,
          cpuLoad, inPass, passVals>>

NoLoad == [vert |-> NoData, buf |-> FALSE]

----------------------------------------------------------------------------
\* A vertex takes value x: the ghost collects it while a pass runs and
\* restarts from it otherwise.
Assign(v, x) ==
  /\ mem' = [mem EXCEPT ![v] = x]
  /\ passVals' = [passVals EXCEPT ![v] = IF inPass THEN @ \cup {x} ELSE {x}]

\* invalidateReadOnlyCachedData: empty the buffer of every context.
InvalidateReadOnlyCachedData == [c \in Cores |-> <<>>]

\* lookupReadOnlyCachedData: the cached data of va for ctx, if any.
LookupReadOnlyCachedData(c, va) == va \in DOMAIN readOnlyCachedData[c]

\* addReadOnlyCachedData: add va's data to ctx's buffer (asserting it is new).
AddReadOnlyCachedData(c, va, d) ==
  [readOnlyCachedData EXCEPT ![c] = @ @@ (va :> d)]

\* System declares enableAtomic without an initialiser and OMEGA_API::init
\* does not write it: it holds whatever the build leaves there (0 or 1 is
\* all the code tells apart).  The vectors start cleared.
Init ==
  /\ enableAtomic \in InitEnableAtomic
  /\ enableVCaching = [c \in Cores |-> FALSE]
  /\ validVCaching = [c \in Cores |-> FALSE]
  /\ readOnlyCachedData = InvalidateReadOnlyCachedData
  /\ pending = [c \in Cores |-> <<>>]
  /\ mem \in [Verts -> Values]
  /\ active_vertices_per_spm = [c \in Cores |-> 0]
  /\ active_vertices_total = 0
  /\ cpuLoad = [c \in Cores |-> NoLoad]
  /\ inPass = FALSE
  /\ passVals = [v \in Verts |-> {mem[v]}]

\* The benchmarks alternate omegaEnableAtomic (write 1) and
\* omegaDisableAtomic (write 0), from one thread, with no vertex load
\* outstanding; a pass starts from the vertices' current values.
ProgramWritesEnableAtomic(x) ==
  /\ \A c \in Cores : pending[c] = <<>>
  /\ inPass = (x = 0)
  /\ inPass' = (x = 1)
  /\ passVals' = [v \in Verts |-> {mem[v]}]

\* Mutant: disabling atomic mode clears the flags but keeps the buffers.
WriteEnableAtomicNoInvalidate(x) ==
  /\ enableAtomic' = x
  /\ IF x = 1
     THEN /\ active_vertices_total' = 0
          /\ active_vertices_per_spm' = [c \in Cores |-> 0]
          /\ enableVCaching' = [c \in Cores |-> TRUE]
          /\ UNCHANGED <<validVCaching, readOnlyCachedData>>
     ELSE /\ enableVCaching' = [c \in Cores |-> FALSE]
          /\ validVCaching' = [c \in Cores |-> FALSE]
          /\ UNCHANGED <<readOnlyCachedData, active_vertices_total, active_vertices_per_spm>>
  /\ ProgramWritesEnableAtomic(x)
  /\ UNCHANGED <<pending, mem, cpuLoad>>

\* configEnableAtomicAddr: 1 starts a pass (counters reset, caching
\* enabled); any other value clears both flags of every context and
\* invalidates the buffers.
WriteEnableAtomic(x) ==
  /\ enableAtomic' = x
  /\ IF x = 1
     THEN /\ active_vertices_total' = 0
          /\ active_vertices_per_spm' = [c \in Cores |-> 0]
          /\ enableVCaching' = [c \in Cores |-> TRUE]
          /\ UNCHANGED <<validVCaching, readOnlyCachedData>>
     ELSE /\ enableVCaching' = [c \in Cores |-> FALSE]
          /\ validVCaching' = [c \in Cores |-> FALSE]
          /\ readOnlyCachedData' = InvalidateReadOnlyCachedData
          /\ UNCHANGED <<active_vertices_total, active_vertices_per_spm>>
  /\ ProgramWritesEnableAtomic(x)
  /\ UNCHANGED <<pending, mem, cpuLoad>>

\* makeRequest of a vertex load: answered from the buffer when atomic mode
\* is on and the context's buffer is valid and holds va; otherwise entered
\* in the read table (a load of an address already there is Aliased and
\* retried by the core, which leaves the state as it is).
MakeRequestLoad(c, va) ==
  /\ va \notin DOMAIN pending[c]
  /\ IF enableAtomic = 1 /\ validVCaching[c] /\ LookupReadOnlyCachedData(c, va)
     THEN /\ cpuLoad' = [cpuLoad EXCEPT ![c] =
                [vert |-> va, buf |-> TRUE]]
          /\ UNCHANGED pending
     ELSE /\ pending' = [pending EXCEPT ![c] = @ @@ (va :> NoData)]
          /\ UNCHANGED cpuLoad
  /\ UNCHANGED <<enableAtomic, enableVCaching, validVCaching, readOnlyCachedData,
                 mem, active_vertices_per_spm, active_vertices_total, inPass, passVals>>

\* The scratchpad reads the word into the response's data block.
ReadData(c, va) ==
  /\ va \in DOMAIN pending[c] /\ pending[c][va] = NoData
  /\ pending' = [pending EXCEPT ![c][va] = mem[va]]
  /\ UNCHANGED <<enableAtomic, enableVCaching, validVCaching, readOnlyCachedData,
                 mem, active_vertices_per_spm, active_vertices_total, cpuLoad, inPass, passVals>>

\* Mutant: the data of a vertex load is stashed whatever the mode.
ReadCallbackStashAlways(c, va) ==
  LET d == pending[c][va]
  IN  /\ va \in DOMAIN pending[c] /\ d # NoData
      /\ pending' = [pending EXCEPT ![c] = [a \in DOMAIN @ \ {va} |-> @[a]]]
      /\ cpuLoad' = [cpuLoad EXCEPT ![c] = [vert |-> va, buf |-> FALSE]]
      /\ validVCaching' = [validVCaching EXCEPT ![c] = TRUE]
      /\ readOnlyCachedData' = AddReadOnlyCachedData(c, va, d)
      /\ UNCHANGED <<enableAtomic, enableVCaching, mem, active_vertices_per_spm,
                     active_vertices_total, inPass, passVals>>

\* Mutant: the callback runs before the scratchpad has read the word.
ReadCallbackBeforeData(c, va) ==
  LET d == pending[c][va]
  IN  /\ va \in DOMAIN pending[c]
      /\ pending' = [pending EXCEPT ![c] = [a \in DOMAIN @ \ {va} |-> @[a]]]
      /\ cpuLoad' = [cpuLoad EXCEPT ![c] = [vert |-> va, buf |-> FALSE]]
      /\ IF enableAtomic = 1
         THEN /\ validVCaching' = [validVCaching EXCEPT ![c] = TRUE]
              /\ readOnlyCachedData' = AddReadOnlyCachedData(c, va, d)
         ELSE UNCHANGED <<validVCaching, readOnlyCachedData>>
      /\ UNCHANGED <<enableAtomic, enableVCaching, mem, active_vertices_per_spm,
                     active_vertices_total, inPass, passVals>>

\* readCallback and hitCallback of a vertex load: the read-table entry is
\* erased, the data goes to the core and, in atomic mode, to the buffer of
\* the answering context, whose validVCaching is set.
ReadCallback(c, va) ==
  LET d == pending[c][va]
  IN  /\ va \in DOMAIN pending[c] /\ d # NoData
      /\ pending' = [pending EXCEPT ![c] = [a \in DOMAIN @ \ {va} |-> @[a]]]
      /\ cpuLoad' = [cpuLoad EXCEPT ![c] = [vert |-> va, buf |-> FALSE]]
      /\ IF enableAtomic = 1
         THEN /\ validVCaching' = [validVCaching EXCEPT ![c] = TRUE]
              /\ readOnlyCachedData' = AddReadOnlyCachedData(c, va, d)
         ELSE UNCHANGED <<validVCaching, readOnlyCachedData>>
      /\ UNCHANGED <<enableAtomic, enableVCaching, mem, active_vertices_per_spm,
                     active_vertices_total, inPass, passVals>>

\* atomicExecution, opcode g (GraphIt atomic min of an int): a smaller
\* operand replaces the word and counts the vertex as active.
AtomicMin(v, x) ==
  /\ enableAtomic = 1
  /\ active_vertices_total < MaxActive
  /\ IF x < mem[v]
     THEN /\ Assign(v, x)
          /\ active_vertices_per_spm' = [active_vertices_per_spm EXCEPT ![DestSpd[v]] = @ + 1]
          /\ active_vertices_total' = active_vertices_total + 1
     ELSE UNCHANGED <<mem, passVals, active_vertices_per_spm, active_vertices_total>>
  /\ UNCHANGED <<enableAtomic, enableVCaching, validVCaching, readOnlyCachedData,
                 pending, cpuLoad, inPass>>

\* A plain store of the program to a vertex.  The benchmarks store to the
\* property array directly only outside atomic mode (initialisation, the
\* pull direction); within a pass it changes through PISC operations.
StoreVertex(v, x) ==
  /\ ~inPass
  /\ Assign(v, x)
  /\ UNCHANGED <<enableAtomic, enableVCaching, validVCaching, readOnlyCachedData,
                 pending, active_vertices_per_spm, active_vertices_total, cpuLoad, inPass>>

Next ==
  \/ \E x \in {0, 1} : WriteEnableAtomic(x)
  \/ \E c \in Cores, va \in Verts :
       MakeRequestLoad(c, va) \/ ReadData(c, va) \/ ReadCallback(c, va)
  \/ \E v \in Verts, x \in Values : AtomicMin(v, x) \/ StoreVertex(v, x)

Spec == Init /\ [][Next]_vars
----------------------------------------------------------------------------
TypeOK ==
  /\ enableAtomic \in {0, 1}
  /\ validVCaching \in [Cores -> BOOLEAN] /\ enableVCaching \in [Cores -> BOOLEAN]
  /\ \A c \in Cores :
       /\ DOMAIN readOnlyCachedData[c] \subseteq Verts
       /\ \A va \in DOMAIN readOnlyCachedData[c] : readOnlyCachedData[c][va] \in Values
       /\ DOMAIN pending[c] \subseteq Verts
  /\ mem \in [Verts -> Values]
  /\ active_vertices_total \in 0 .. MaxActive

\* The assertion of addReadOnlyCachedData (Sequencer.cc:584) never fails:
\* whenever a vertex load of a context is outstanding in atomic mode, the
\* address is not yet in that context's buffer, so the hitCallback that
\* completes it adds a new entry.
StashKeyFresh ==
  enableAtomic = 1 =>
    \A c \in Cores : \A va \in DOMAIN pending[c] :
      ~LookupReadOnlyCachedData(c, va)

\* Every load the read-only buffer can answer while the program is in an
\* atomic pass returns a value its vertex held since the program enabled
\* atomic mode: the buffer may lag behind PISC updates of the pass, but
\* never carries a value over from before omegaEnableAtomic.
BufferedLoadsFromPass ==
  inPass =>
    \A c \in Cores : validVCaching[c] =>
      \A va \in DOMAIN readOnlyCachedData[c] :
        readOnlyCachedData[c][va] \in passVals[va]
====
