---------------------------- MODULE MC_Components ----------------------------
(***************************************************************************)
(* Four components checked in one run, one per behaviour: OMEGA_API's    *)
(* map and unmap (MC_OmegaApi's two arrays, one a line too long), the      *)
(* scratchpad's line storage and replacement (MC_Scratchpad's two sets of *)
(* two ways, never NotPresent), the sequencer's address map under any      *)
(* order of configuration writes (MC_AddressMap's ranges), and the read-  *)
(* only vertex buffer (MC_VertexBuffer's two cores and two vertices, with *)
(* enableAtomic starting at 0).  Each has its own variables; a variable   *)
(* program, chosen in the initial state, says which one a behaviour runs, *)
(* and the others keep one initial state.  The address map's properties   *)
(* are checked in its own behaviours: elsewhere its state is that one     *)
(* initial state, which its behaviours start from too.                    *)
(***************************************************************************)
EXTENDS Integers, TLC

CONSTANTS A, B, x1, x2, x3, x4, c1, c2, va1, va2, NULL, TEMP

VARIABLES
  program,                                       \* "api", "spm", "map", "vb"
  curr_data, curr_data_count, curr_fits_in_spm, max_mapped_count,  \* OMEGA_API
  mapped_vaddr1, num_vertex, spm, host, logical, progMapped, exited,
  m_spm, m_tag_index, m_coll_ref, fault, lastVictim,               \* scratchpad
  r1, r3, r3old, numVertex, chunkSize, isSparse, atomicOppType1,   \* address map
  enableAtomic, enableVCaching, validVCaching, readOnlyCachedData,  \* vertex buffer
  pending, vbMem, vbPerSpm, vbTotal, cpuLoad, inPass, passVals

apiVars == <<curr_data, curr_data_count, curr_fits_in_spm, max_mapped_count,
             mapped_vaddr1, num_vertex, spm, host, logical, progMapped, exited>>
spmVars == <<m_spm, m_tag_index, m_coll_ref, fault, lastVictim>>
mapVars == <<r1, r3, r3old, numVertex, chunkSize, isSparse, atomicOppType1>>
vbVars == <<enableAtomic, enableVCaching, validVCaching, readOnlyCachedData,
            pending, vbMem, vbPerSpm, vbTotal, cpuLoad, inPass, passVals>>
allVars == <<program, apiVars, spmVars, mapVars, vbVars>>

Api == INSTANCE OmegaApi WITH
  Arrays <- {A, B}, ArrayLen <- (A :> 1) @@ (B :> 3), NumMapped <- 2, Values <- {0, 1}

Spm == INSTANCE Scratchpad WITH
  Addrs <- {x1, x2, x3, x4}, Sets <- {0, 1}, Assoc <- 2,
  SetOf <- (x1 :> 0) @@ (x2 :> 0) @@ (x3 :> 0) @@ (x4 :> 1), Contexts <- {0},
  ProtocolPerms <- {"Read_Only", "Busy"}, MaxColl <- 9

Map == INSTANCE AddressMap WITH
  NumCPU <- 2, NumSpdSets <- 3, MaxChunkSize <- 2, VAddrs <- 0 .. 11,
  Starts <- {0, 3}, Strides <- {1, 2}, Chunks <- {1, 2}, NumVertices <- {0, 4, 7},
  Opps <- {"d", "c"}

Vb == INSTANCE VertexBuffer WITH
  Cores <- {c1, c2}, Verts <- {va1, va2}, Values <- 0 .. 2,
  DestSpd <- (va1 :> c1) @@ (va2 :> c2), MaxActive <- 2, InitEnableAtomic <- {0},
  mem <- vbMem, active_vertices_per_spm <- vbPerSpm, active_vertices_total <- vbTotal

ApiStep == program = "api" /\ Api!Next /\ UNCHANGED <<program, spmVars, mapVars, vbVars>>
SpmStep == program = "spm" /\ Spm!Next /\ UNCHANGED <<program, apiVars, mapVars, vbVars>>
MapStep == program = "map" /\ Map!Next /\ UNCHANGED <<program, apiVars, spmVars, vbVars>>
VbStep == program = "vb" /\ Vb!Next /\ UNCHANGED <<program, apiVars, spmVars, mapVars>>

Init ==
  /\ program \in {"api", "spm", "map", "vb"}
  /\ Api!Init /\ Spm!Init /\ Map!Init /\ Vb!Init
  \* the memory contents OMEGA_API and the vertex buffer start from, and the
  \* register values the address map starts from, matter only to their own
  \* behaviours
  /\ program # "api" => spm = [i \in 0 .. 1 |-> 0] /\ host = [a \in {A, B} |-> [i \in 0 .. 2 |-> 0]]
  /\ program # "map" => r1.start = 0 /\ r3.start = 0 /\ r3old.start = 0
                        /\ chunkSize = 1 /\ atomicOppType1 = "d"
  /\ program # "vb" => vbMem = [v \in {va1, va2} |-> 0]

Spec == Init /\ [][ApiStep \/ SpmStep \/ MapStep \/ VbStep]_allVars

\* OMEGA_API: the state keeps its type (OmegaApi).
ApiTypeOK == Api!TypeOK

\* OMEGA_API: every element reads the value last stored, across map, unmap
\* and the cap (OmegaApi).
NoLostStore == Api!NoLostStore

\* OMEGA_API: map exits only when the program did not unmap (OmegaApi).
NoSpuriousExit == Api!NoSpuriousExit

\* Scratchpad: the lines and the tag index keep their types (Scratchpad).
SpmTypeOK == Spm!TypeOK

\* Scratchpad: lookup finds exactly the line holding each address (Scratchpad).
TagIndexExact == Spm!TagIndexExact

\* Scratchpad: no NULL dereference and no panic (Scratchpad).
NoFault == Spm!NoFault

\* Address map: every mapped element sits at its rank on its scratchpad (AddressMap).
SetEntryIsRank == program = "map" => Map!SetEntryIsRank

\* Address map: every set index lies inside m_spm, slack included (AddressMap).
SetFits == program = "map" => Map!SetFits

\* Address map: no two addresses share a scratchpad line and offset (AddressMap).
NoAliasing == program = "map" => Map!NoAliasing
\* Address map: every request type makeRequest issues is accepted by the
\* callback of the table insertRequest files it in (AddressMap).
CallbacksAcceptIssuedTypes == program = "map" => Map!CallbacksAcceptIssuedTypes

\* Vertex buffer: the state keeps its type (VertexBuffer).
VbTypeOK == Vb!TypeOK

\* Vertex buffer: the assertion of addReadOnlyCachedData never fails (VertexBuffer).
StashKeyFresh == Vb!StashKeyFresh

\* Vertex buffer: a buffered load in a pass returns a value of that pass (VertexBuffer).
BufferedLoadsFromPass == Vb!BufferedLoadsFromPass
====
