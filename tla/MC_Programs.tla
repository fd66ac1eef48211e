------------------------ MODULE MC_Programs --------------------------------
(***************************************************************************)
(* The benchmark loops, one per behaviour: the GraphIt cc push loop     *)
(* (opcode g, atomic min, hardware deduplication on), two passes with the *)
(* mappedNext reset between them (OmegaPass); the whole bfs push loop     *)
(* (opcode j, CAS32 of the parent from -1, deduplication off, BfsPush);   *)
(* the sssp pull loop (plain loads and stores of SP, SsspPull); and two   *)
(* dense passes side by side on their own copies of the scratchpad lines, *)
(* a GraphIt int-sum pass (opcode d, 2-bit words, the second update to    *)
(* vertex 0 wraps) and a GraphMat Bellman-Ford pass (opcode c, 3-bit      *)
(* words, two distances to each vertex); and two GraphIt float passes,  *)
(* a sparse float min with deduplication (opcode h) beside a dense       *)
(* double sum (opcode f); the graph tool's read_csr, createReverseCSR   *)
(* and write_edge_list (CsrGraph); and the GraphIt scanner (Scanner) on   *)
(* short programs.  Each program has its own                           *)
(* variables, and each must meet its own properties.                      *)
(***************************************************************************)
EXTENDS Integers, Sequences, TLC

CONSTANTS s1, s2

VARIABLES
  program,                                   \* "cc", "bfs", "sssp", "dense", "float"
  ccBlk, ccPktData, ccPerSpm, ccTotal, ccPass, ccPhase, ccCleared, \* cc
  bfsBlk, bfsPktData, bfsPerSpm, bfsTotal, mappedCount, memParent,  \* bfs
  frontier, nextEdge, inflight, cpuOut, bfsPhase,
  SP, ssspFrontier, ssspNext, pos, relaxing, rounds, ssspState,  \* sssp
  negCycle,
  sumBlk, sumPktData, sumPerSpm, sumTotal,          \* dense: the sum pass
  relaxBlk, relaxPktData, relaxPerSpm, relaxTotal,  \* and the Bellman-Ford pass
  fminBlk, fminPktData, fminPerSpm, fminTotal,      \* float: the min pass
  fsumBlk, fsumPktData, fsumPerSpm, fsumTotal,      \* and the double-sum pass
  csrPc, csrWeighted, csrIndegree, csrFile, csrG, csrG2, csrNodeMap, csrOut, \* csr
  input, p, line, col, sstate, tokens, errors, done  \* scan

ccVars == <<ccBlk, ccPktData, ccPerSpm, ccTotal, ccPass, ccPhase, ccCleared>>
bfsVars == <<bfsBlk, bfsPktData, bfsPerSpm, bfsTotal, mappedCount, memParent,
             frontier, nextEdge, inflight, cpuOut, bfsPhase>>
ssspVars == <<SP, ssspFrontier, ssspNext, pos, relaxing, rounds, ssspState, negCycle>>
sumVars == <<sumBlk, sumPktData, sumPerSpm, sumTotal>>
relaxVars == <<relaxBlk, relaxPktData, relaxPerSpm, relaxTotal>>
denseVars == <<sumVars, relaxVars>>
fminVars == <<fminBlk, fminPktData, fminPerSpm, fminTotal>>
fsumVars == <<fsumBlk, fsumPktData, fsumPerSpm, fsumTotal>>
floatVars == <<fminVars, fsumVars>>
csrVars == <<csrPc, csrWeighted, csrIndegree, csrFile, csrG, csrG2, csrNodeMap, csrOut>>
scanVars == <<input, p, line, col, sstate, tokens, errors, done>>
allVars == <<program, ccVars, bfsVars, ssspVars, denseVars, floatVars, csrVars, scanVars>>

Upd(d, x, c) == [dst |-> d, src |-> x, cmp |-> c, add |-> 0]

\* cc push: IDs[dst] = min(IDs[dst], IDs[src]).  The first pass gives
\* vertex 0 two labels (0 and -1) and vertex 1 one (0); the second gives
\* each a lower one (-2 and -1), so both may enter the frontier again.
MCPassSlots == <<{1, 2, 3}, {4, 5}>>
MCUpdateMin == (1 :> Upd(0, 0, 0)) @@ (2 :> Upd(0, 3, 0)) @@ (3 :> Upd(1, 0, 0))
            @@ (4 :> Upd(0, 2, 0)) @@ (5 :> Upd(1, 3, 0))

CcPasses == INSTANCE OmegaPass WITH
  Vertices <- {0, 1}, Spds <- {s1, s2}, DestSpd <- (0 :> s1) @@ (1 :> s2),
  PassSlots <- MCPassSlots, Slots <- 1 .. 5, Update <- MCUpdateMin, Opp <- "g",
  IsSparse <- TRUE, DedupEnabled <- TRUE, IterCount <- 0, W <- 2, InitValues <- 0 .. 3,
  blk <- ccBlk, pktData <- ccPktData,
  active_vertices_per_spm <- ccPerSpm, active_vertices_total <- ccTotal,
  pass <- ccPass, phase <- ccPhase, cleared <- ccCleared

\* bfs: seven vertices, 3-bit words (-1 is 7).  Levels 0: {0}, 1: {1, 2},
\* 2: {3, 4}, 3: {5}; 3 and 4 are each reached from 1 and from 2, 1 again
\* from 2, 0 and 2 again from level 2, 5 has no out-edge (the last pass
\* returns at outDegrees == 0), and 6 is unreachable.  omegaMap either
\* fits all seven vertices (the _allInSPM variant) or caps the mapping at
\* two, so that 2 to 6 are claimed by the threads' compare_and_swap.
MCAdj == (0 :> <<1, 2>>) @@ (1 :> <<3, 4>>) @@ (2 :> <<4, 3, 1>>) @@ (3 :> <<0>>)
      @@ (4 :> <<2, 5>>) @@ (5 :> << >>) @@ (6 :> <<4>>)
MCBfsSlots == UNION {{<<s, j>> : j \in 1 .. Len(MCAdj[s])} : s \in 0 .. 6}

Bfs == INSTANCE BfsPush WITH
  Vertices <- 0 .. 6, Spds <- {s1, s2}, DestSpd <- [v \in 0 .. 6 |-> IF v < 4 THEN s1 ELSE s2],
  Slots <- MCBfsSlots, Adj <- MCAdj, MappedCounts <- {2, 7},
  Update <- [e \in MCBfsSlots |-> Upd(MCAdj[e[1]][e[2]], e[1], 7)],
  Opp <- "j", IsSparse <- TRUE, DedupEnabled <- FALSE, IterCount <- 0, W <- 3,
  InitValues <- {0, 7},
  blk <- bfsBlk, pktData <- bfsPktData,
  active_vertices_per_spm <- bfsPerSpm, active_vertices_total <- bfsTotal,
  phase <- bfsPhase

\* sssp: five vertices and weighted in-edges, one of them negative, no
\* negative cycle.  Distances 0, 1, 2, 1, 2; the shortest path to 4 is
\* 0-1-2-3-4, four edges, so the last improvement comes in pass four and
\* the loop leaves at the rounds = n check after a fifth pass.  3 improves
\* in pass two while 4 pulls from it, and twice more later.  IntMax stands
\* for 2147483647: every path here is shorter.
MCInNeigh == (0 :> << >>) @@ (1 :> <<<<0, 1>>>>) @@ (2 :> <<<<1, 1>>, <<4, 5>>>>)
          @@ (3 :> <<<<0, 3>>, <<1, 1>>, <<2, -1>>>>) @@ (4 :> <<<<3, 1>>>>)

Sssp == INSTANCE SsspPull WITH
  N <- 5, InNeigh <- MCInNeigh, IntMax <- 15,
  frontier <- ssspFrontier, next <- ssspNext, state <- ssspState

\* A sum; the second update to vertex 0 wraps.
MCUpdateSum == (1 :> Upd(0, 1, 0)) @@ (2 :> Upd(0, 3, 0)) @@ (3 :> Upd(1, 2, 0)) @@ (4 :> Upd(1, 1, 0))

\* GraphMat Bellman-Ford messages: two distances to each vertex.
MCUpdateRelax == (1 :> Upd(0, 2, 0)) @@ (2 :> Upd(0, 1, 0)) @@ (3 :> Upd(1, 3, 0)) @@ (4 :> Upd(1, 0, 0))

SumPass == INSTANCE AtomicEngine WITH
  Vertices <- {0, 1}, Spds <- {s1, s2}, DestSpd <- (0 :> s1) @@ (1 :> s2),
  Slots <- 1 .. 4, Update <- MCUpdateSum, Opp <- "d", IsSparse <- FALSE,
  DedupEnabled <- FALSE, IterCount <- 0, W <- 2, InitValues <- 0 .. 3,
  blk <- sumBlk, pktData <- sumPktData,
  active_vertices_per_spm <- sumPerSpm, active_vertices_total <- sumTotal

RelaxPass == INSTANCE AtomicEngine WITH
  Vertices <- {0, 1}, Spds <- {s1, s2}, DestSpd <- (0 :> s1) @@ (1 :> s2),
  Slots <- 1 .. 4, Update <- MCUpdateRelax, Opp <- "c", IsSparse <- FALSE,
  DedupEnabled <- FALSE, IterCount <- 0, W <- 3, InitValues <- 0 .. 7,
  blk <- relaxBlk, pktData <- relaxPktData,
  active_vertices_per_spm <- relaxPerSpm, active_vertices_total <- relaxTotal

\* Float min: vertex 0 receives 2, 1 and 2 again, vertex 1 receives 3; a
\* line starts at 2 or 5, so an operand may equal the stored value.
MCUpdateFMin == (1 :> Upd(0, 2, 0)) @@ (2 :> Upd(0, 1, 0)) @@ (3 :> Upd(0, 2, 0)) @@ (4 :> Upd(1, 3, 0))

\* Double sum: two operands to each vertex.
MCUpdateFSum == (1 :> Upd(0, 1, 0)) @@ (2 :> Upd(0, 2, 0)) @@ (3 :> Upd(1, 3, 0)) @@ (4 :> Upd(1, 1, 0))

FMinPass == INSTANCE AtomicEngine WITH
  Vertices <- {0, 1}, Spds <- {s1, s2}, DestSpd <- (0 :> s1) @@ (1 :> s2),
  Slots <- 1 .. 4, Update <- MCUpdateFMin, Opp <- "h", IsSparse <- TRUE,
  DedupEnabled <- TRUE, IterCount <- 1, W <- 3, InitValues <- {2, 5},
  blk <- fminBlk, pktData <- fminPktData,
  active_vertices_per_spm <- fminPerSpm, active_vertices_total <- fminTotal

FSumPass == INSTANCE AtomicEngine WITH
  Vertices <- {0, 1}, Spds <- {s1, s2}, DestSpd <- (0 :> s1) @@ (1 :> s2),
  Slots <- 1 .. 4, Update <- MCUpdateFSum, Opp <- "f", IsSparse <- FALSE,
  DedupEnabled <- FALSE, IterCount <- 0, W <- 3, InitValues <- {0, 4},
  blk <- fsumBlk, pktData <- fsumPktData,
  active_vertices_per_spm <- fsumPerSpm, active_vertices_total <- fsumTotal

\* The graph tool on the files of MC_CsrGraph.
CsrFiles == INSTANCE MC_CsrGraph WITH Files <- {}, Weights <- {},
  pc <- csrPc, weighted <- csrWeighted, indegree <- csrIndegree, file <- csrFile,
  G <- csrG, G2 <- csrG2, nodeMap <- csrNodeMap, out <- csrOut

Csr == INSTANCE CsrGraph WITH Files <- CsrFiles!MCFiles, Weights <- CsrFiles!MCWeights,
  pc <- csrPc, weighted <- csrWeighted, indegree <- csrIndegree, file <- csrFile,
  G <- csrG, G2 <- csrG2, nodeMap <- csrNodeMap, out <- csrOut

\* The scanner on every text of up to three characters over a small
\* alphabet (a word, a number, the pair and bang characters, '%', braces,
\* a quote, blanks and a symbol no branch takes), and on longer texts that
\* reach the reduce words, comments, tests, escapes and exponents.
ScanAlphabet == {"m", "1", ".", "+", "=", "!", "%", "{", "}", "\"", "\n", " ", "@"}
MCScanInputs ==
  UNION {[1 .. k -> ScanAlphabet] : k \in 0 .. 3}
  \cup {<<"m", "i", "n", "=", "x">>, <<"a", "_", "1", " ", "#">>,
        <<"%", "{", "a", "%", "}">>, <<"%", "{", "a", "%", "}", "\n">>,
        <<"%", "{", "\n", "%", "\n", "x">>, <<"%", "!", "a", "\n", "b">>,
        <<"%", "!", "x", "%", "}">>, <<"%", "{", "!", "x">>,
        <<"1", ".", "5", "e", "+", "3">>, <<"1", ".", "e">>, <<"1", "e", "-", "x">>,
        <<"2", "E", "7", "@">>, <<"\"", "a", "\\", "q", "b", "\"">>,
        <<"\"", "\\", "n", "\n", "\"">>, <<"\r", "\n", "(", "\t", "VT", "\f">>,
        <<"-", ">", ".", "*", "<", "=">>, <<">", "=", "=", "=", "-", "x">>,
        <<".", "/", "<", ">", "!", "=">>, <<"0", "1", "0", "+", "=", "9">>}

Scan == INSTANCE Scanner WITH Inputs <- MCScanInputs, Keywords <- <<"#">> :> "NUMBER_SIGN"

\* One run checks the programs as two separate behaviours: each
\* behaviour runs one of them from its initial state.
CcStep == program = "cc" /\ CcPasses!PassNext
          /\ UNCHANGED <<program, csrVars, scanVars, bfsVars, ssspVars, denseVars, floatVars>>
BfsStep == program = "bfs" /\ Bfs!BfsNext
           /\ UNCHANGED <<program, csrVars, scanVars, ccVars, ssspVars, denseVars, floatVars>>
SsspStep == program = "sssp" /\ Sssp!SsspNext
            /\ UNCHANGED <<program, csrVars, scanVars, ccVars, bfsVars, denseVars, floatVars>>
SumStep == program = "dense" /\ SumPass!Next
           /\ UNCHANGED <<program, csrVars, scanVars, ccVars, bfsVars, ssspVars, relaxVars, floatVars>>
RelaxStep == program = "dense" /\ RelaxPass!Next
             /\ UNCHANGED <<program, csrVars, scanVars, ccVars, bfsVars, ssspVars, sumVars, floatVars>>
FMinStep == program = "float" /\ FMinPass!Next
            /\ UNCHANGED <<program, csrVars, scanVars, ccVars, bfsVars, ssspVars, denseVars, fsumVars>>
FSumStep == program = "float" /\ FSumPass!Next
            /\ UNCHANGED <<program, csrVars, scanVars, ccVars, bfsVars, ssspVars, denseVars, fminVars>>
CsrStep == program = "csr" /\ Csr!Next
           /\ UNCHANGED <<program, ccVars, bfsVars, ssspVars, denseVars, floatVars, scanVars>>
ScanStep == program = "scan" /\ Scan!ScanNext
            /\ UNCHANGED <<program, ccVars, bfsVars, ssspVars, denseVars, floatVars, csrVars>>

Init ==
  /\ program \in {"cc", "bfs", "sssp", "dense", "float", "csr", "scan"}
  \* the choices of a program's initial state matter only to its own
  \* behaviours: the other programs' variables start from one state each
  /\ CcPasses!PassInit /\ (program # "cc" => \A v \in {0, 1} : ccBlk[v].f0 = 0)
  /\ Bfs!BfsInit /\ (program # "bfs" => mappedCount = 7)
  /\ Sssp!SsspInit
  /\ SumPass!Init /\ RelaxPass!Init
  /\ program # "dense" => \A v \in {0, 1} : sumBlk[v].f0 = 0 /\ relaxBlk[v].f0 = 0
  /\ FMinPass!Init /\ FSumPass!Init
  /\ program # "float" => \A v \in {0, 1} : fminBlk[v].f0 = 2 /\ fsumBlk[v].f0 = 0
  /\ IF program = "csr" THEN Csr!Init
     ELSE /\ csrPc = "start" /\ csrWeighted = FALSE /\ csrIndegree = FALSE /\ csrFile = <<0, 0>>
          /\ csrG = Csr!NoGraph /\ csrG2 = Csr!NoGraph /\ csrNodeMap = << >> /\ csrOut = << >>
  /\ IF program = "scan" THEN Scan!ScanInit
     ELSE /\ input = << >> /\ p = 1 /\ line = 1 /\ col = 1 /\ sstate = "INITIAL"
          /\ tokens = << >> /\ errors = << >> /\ done = FALSE

\* Each loop keeps the weak fairness its own specification has.
Spec ==
  /\ Init
  /\ [][CcStep \/ BfsStep \/ SsspStep \/ SumStep \/ RelaxStep \/ FMinStep \/ FSumStep
      \/ CsrStep \/ ScanStep]_allVars
  /\ WF_ccVars(program = "cc" /\ \E s \in 1 .. 5 : CcPasses!PushEdge(s))
  /\ WF_ccVars(program = "cc" /\ CcPasses!EndPass)
  /\ WF_ccVars(program = "cc" /\ \E v \in {0, 1} : CcPasses!ResetMappedNext(v))
  /\ WF_ccVars(program = "cc" /\ CcPasses!StartPass)
  /\ WF_allVars(BfsStep)
  /\ WF_allVars(SsspStep)
  /\ WF_allVars(SumStep) /\ WF_allVars(RelaxStep)
  /\ WF_allVars(FMinStep) /\ WF_allVars(FSumStep)
  /\ WF_allVars(ScanStep)

BfsParentsFormBfsTree == Bfs!ParentsFormBfsTree

\* bfs: no vertex is claimed twice, by the SPM or by a thread (BfsPush).
BfsClaimedOnce == Bfs!ClaimedOnce

\* bfs: the loop ends with exactly the reachable vertices claimed (BfsPush).
BfsComplete == program = "bfs" => Bfs!BfsComplete

\* sssp: no step raises an entry of SP (SsspPull).
SsspDistancesNeverRise == Sssp!SsspDistancesNeverRise

\* sssp: the loop ends with the shortest distances in SP (SsspPull).
SsspDistancesExact == program = "sssp" => Sssp!SsspDistancesExact

\* sssp: "negative cycle" is printed only for a graph with one (SsspPull).
SsspNegativeCycleReportedOnlyIfOne == Sssp!NegativeCycleReportedOnlyIfOne

\* The graph tool's CSR holds the file's edges, the reverse CSR is its
\* transpose, and the edge list written maps back to the file (CsrGraph).
CsrMatchesFile == Csr!CsrMatchesFile
ReverseIsTranspose == Csr!ReverseIsTranspose
WrittenMatchesFile == Csr!WrittenMatchesFile

\* Every iteration of the scanner's lex loop consumes a character, so
\* lex returns on every text (Scanner).
ScanProgress == Scan!ScanProgress

\* The dense passes' engine state keeps its type (AtomicEngine).
DensePassesTypeOK == SumPass!TypeOK /\ RelaxPass!TypeOK /\ FMinPass!TypeOK /\ FSumPass!TypeOK

\* The dense int-sum pass implements AtomicSpec: every update adds its
\* operand modulo 2^32 atomically, and the frontier atomicExecution marks
\* in the valid bytes is the set of destinations of the pass.  As for cc,
\* the initial condition and the liveness bound only the dense runs.
DenseSumImplementsAtomicSpec ==
  /\ program = "dense" => SumPass!Abstract!Init
  /\ [][SumPass!Abstract!Next]_(SumPass!Abstract!vars)
  /\ program = "dense" => <>[]SumPass!Abstract!Done

\* The two float passes implement AtomicSpec.  The sparse float min
\* (opcode h) with deduplication on counts an active vertex for every
\* strict improvement, and the returned packets put each improved vertex
\* into the active list once: atomicExecution sets the odd-pass valid byte
\* (iterCount 1) on the first success and answers UINT_MAX for the later
\* ones.  The dense double sum (opcode f) adds every operand exactly and
\* marks every destination in the valid bytes.
FloatPassesImplementAtomicSpec ==
  /\ program = "float" => FMinPass!Abstract!Init /\ FSumPass!Abstract!Init
  /\ [][FMinPass!Abstract!Next]_(FMinPass!Abstract!vars)
  /\ [][FSumPass!Abstract!Next]_(FSumPass!Abstract!vars)
  /\ program = "float" => <>[](FMinPass!Abstract!Done /\ FSumPass!Abstract!Done)

\* After a dense Bellman-Ford pass every destination holds the smallest
\* message it received: the first message of the pass (valid byte unset)
\* replaces the value and sets the byte, and later ones are reduced by min.
DenseRelaxMessagesReduced == RelaxPass!MessagesReduced
====
