------------------------------ MODULE CsrGraph ------------------------------
(***************************************************************************)
(* The graph loader of the reordering tool (src/graphReordering/pH/       *)
(* graph.cpp): read_csr reads an edge-list file (read_edge_list), drops   *)
(* the vertex ids no edge mentions and renumbers the others densely in    *)
(* order (filter), and builds the compressed sparse row arrays VI and EI  *)
(* (csr_convert); createReverseCSR builds the transposed graph, and       *)
(* write_edge_list writes a reordered graph back as an edge list.         *)
(*                                                                         *)
(* The file is the sequence of integers fscanf("%d") reads from it.  The  *)
(* globals `weighted` and `indegree` are set once by the tool's options.  *)
(* VI and EI are functions on 0-based indices as in the code; the edge    *)
(* vectors src, dst and weights are sequences.                            *)
(***************************************************************************)
EXTENDS Integers, SequencesExt

CONSTANTS
  Files,    \* [weighted: BOOLEAN, toks: Seq(Nat)]: the option and the file read
  Weights   \* values an uninitialised weight variable may hold

VARIABLES
  pc,         \* "start", "loaded" (read_csr returned), "written"
  weighted,   \* the global option
  indegree,   \* the global option
  file,       \* the integers of the input file
  G,          \* the graph read_csr fills
  G2,         \* the graph createReverseCSR fills, or NoGraph before
  nodeMap,    \* the new id of every vertex, passed to write_edge_list
  out         \* the lines write_edge_list wrote: [s, d, w]

vars == <<pc, weighted, indegree, file, G, G2, nodeMap, out>>

NoGraph == [numVertex |-> -1]

----------------------------------------------------------------------------
(* read_edge_list                                                          *)
(***************************************************************************)
\* One iteration per edge: stop when no source can be read; a failed read
\* of the destination or the weight leaves the variable as it was.
RECURSIVE ReadFrom(_, _, _, _, _)
ReadFrom(wtd, toks, dstVal, w, acc) ==
  IF toks = <<>> THEN acc
  ELSE LET srcVal == Head(toks)
           r1 == Tail(toks)
           d1 == IF r1 = <<>> THEN dstVal ELSE Head(r1)
           r2 == IF r1 = <<>> THEN r1 ELSE Tail(r1)
           w1 == IF wtd /\ r2 # <<>> THEN Head(r2) ELSE w
           r3 == IF wtd /\ r2 # <<>> THEN Tail(r2) ELSE r2
       IN  ReadFrom(wtd, r3, d1, w1,
             [src |-> Append(acc.src, srcVal), dst |-> Append(acc.dst, d1),
              wts |-> IF wtd THEN Append(acc.wts, w1) ELSE acc.wts,
              nv  |-> Max({acc.nv, srcVal, d1})])

\* The edge vectors and the returned vertex count (largest id + 1).
ReadEdgeList(wtd, toks, w0) ==
  LET r == ReadFrom(wtd, toks, 0, w0, [src |-> <<>>, dst |-> <<>>, wts |-> <<>>, nv |-> 0])
  IN  [r EXCEPT !.nv = @ + 1]

(* filter and get_map_key                                                  *)
(***************************************************************************)
\* get_map_key(s, d) is the string "s>d": distinct pairs give distinct keys.
GetMapKey(s, d) == <<s, d>>

\* exists[], vertexMap[] (the rank of an existing id), filtered_to_original,
\* the renumbered edges, and weights[key] assigned edge by edge, so the
\* last edge with a key sets its weight.
Filter(wtd, src, dst, wts) ==
  LET exists    == ToSet(src) \cup ToSet(dst)
      vertexMap == [v \in exists |-> Cardinality({u \in exists : u < v})]
      fsrc      == [i \in DOMAIN src |-> vertexMap[src[i]]]
      fdst      == [i \in DOMAIN dst |-> vertexMap[dst[i]]]
      key(i)    == GetMapKey(fsrc[i], fdst[i])
      lastWith(k) == CHOOSE i \in DOMAIN src :
                       key(i) = k /\ \A j \in DOMAIN src : j > i => key(j) # k
  IN  [src |-> fsrc, dst |-> fdst, n |-> Cardinality(exists),
       f2o |-> [k \in 0 .. Cardinality(exists) - 1 |->
                  CHOOSE v \in exists : vertexMap[v] = k],
       weights |-> IF wtd THEN [k \in {key(i) : i \in DOMAIN src} |-> wts[lastWith(k)]]
                  ELSE [k \in {} |-> 0]]

(* csr_convert                                                             *)
(***************************************************************************)
\* A plausible slip: the prefix sum adds the degree of vertex i, not i-1.
CsrConvertShifted(src, dst, n, ind) ==
  LET m == Len(src)
      head(i) == IF ind THEN dst[i] ELSE src[i]
      tail(i) == IF ind THEN src[i] ELSE dst[i]
      deg(v)  == Cardinality({i \in 1 .. m : head(i) = v})
      VI[v \in 0 .. n] == IF v = 0 THEN 0 ELSE VI[v - 1] + deg(v)
      pos(i)  == VI[head(i)] + Cardinality({j \in 1 .. i - 1 : head(j) = head(i)})
  IN  [VI |-> VI,
       EI |-> [p \in 0 .. m - 1 |->
                 IF \E i \in 1 .. m : pos(i) = p
                 THEN tail(CHOOSE i \in 1 .. m : pos(i) = p) ELSE 0]]

\* deg[] of every vertex (in-degree when indegree is set), VI as its prefix
\* sums, then every edge in input order into the next free slot of its
\* vertex: EI[VI[v] + deg[v]++] = the other end.  EI starts zeroed.
CsrConvert(src, dst, n, ind) ==
  LET m == Len(src)
      head(i) == IF ind THEN dst[i] ELSE src[i]
      tail(i) == IF ind THEN src[i] ELSE dst[i]
      deg(v)  == Cardinality({i \in 1 .. m : head(i) = v})
      VI[v \in 0 .. n] == IF v = 0 THEN 0 ELSE VI[v - 1] + deg(v - 1)
      pos(i)  == VI[head(i)] + Cardinality({j \in 1 .. i - 1 : head(j) = head(i)})
  IN  [VI |-> VI,
       EI |-> [p \in 0 .. m - 1 |->
                 IF \E i \in 1 .. m : pos(i) = p
                 THEN tail(CHOOSE i \in 1 .. m : pos(i) = p) ELSE 0]]

\* read_csr: the three steps, and numEdges = src.size().
ReadCsrGraph(wtd, ind, toks, w0) ==
  LET r == ReadEdgeList(wtd, toks, w0)
      f == Filter(wtd, r.src, r.dst, r.wts)
      c == CsrConvert(f.src, f.dst, f.n, ind)
  IN  [numVertex |-> f.n, numEdges |-> Len(r.src), VI |-> c.VI, EI |-> c.EI,
       f2o |-> f.f2o, weights |-> f.weights]

(* createReverseCSR and the slot loops of write_edge_list                  *)
(***************************************************************************)
\* The end of the slots of vertex i: the next VI entry, or numEdges for the
\* last vertex (the loops of createReverseCSR, printGraph, write_edge_list).
SlotEnd(g, i) == IF i = g.numVertex - 1 THEN g.numEdges ELSE g.VI[i + 1]

\* The vertex whose slots hold slot j.
Owner(g, j) ==
  IF \E i \in 0 .. g.numVertex - 1 : g.VI[i] <= j /\ j < SlotEnd(g, i)
  THEN CHOOSE i \in 0 .. g.numVertex - 1 : g.VI[i] <= j /\ j < SlotEnd(g, i)
  ELSE -1

\* A plausible slip: every edge to t written at VI[t], without tempId[t].
CreateReverseCSRNoTempId(g) ==
  LET n == g.numVertex
      m == g.numEdges
      cnt(v) == Cardinality({j \in 0 .. m - 1 : g.EI[j] < n - 1 /\ g.EI[j] + 1 = v})
      VI2[v \in 0 .. n - 1] == IF v = 0 THEN cnt(0) ELSE VI2[v - 1] + cnt(v)
      pos(j) == VI2[g.EI[j]]
  IN  [g EXCEPT !.VI = VI2,
                !.EI = [p \in 0 .. m - 1 |->
                          IF \E j \in 0 .. m - 1 : pos(j) = p
                          THEN Owner(g, CHOOSE j \in 0 .. m - 1 : pos(j) = p) ELSE 0]]

\* G2 copies the sizes, weights and filtered_to_original; VI2[t+1] counts
\* the edges to t (for t below the last vertex) and is summed; then the
\* slots of G1 in order put i into EI2[VI2[t] + tempId[t]++].  VI2 has only
\* numVertex entries, and EI2 is not zeroed: every slot gets written.
CreateReverseCSR(g) ==
  LET n == g.numVertex
      m == g.numEdges
      cnt(v) == Cardinality({j \in 0 .. m - 1 : g.EI[j] < n - 1 /\ g.EI[j] + 1 = v})
      VI2[v \in 0 .. n - 1] == IF v = 0 THEN cnt(0) ELSE VI2[v - 1] + cnt(v)
      pos(j) == VI2[g.EI[j]] + Cardinality({k \in 0 .. j - 1 : g.EI[k] = g.EI[j]})
  IN  [g EXCEPT !.VI = VI2,
                !.EI = [p \in 0 .. m - 1 |->
                          IF \E j \in 0 .. m - 1 : pos(j) = p
                          THEN Owner(g, CHOOSE j \in 0 .. m - 1 : pos(j) = p) ELSE 0]]
\* A plausible slip: the weight looked up under nodeMap, not map_to_node.
EdgeLinesNodeMap(g, nm) ==
  LET line(j) == LET i == Owner(g, j)
                     s == IF indegree THEN g.EI[j] ELSE i
                     d == IF indegree THEN i ELSE g.EI[j]
                     key == GetMapKey(nm[s], nm[d])
                 IN  [s |-> s, d |-> d,
                      w |-> IF weighted /\ key \in DOMAIN g.weights THEN g.weights[key] ELSE 0]
  IN  [j \in 1 .. g.numEdges |-> line(j - 1)]

\* write_edge_list(G, nodeMap): map_to_node inverts nodeMap; every slot, in
\* order, gives the line "s d" (and "w" when weighted), s and d being the
\* vertex and its neighbour in G's ids, and w the weight stored under the
\* key of their ids before reordering.  weights is a local copy, so the
\* entry operator[] inserts for a missing key (weight 0) is not kept.
EdgeLines(g, nm) ==
  LET map_to_node == [k \in 0 .. g.numVertex - 1 |-> CHOOSE i \in DOMAIN nm : nm[i] = k]
      line(j) == LET i == Owner(g, j)
                     s == IF indegree THEN g.EI[j] ELSE i
                     d == IF indegree THEN i ELSE g.EI[j]
                     key == GetMapKey(map_to_node[s], map_to_node[d])
                 IN  [s |-> s, d |-> d,
                      w |-> IF weighted /\ key \in DOMAIN g.weights THEN g.weights[key] ELSE 0]
  IN  [j \in 1 .. g.numEdges |-> line(j - 1)]

\* The graph a reordering hands to write_edge_list: g's edges with every
\* vertex renamed by nm, converted again; sizes, weights and
\* filtered_to_original are g's.  (The reorderings are not in the
\* repository; this is the contract write_edge_list reads G and nodeMap by.)
Reordered(g, nm) ==
  LET e(j) == <<nm[Owner(g, j - 1)], nm[g.EI[j - 1]]>>   \* <<vertex, neighbour>>
      src  == [j \in 1 .. g.numEdges |-> IF indegree THEN e(j)[2] ELSE e(j)[1]]
      dst  == [j \in 1 .. g.numEdges |-> IF indegree THEN e(j)[1] ELSE e(j)[2]]
      c    == CsrConvert(src, dst, g.numVertex, indegree)
  IN  [g EXCEPT !.VI = c.VI, !.EI = c.EI]

----------------------------------------------------------------------------
Init ==
  /\ \E f \in Files : weighted = f.weighted /\ file = f.toks
  /\ indegree \in BOOLEAN
  /\ pc = "start"
  /\ G = NoGraph /\ G2 = NoGraph
  /\ nodeMap = <<>> /\ out = <<>>

\* read_csr on the input file.  The weight variable of read_edge_list is
\* uninitialised until a weight is read.
ReadCsr ==
  /\ pc = "start"
  /\ \E w0 \in Weights : G' = ReadCsrGraph(weighted, indegree, file, w0)
  /\ pc' = "loaded"
  /\ UNCHANGED <<weighted, indegree, file, G2, nodeMap, out>>

\* createReverseCSR(G, G2), before or after the graph is written.
CreateReverse ==
  /\ pc # "start" /\ G2 = NoGraph
  /\ G2' = CreateReverseCSR(G)
  /\ UNCHANGED <<pc, weighted, indegree, file, G, nodeMap, out>>

\* write_edge_list of G reordered by some permutation nodeMap.
WriteEdgeList ==
  /\ pc = "loaded"
  /\ \E nm \in Bijection(0 .. G.numVertex - 1, 0 .. G.numVertex - 1) :
        /\ nodeMap' = nm
        /\ out' = EdgeLines(Reordered(G, nm), nm)
  /\ pc' = "written"
  /\ UNCHANGED <<weighted, indegree, file, G, G2>>

Next == ReadCsr \/ CreateReverse \/ WriteEdgeList

Spec == Init /\ [][Next]_vars

----------------------------------------------------------------------------
\* The edges of a well-formed file, in the order they appear.
FileEdges ==
  LET k == IF weighted THEN 3 ELSE 2
  IN  [i \in 1 .. Len(file) \div k |->
         [s |-> file[k * (i - 1) + 1], d |-> file[k * (i - 1) + 2],
          w |-> IF weighted THEN file[k * i] ELSE 0]]

\* The edges a CSR graph holds, as <<source, destination>>, slot by slot.
CsrEdges(g) ==
  [j \in 1 .. g.numEdges |->
     LET i == Owner(g, j - 1)
     IN  IF indegree THEN <<g.EI[j - 1], i>> ELSE <<i, g.EI[j - 1]>>]

\* The id in the file of a filtered id.
Orig(v) == IF v \in DOMAIN G.f2o THEN G.f2o[v] ELSE -1

\* read_csr loses, adds and mislabels no edge: filter renumbers the ids the
\* file uses densely and in order, and the CSR arrays csr_convert builds,
\* read slot by slot through VI, hold exactly the file's edges (as a
\* multiset, duplicates and self-loops included), in either orientation.
CsrMatchesFile ==
  pc # "start" =>
    /\ \A a, b \in DOMAIN G.f2o : a < b => G.f2o[a] < G.f2o[b]
    /\ ToBag([j \in 1 .. G.numEdges |-> <<Orig(CsrEdges(G)[j][1]), Orig(CsrEdges(G)[j][2])>>])
         = ToBag([i \in DOMAIN FileEdges |-> <<FileEdges[i].s, FileEdges[i].d>>])

\* createReverseCSR yields the transpose: read with the same VI/EI
\* convention (the last vertex ending at numEdges), G2 holds every edge of
\* G reversed, as many times as G holds it.
ReverseIsTranspose ==
  G2 # NoGraph =>
    ToBag(CsrEdges(G2))
      = ToBag([j \in 1 .. G.numEdges |-> <<CsrEdges(G)[j][2], CsrEdges(G)[j][1]>>])

\* write_edge_list writes back the file it was given: mapped through
\* nodeMap and filtered_to_original to the file's ids, the lines it writes
\* are the file's edges, each with the weight the file gives it.
WrittenMatchesFile ==
  pc = "written" =>
    LET old(v)  == CHOOSE i \in DOMAIN nodeMap : nodeMap[i] = v
        back(l) == [s |-> Orig(old(l.s)), d |-> Orig(old(l.d)), w |-> l.w]
    IN  ToBag([j \in DOMAIN out |-> back(out[j])]) = ToBag(FileEdges)
====
