---------------------------- MODULE MC_CsrGraph ----------------------------
(***************************************************************************)
(* Well-formed edge-list files of one to three edges over the ids 0, 2    *)
(* and 3 (id 1 unused, so filter renumbers), with weights 1 and 2: self-  *)
(* loops, shared endpoints, vertices with no outgoing or no incoming edge *)
(* and three-vertex graphs, whose reorderings include 3-cycles.  The empty *)
(* file is left out: write_edge_list then reads VI out of bounds.          *)
(***************************************************************************)
EXTENDS CsrGraph

MCIds == {0, 2, 3}
MCWeights == {1, 2}
MCMaxEdges == 3

\* The integers of a file of the edges es.
Toks(es, wtd) == FlattenSeq([i \in DOMAIN es |->
                   IF wtd THEN <<es[i].s, es[i].d, es[i].w>> ELSE <<es[i].s, es[i].d>>])

EdgeLists(wtd) ==
  UNION {[1 .. k -> [s: MCIds, d: MCIds, w: IF wtd THEN MCWeights ELSE {0}]]
           : k \in 1 .. MCMaxEdges}

\* No two edges of a weighted file join the same pair of vertices.
Simple(es) == \A i, j \in DOMAIN es : i # j => <<es[i].s, es[i].d>> # <<es[j].s, es[j].d>>

MCFiles ==
  {[weighted |-> FALSE, toks |-> Toks(es, FALSE)] : es \in EdgeLists(FALSE)}
  \cup {[weighted |-> TRUE, toks |-> Toks(es, TRUE)] : es \in {x \in EdgeLists(TRUE) : Simple(x)}}

\* Weighted files of two edges that join the same pair of vertices with
\* different weights, as a graph file with a repeated line may have.
MCFilesRepeated ==
  {[weighted |-> TRUE, toks |-> Toks(<<[s |-> a, d |-> b, w |-> 1], [s |-> a, d |-> b, w |-> 2]>>, TRUE)]
     : a, b \in MCIds}
====
