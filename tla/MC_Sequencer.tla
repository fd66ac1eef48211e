---------------------------- MODULE MC_Sequencer ----------------------------
(***************************************************************************)
(* Sequencer instantiated for TLC: one or two cores, two ordinary lines,   *)
(* one range-3 element, three PISC operations whose first two edge slots  *)
(* share a line of the sparse active list, so that two active-list stores  *)
(* alias and one is parked in retryActiveVertexList.                      *)
(***************************************************************************)
EXTENDS Sequencer

CONSTANTS l1, l2, v1, c1, c2

MCLines == {l1, l2}
MCV3 == {v1}
MCOps == 1 .. 3
\* Edge indices 1 and 2 lie in line l1, edge index 3 in line l2.
MCEdgeLineOf == (1 :> l1) @@ (2 :> l1) @@ (3 :> l2)
MCOneCore == {c1}
MCTwoCores == {c1, c2}
=============================================================================
