---------------------------- MODULE MC_AtomicEngine ----------------------------
(***************************************************************************)
(* One sparse GraphMat Bellman-Ford pass: two scratchpads, one vertex on  *)
(* each, two distances sent to each vertex (the smaller one second to     *)
(* vertex 0, first to vertex 1), 3-bit words.                             *)
(***************************************************************************)
EXTENDS AtomicEngine

CONSTANTS s1, s2

Upd(d, x, c) == [dst |-> d, src |-> x, cmp |-> c, add |-> 0]

MCSpds == {s1, s2}
MCDestSpd == (0 :> s1) @@ (1 :> s2)
MCUpdateRelax == (1 :> Upd(0, 2, 0)) @@ (2 :> Upd(0, 1, 0)) @@ (3 :> Upd(1, 3, 0)) @@ (4 :> Upd(1, 0, 0))
====
