---------------------------- MODULE MC_VertexBuffer ----------------------------
(***************************************************************************)
(* Two cores, each holding one of two vertices, three values, so that a   *)
(* PISC minimum can lower a vertex twice within a pass.                    *)
(***************************************************************************)
EXTENDS VertexBuffer

CONSTANTS c1, c2, va1, va2

MCCores == {c1, c2}
MCVerts == {va1, va2}
MCValues == 0 .. 2
MCDestSpd == (va1 :> c1) @@ (va2 :> c2)
====
