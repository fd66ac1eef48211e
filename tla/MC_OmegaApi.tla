----------------------------- MODULE MC_OmegaApi -----------------------------
(***************************************************************************)
(* Two arrays and a scratchpad capacity of two elements: one array fits,  *)
(* the other is one element too long, so map caps it and its last         *)
(* element stays in host memory.  One-bit element values.                  *)
(***************************************************************************)
EXTENDS OmegaApi, TLC

CONSTANTS A, B

MCArrays == {A, B}
MCArrayLen == (A :> 1) @@ (B :> 3)

\* The same program with an empty first array.
MCArrayLenEmpty == (A :> 0) @@ (B :> 3)
====
