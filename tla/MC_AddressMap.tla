----------------------------- MODULE MC_AddressMap -----------------------------
(***************************************************************************)
(* Two cores with three sets each plus a slack of two, chunk sizes 1 and  *)
(* 2: a chunk of 2 pushes the last mapped elements into the slack.  A     *)
(* vertex count of 7 exceeds the six lines and is capped.  Addresses 0-11 *)
(* cover two start addresses with strides 1 and 2.                         *)
(***************************************************************************)
EXTENDS AddressMap

MCVAddrs == 0 .. 11
MCStarts == {0, 3}
MCStrides == {1, 2}
MCChunks == {1, 2}
MCNumVertices == {0, 4, 7}
====
