----------------------------- MODULE MC_Scratchpad -----------------------------
(***************************************************************************)
(* Two sets of two ways.  Three addresses hash to set 0, so a third       *)
(* allocation there needs an eviction; one address hashes to set 1.  One  *)
(* locking context.  Three evictions per set fit under the counter bound. *)
(***************************************************************************)
EXTENDS Scratchpad, TLC

CONSTANTS x1, x2, x3, x4

MCAddrs == {x1, x2, x3, x4}
MCSets == {0, 1}
MCSetOf == (x1 :> 0) @@ (x2 :> 0) @@ (x3 :> 0) @@ (x4 :> 1)
MCContexts == {0}

\* The permissions the protocol sets in the pass run: never NotPresent.
MCPerms == {"Read_Only", "Busy"}

\* The same protocol when it may leave a line NotPresent.
MCPermsNotPresent == {"Read_Only", "NotPresent"}
====
