----------------------------- MODULE AtomicSpec -----------------------------
(***************************************************************************)
(* What a pass of PISC updates promises (spec.md 4.3): each update        *)
(* combines its operand into the destination vertex, updates apply one at *)
(* a time in some order, and the next frontier receives the destination   *)
(* of every update that succeeded, once per success, or once per vertex   *)
(* when deduplication is on.  The active-vertex tally counts every        *)
(* success.  Values are W-bit words as in AtomicEngine, or numbers for   *)
(* the float opcodes.                                                      *)
(***************************************************************************)
EXTENDS Integers, Bags, BagsExt

CONSTANTS Vertices, Slots, Update, OppClass, Dedup, W, InitValues

ASSUME OppClass \in {"sum", "min", "cas", "fsum", "fmin"} /\ Dedup \in BOOLEAN

VARIABLES value, frontier, pending, activeCount

vars == <<value, frontier, pending, activeCount>>

SignedWord(x) == IF x >= 2^(W-1) THEN x - 2^W ELSE x

\* The combine and success columns of the opcode table.
NewValue(old, u) ==
  CASE OppClass = "sum" -> (old + u.src) % 2^W
    [] OppClass = "min" -> IF SignedWord(u.src) < SignedWord(old) THEN u.src ELSE old
    [] OppClass = "cas" -> IF old = u.cmp THEN u.src ELSE old
    [] OppClass = "fsum" -> old + u.src
    [] OppClass = "fmin" -> IF u.src < old THEN u.src ELSE old

Succeeds(old, u) ==
  CASE OppClass = "sum" -> TRUE
    [] OppClass = "min" -> SignedWord(u.src) < SignedWord(old)
    [] OppClass = "cas" -> old = u.cmp
    [] OppClass = "fsum" -> TRUE
    [] OppClass = "fmin" -> u.src < old

Init ==
  /\ value \in [Vertices -> InitValues]
  /\ frontier = EmptyBag
  /\ pending = Slots
  /\ activeCount = 0

Apply(s) ==
  LET u   == Update[s]
      old == value[u.dst]
      ok  == Succeeds(old, u)
  IN  /\ s \in pending
      /\ pending' = pending \ {s}
      /\ value' = [value EXCEPT ![u.dst] = NewValue(old, u)]
      /\ activeCount' = IF ok THEN activeCount + 1 ELSE activeCount
      /\ frontier' = IF ok /\ ~(Dedup /\ BagIn(u.dst, frontier))
                     THEN BagAdd(frontier, u.dst) ELSE frontier

Next == \E s \in pending : Apply(s)

\* Every update of the pass has been applied.
Done == pending = {}

Spec == Init /\ [][Next]_vars /\ WF_vars(Next)
====
