---------------------------- MODULE AtomicPasses ----------------------------
(***************************************************************************)
(* What a run of PISC passes promises (spec.md 4.3 and 4.5): each pass is *)
(* one AtomicSpec pass over its own slots; the program starts the next     *)
(* pass only once every update of the current one has applied and the     *)
(* frontier it built is non-empty, and the new pass starts from an empty  *)
(* frontier and a zero active-vertex tally.  Vertex values carry over.    *)
(***************************************************************************)
EXTENDS Integers, Sequences, Bags, BagsExt

CONSTANTS Vertices, PassSlots, Update, OppClass, Dedup, W, InitValues

ASSUME /\ PassSlots \in Seq(SUBSET Nat) /\ Len(PassSlots) > 0
       /\ \A p, q \in DOMAIN PassSlots : p # q => PassSlots[p] \cap PassSlots[q] = {}

VARIABLES value, frontier, pending, activeCount, pass

vars == <<value, frontier, pending, activeCount, pass>>

AllSlots == UNION {PassSlots[p] : p \in DOMAIN PassSlots}

\* The opcode table of a single pass.
OnePass == INSTANCE AtomicSpec WITH Slots <- AllSlots

Init ==
  /\ value \in [Vertices -> InitValues]
  /\ frontier = EmptyBag
  /\ pending = PassSlots[1]
  /\ activeCount = 0
  /\ pass = 1

\* An update of the current pass applies as in AtomicSpec.
Apply(s) ==
  LET u   == Update[s]
      old == value[u.dst]
      ok  == OnePass!Succeeds(old, u)
  IN  /\ s \in pending
      /\ pending' = pending \ {s}
      /\ value' = [value EXCEPT ![u.dst] = OnePass!NewValue(old, u)]
      /\ activeCount' = IF ok THEN activeCount + 1 ELSE activeCount
      /\ frontier' = IF ok /\ ~(Dedup /\ BagIn(u.dst, frontier))
                     THEN BagAdd(frontier, u.dst) ELSE frontier
      /\ UNCHANGED pass

NextPass ==
  /\ pending = {}
  /\ frontier # EmptyBag
  /\ pass < Len(PassSlots)
  /\ pass' = pass + 1
  /\ pending' = PassSlots[pass + 1]
  /\ frontier' = EmptyBag
  /\ activeCount' = 0
  /\ UNCHANGED value

Next == (\E s \in pending : Apply(s)) \/ NextPass

Spec == Init /\ [][Next]_vars /\ WF_vars(Next)

\* No step is enabled: the last pass has applied all its updates, or its
\* frontier is empty.  Every behaviour of Spec ends here, since each step
\* removes an update or starts one of finitely many passes.
Done == pending = {} /\ (frontier = EmptyBag \/ pass = Len(PassSlots))
====
