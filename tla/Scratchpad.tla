----------------------------- MODULE Scratchpad -----------------------------
(***************************************************************************)
(* One scratchpad's line storage (ScratchpadMemory.cc: findTagInSet,      *)
(* isTagPresent, cacheAvail, allocate, deallocate, isVictimPresent,       *)
(* cacheProbe, lookup, setLocked, clearLocked) with its FreqCollPolicy    *)
(* replacement policy, driven by the protocol's calls.                     *)
(*                                                                         *)
(* m_spm[set][way] holds a pointer to a line or NULL.  m_tag_index is ONE  *)
(* map from address to way for the whole scratchpad; findTagInSet reads   *)
(* the way it names in the address's set and dereferences it without a    *)
(* NULL test.  The protocol that calls these (the SLICC controller) is    *)
(* not in the repository; its calls follow spec.md 3 and 4.1: allocate    *)
(* after checking !present and available, evict through cacheProbe when   *)
(* no way is available, deallocate, change a line's permission, lock.     *)
(***************************************************************************)
EXTENDS Integers, FiniteSetsExt

CONSTANTS
  Addrs,          \* line addresses the protocol touches
  Sets,           \* set indices
  Assoc,          \* m_spm_assoc
  SetOf,          \* addressToCacheSet (modulo hash)
  Contexts,       \* context ids that may lock a line
  ProtocolPerms,  \* permissions the protocol gives a line after allocate
  MaxColl,        \* bound on the collision counters (they grow without end)
  NULL

Ways == 0 .. Assoc - 1
NoWay == -1                        \* findTagInSet's "not found"
Unlocked == -1                     \* m_locked after allocate
Perms == {"Invalid", "Read_Only", "Read_Write", "Busy", "NotPresent"}
Entry == [addr: Addrs, perm: Perms, locked: Contexts \cup {Unlocked},
          setIdx: Sets, wayIdx: Ways]

ASSUME /\ SetOf \in [Addrs -> Sets] /\ Assoc \in Nat \ {0}
       /\ ProtocolPerms \subseteq Perms \ {"Invalid"} /\ MaxColl \in Nat

VARIABLES
  m_spm,          \* m_spm[set][way]: a line or NULL
  m_tag_index,    \* address -> way, NoWay when erased or never set
  m_coll_ref,     \* FreqCollPolicy's collision counter per set and way
  fault,          \* "none", or how the simulator stopped: "null_deref", "panic"
  lastVictim      \* ghost: the counters getVictim chose from, and its answer

vars == <<m_spm, m_tag_index, m_coll_ref, fault, lastVictim>>

\* touch() has its increment commented out, so every frequency counter
\* keeps its initial value.
m_freq_ref(s, w) == 0

----------------------------------------------------------------------------
\* findTagInSet: the way m_tag_index names, if the line there is not
\* NotPresent.  Reading the permission of a NULL way is a NULL dereference.
DerefsNull(a) ==
  m_tag_index[a] # NoWay /\ m_spm[SetOf[a]][m_tag_index[a]] = NULL

FindTagInSet(a) ==
  LET w == m_tag_index[a]
  IN  IF w # NoWay /\ m_spm[SetOf[a]][w].perm # "NotPresent" THEN w ELSE NoWay

IsTagPresent(a) == FindTagInSet(a) # NoWay

\* cacheAvail: a way of the set is empty, NotPresent, or holds a.
CacheAvail(a) ==
  \E w \in Ways : LET e == m_spm[SetOf[a]][w]
                  IN  IF e = NULL THEN TRUE ELSE e.addr = a \/ e.perm = "NotPresent"

\* The ways allocate's loop may take: empty or NotPresent.
FreeWays(s) ==
  {w \in Ways : IF m_spm[s][w] = NULL THEN TRUE ELSE m_spm[s][w].perm = "NotPresent"}

\* allocate takes the first free way.
FreeWay(s) == Min(FreeWays(s))

\* The entry allocate installs: permission Invalid, m_locked = -1, and
\* setSetIndex / setWayIndex (read back by incFrequency).
NewLine(a, s, w) ==
  [addr |-> a, perm |-> "Invalid", locked |-> Unlocked, setIdx |-> s, wayIdx |-> w]

\* getVictim: the first way whose collision-minus-frequency delta is the
\* largest strictly positive one, way 0 when none is positive; then every
\* collision counter of the set is incremented.  It never answers -1.
GetVictim(c, s) ==
  LET delta(w) == c[w] - m_freq_ref(s, w)
      pos      == {w \in Ways : delta(w) > 0}
  IN  IF pos = {} THEN 0
      ELSE Min({w \in pos : \A v \in pos : delta(v) <= delta(w)})

Bumped(c) == [w \in Ways |-> c[w] + 1]

\* A step that calls findTagInSet for a and dereferences a NULL way.
NullDeref(a) == DerefsNull(a) /\ fault' = "null_deref"
                /\ UNCHANGED <<m_spm, m_tag_index, m_coll_ref, lastVictim>>

----------------------------------------------------------------------------
Init ==
  /\ m_spm = [s \in Sets |-> [w \in Ways |-> NULL]]
  /\ m_tag_index = [a \in Addrs |-> NoWay]
  /\ m_coll_ref = [s \in Sets |-> [w \in Ways |-> 0]]
  /\ fault = "none"
  /\ lastVictim = NULL

\* Mutant: allocate without its assert(!isTagPresent(address)).
AllocateNoPresentCheck(a) ==
  LET s == SetOf[a] IN
  /\ fault = "none"
  /\ \/ NullDeref(a)
     \/ /\ ~DerefsNull(a) /\ CacheAvail(a)
        /\ IF FreeWays(s) = {}
           THEN fault' = "panic" /\ UNCHANGED <<m_spm, m_tag_index>>
           ELSE /\ m_spm' = [m_spm EXCEPT ![s][FreeWay(s)] =
                               NewLine(a, s, FreeWay(s))]
                /\ m_tag_index' = [m_tag_index EXCEPT ![a] = FreeWay(s)]
                /\ UNCHANGED fault
        /\ UNCHANGED <<m_coll_ref, lastVictim>>

\* Mutant: allocate records the way index one past the way it used.
AllocateWayOffByOne(a) ==
  LET s == SetOf[a] IN
  /\ fault = "none"
  /\ \/ NullDeref(a)
     \/ /\ ~DerefsNull(a) /\ ~IsTagPresent(a) /\ CacheAvail(a)
        /\ IF FreeWays(s) = {}
           THEN fault' = "panic" /\ UNCHANGED <<m_spm, m_tag_index>>
           ELSE /\ m_spm' = [m_spm EXCEPT ![s][FreeWay(s)] =
                               [NewLine(a, s, FreeWay(s)) EXCEPT !.wayIdx = @ + 1]]
                /\ m_tag_index' = [m_tag_index EXCEPT ![a] = FreeWay(s)]
                /\ UNCHANGED fault
        /\ UNCHANGED <<m_coll_ref, lastVictim>>

\* allocate(address): after its asserts, the first empty or NotPresent way
\* gets the line, with permission Invalid and no lock, and m_tag_index
\* records the way.  The tag of a NotPresent line it overwrites stays in
\* m_tag_index.  No free way: panic("Allocate didn't find ...").
Allocate(a) ==
  LET s == SetOf[a] IN
  /\ fault = "none"
  /\ \/ NullDeref(a)
     \/ /\ ~DerefsNull(a) /\ ~IsTagPresent(a) /\ CacheAvail(a)
        /\ IF FreeWays(s) = {}
           THEN fault' = "panic" /\ UNCHANGED <<m_spm, m_tag_index>>
           ELSE /\ m_spm' = [m_spm EXCEPT ![s][FreeWay(s)] =
                               NewLine(a, s, FreeWay(s))]
                /\ m_tag_index' = [m_tag_index EXCEPT ![a] = FreeWay(s)]
                /\ UNCHANGED fault
        /\ UNCHANGED <<m_coll_ref, lastVictim>>

\* Mutant: deallocate that leaves the tag in m_tag_index.
DeallocateKeepTag(a) ==
  /\ fault = "none"
  /\ \/ NullDeref(a)
     \/ /\ ~DerefsNull(a) /\ IsTagPresent(a)
        /\ m_spm' = [m_spm EXCEPT ![SetOf[a]][FindTagInSet(a)] = NULL]
        /\ UNCHANGED <<m_tag_index, m_coll_ref, fault, lastVictim>>

\* deallocate(address): after assert(isTagPresent), the line is freed,
\* its way set to NULL and its tag erased from m_tag_index.
Deallocate(a) ==
  /\ fault = "none"
  /\ \/ NullDeref(a)
     \/ /\ ~DerefsNull(a) /\ IsTagPresent(a)
        /\ m_spm' = [m_spm EXCEPT ![SetOf[a]][FindTagInSet(a)] = NULL]
        /\ m_tag_index' = [m_tag_index EXCEPT ![a] = NoWay]
        /\ UNCHANGED <<m_coll_ref, fault, lastVictim>>

\* A miss on a with no available way (spec.md 4.1): the protocol asks
\* isVictimPresent, then cacheProbe, whose assert asks it again; each call
\* runs getVictim, and the third call's way is the victim.  The victim
\* line's address is then deallocated.
Evict(a) ==
  LET s  == SetOf[a]
      c2 == Bumped(Bumped(m_coll_ref[s]))
      v  == GetVictim(c2, s)
      va == m_spm[s][v].addr
  IN  /\ fault = "none"
      /\ ~DerefsNull(a) /\ ~IsTagPresent(a) /\ ~CacheAvail(a)
      /\ \A w \in Ways : m_coll_ref[s][w] + 3 <= MaxColl
      /\ m_coll_ref' = [m_coll_ref EXCEPT ![s] = Bumped(c2)]
      /\ lastVictim' = [coll |-> c2, set |-> s, way |-> v]
      /\ \/ DerefsNull(va) /\ fault' = "null_deref" /\ UNCHANGED <<m_spm, m_tag_index>>
         \/ /\ ~DerefsNull(va)
            /\ IF IsTagPresent(va)
               THEN /\ m_spm' = [m_spm EXCEPT ![s][FindTagInSet(va)] = NULL]
                    /\ m_tag_index' = [m_tag_index EXCEPT ![va] = NoWay]
                    /\ UNCHANGED fault
               ELSE fault' = "panic" /\ UNCHANGED <<m_spm, m_tag_index>>

\* The protocol changes the permission of a present line (spec.md 3:
\* Invalid, ReadOnly, ReadWrite, NotPresent, Busy), found by lookup.
SetPermission(a, p) ==
  /\ fault = "none"
  /\ \/ NullDeref(a)
     \/ /\ ~DerefsNull(a) /\ IsTagPresent(a)
        /\ m_spm' = [m_spm EXCEPT ![SetOf[a]][FindTagInSet(a)].perm = p]
        /\ UNCHANGED <<m_tag_index, m_coll_ref, fault, lastVictim>>

\* setLocked(address, context) and clearLocked(address): assert(loc != -1),
\* then the line's m_locked is set or cleared.
SetLocked(a, c) ==
  /\ fault = "none"
  /\ \/ NullDeref(a)
     \/ /\ ~DerefsNull(a) /\ IsTagPresent(a)
        /\ m_spm' = [m_spm EXCEPT ![SetOf[a]][FindTagInSet(a)].locked = c]
        /\ UNCHANGED <<m_tag_index, m_coll_ref, fault, lastVictim>>

ClearLocked(a) == SetLocked(a, Unlocked)

Next ==
  \E a \in Addrs :
    \/ Allocate(a)
    \/ Deallocate(a)
    \/ Evict(a)
    \/ \E p \in ProtocolPerms : SetPermission(a, p)
    \/ \E c \in Contexts : SetLocked(a, c)
    \/ ClearLocked(a)

Spec == Init /\ [][Next]_vars

----------------------------------------------------------------------------
\* Types; m_tag_index names a way of the scratchpad or none.
TypeOK ==
  /\ m_spm \in [Sets -> [Ways -> Entry \cup {NULL}]]
  /\ m_tag_index \in [Addrs -> Ways \cup {NoWay}]
  /\ m_coll_ref \in [Sets -> [Ways -> 0 .. MaxColl]]
  /\ fault \in {"none", "null_deref", "panic"}

\* Lines the set actually holds for a: resident, not NotPresent.
HoldsLine(a) ==
  {w \in Ways : m_spm[SetOf[a]][w] # NULL /\ m_spm[SetOf[a]][w].addr = a
                /\ m_spm[SetOf[a]][w].perm # "NotPresent"}

\* The global m_tag_index agrees with the sets' contents: for every
\* address, lookup finds exactly the one line that holds it, and finds
\* nothing when no line holds it (spec.md 6: at most one resident line per
\* address; present(a) is false after deallocate(a)).  allocate's reuse of
\* a NotPresent way and deallocate's erase both have to keep this.
TagIndexExact ==
  fault = "none" =>
    \A a \in Addrs :
      ~DerefsNull(a) /\ HoldsLine(a) = IF IsTagPresent(a) THEN {FindTagInSet(a)} ELSE {}

\* No protocol step, each made only after its own precondition checks,
\* makes the scratchpad dereference a NULL way or panic in allocate.
NoFault == fault = "none"

\* spec.md 3: getVictim answers "none" when all ways are equally frequent,
\* and otherwise the way with the largest strictly positive delta.  So a
\* victim is only ever chosen among ways whose frequencies differ.
VictimOnlyAmongUnequal ==
  lastVictim # NULL =>
    \E w, v \in Ways : m_freq_ref(lastVictim.set, w) # m_freq_ref(lastVictim.set, v)
====
