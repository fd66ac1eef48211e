------------------------------ MODULE OmegaApi ------------------------------
(***************************************************************************)
(* The host-side OMEGA API (benchmarks/OMEGA_API.cpp): init, map and      *)
(* unmap of the vertex property array held in the scratchpads, as the     *)
(* compiled benchmarks call them.                                          *)
(*                                                                         *)
(* Tracked range 1 makes the first num_vertex elements of the array at    *)
(* mapped_vaddr1 live in the scratchpads; every other element lives in    *)
(* host memory.  map copies the array in through temp_data and then moves *)
(* the range onto the array; unmap moves the range back onto temp_data    *)
(* and copies the elements out.  The program's loads and stores of array  *)
(* elements in between go wherever the range puts them.  `logical` is a    *)
(* ghost: the value the program last stored to each element.               *)
(***************************************************************************)
EXTENDS Integers

CONSTANTS
  Arrays,      \* the host arrays a benchmark maps (IDs, parents, ...)
  ArrayLen,    \* their element counts
  NumMapped,   \* *num_vertex_mapped_vaddr: the elements the scratchpads hold
  Values,      \* element values
  NULL, TEMP   \* nullptr, and the address of temp_data

Idx == 0 .. NumMapped
Len(a) == ArrayLen[a]

ASSUME ArrayLen \in [Arrays -> 0 .. NumMapped + 1] /\ NumMapped \in Nat \ {0}

VARIABLES
  curr_data, curr_data_count, curr_fits_in_spm, max_mapped_count,
  mapped_vaddr1, num_vertex,  \* the range-1 registers
  spm,                        \* the scratchpad copy of range 1
  host,                       \* host memory of each array
  logical,                    \* ghost: the program's view of each array
  progMapped,                 \* ghost: the array the program last mapped and
                              \* has not unmapped, or NULL
  exited                      \* the process called exit(1)

vars == <<curr_data, curr_data_count, curr_fits_in_spm, max_mapped_count,
          mapped_vaddr1, num_vertex, spm, host, logical, progMapped, exited>>

\* Whether element i of array a is served by the scratchpads.
InSpmRange(a, i) == mapped_vaddr1 = a /\ i < num_vertex

\* What a load of element i of array a returns.
Load(a, i) == IF InSpmRange(a, i) THEN spm[i] ELSE host[a][i]

\* The class's initial members, and init(): no data mapped, range 1 on
\* temp_data with no elements, the capacity read from the scratchpads.
Init ==
  /\ curr_data = NULL /\ curr_data_count = 0 /\ curr_fits_in_spm = FALSE
  /\ max_mapped_count = NumMapped
  /\ mapped_vaddr1 = TEMP /\ num_vertex = 0
  /\ spm \in [0 .. NumMapped - 1 -> Values]
  /\ host \in [Arrays -> [Idx -> Values]]
  /\ logical = host
  /\ progMapped = NULL
  /\ exited = FALSE

\* Mutant: map without the cap on new_data_count.
MapNoCap(a) ==
  LET n == Len(a)
  IN  /\ ~exited
      /\ progMapped \in {NULL, a}
      /\ progMapped' = a
      /\ CASE curr_data = a ->
              UNCHANGED <<curr_data, curr_data_count, curr_fits_in_spm,
                          mapped_vaddr1, num_vertex, spm, exited>>
           [] curr_data # NULL ->
              /\ exited' = TRUE
              /\ UNCHANGED <<curr_data, curr_data_count, curr_fits_in_spm,
                             mapped_vaddr1, num_vertex, spm>>
           [] OTHER ->
              /\ curr_fits_in_spm' = (Len(a) <= max_mapped_count)
              /\ num_vertex' = n
              /\ spm' = [i \in DOMAIN spm |-> IF i < n THEN host[a][i] ELSE spm[i]]
              /\ mapped_vaddr1' = a
              /\ curr_data' = a
              /\ curr_data_count' = n
              /\ UNCHANGED exited
      /\ UNCHANGED <<max_mapped_count, host, logical>>

\* map(new_data, new_data_count): the program maps array a with its length,
\* having unmapped whatever it mapped before.  Mapping the array that is
\* already mapped returns at once.
Map(a) ==
  LET n == IF Len(a) > max_mapped_count THEN max_mapped_count ELSE Len(a)
  IN  /\ ~exited
      /\ progMapped \in {NULL, a}
      /\ progMapped' = a
      /\ CASE curr_data = a ->
              UNCHANGED <<curr_data, curr_data_count, curr_fits_in_spm,
                          mapped_vaddr1, num_vertex, spm, exited>>
           [] curr_data # NULL ->
              /\ exited' = TRUE
              /\ UNCHANGED <<curr_data, curr_data_count, curr_fits_in_spm,
                             mapped_vaddr1, num_vertex, spm>>
           [] OTHER ->
              /\ curr_fits_in_spm' = (Len(a) <= max_mapped_count)
              /\ num_vertex' = n
              /\ spm' = [i \in DOMAIN spm |-> IF i < n THEN host[a][i] ELSE spm[i]]
              /\ mapped_vaddr1' = a
              /\ curr_data' = a
              /\ curr_data_count' = n
              /\ UNCHANGED exited
      /\ UNCHANGED <<max_mapped_count, host, logical>>

\* Mutant: unmap copies one element too few.
UnmapOffByOne ==
  /\ ~exited
  /\ progMapped # NULL
  /\ progMapped' = NULL
  /\ IF curr_data_count = 0
     THEN UNCHANGED <<mapped_vaddr1, host, curr_data, curr_data_count>>
     ELSE /\ mapped_vaddr1' = TEMP
          /\ host' = [host EXCEPT ![progMapped] =
                        [i \in Idx |-> IF i < curr_data_count - 1 THEN spm[i] ELSE @[i]]]
          /\ curr_data' = NULL
          /\ curr_data_count' = 0
  /\ UNCHANGED <<curr_fits_in_spm, max_mapped_count, num_vertex, spm, logical, exited>>

\* Mutant: unmap leaves curr_data set.
UnmapKeepCurr ==
  /\ ~exited
  /\ progMapped # NULL
  /\ progMapped' = NULL
  /\ IF curr_data_count = 0
     THEN UNCHANGED <<mapped_vaddr1, host, curr_data, curr_data_count>>
     ELSE /\ mapped_vaddr1' = TEMP
          /\ host' = [host EXCEPT ![progMapped] =
                        [i \in Idx |-> IF i < curr_data_count THEN spm[i] ELSE @[i]]]
          /\ UNCHANGED curr_data
          /\ curr_data_count' = 0
  /\ UNCHANGED <<curr_fits_in_spm, max_mapped_count, num_vertex, spm, logical, exited>>

\* unmap(data_dst): the benchmarks pass the array they mapped.  With no
\* element mapped it returns at once.
Unmap ==
  /\ ~exited
  /\ progMapped # NULL
  /\ progMapped' = NULL
  /\ IF curr_data_count = 0
     THEN UNCHANGED <<mapped_vaddr1, host, curr_data, curr_data_count>>
     ELSE /\ mapped_vaddr1' = TEMP
          /\ host' = [host EXCEPT ![progMapped] =
                        [i \in Idx |-> IF i < curr_data_count THEN spm[i] ELSE @[i]]]
          /\ curr_data' = NULL
          /\ curr_data_count' = 0
  /\ UNCHANGED <<curr_fits_in_spm, max_mapped_count, num_vertex, spm, logical, exited>>

\* A store by the program to element i of array a.
Store(a, i, x) ==
  /\ ~exited
  /\ i < Len(a)
  /\ IF InSpmRange(a, i)
     THEN spm' = [spm EXCEPT ![i] = x] /\ UNCHANGED host
     ELSE host' = [host EXCEPT ![a][i] = x] /\ UNCHANGED spm
  /\ logical' = [logical EXCEPT ![a][i] = x]
  /\ UNCHANGED <<curr_data, curr_data_count, curr_fits_in_spm, max_mapped_count,
                 mapped_vaddr1, num_vertex, progMapped, exited>>

Next ==
  \/ \E a \in Arrays : Map(a)
  \/ Unmap
  \/ \E a \in Arrays, i \in Idx, x \in Values : Store(a, i, x)

Spec == Init /\ [][Next]_vars

----------------------------------------------------------------------------
TypeOK ==
  /\ curr_data \in Arrays \cup {NULL} /\ progMapped \in Arrays \cup {NULL}
  /\ curr_data_count \in 0 .. NumMapped /\ num_vertex \in 0 .. NumMapped
  /\ mapped_vaddr1 \in Arrays \cup {TEMP}
  /\ spm \in [0 .. NumMapped - 1 -> Values]
  /\ host \in [Arrays -> [Idx -> Values]] /\ logical \in [Arrays -> [Idx -> Values]]
  /\ exited \in BOOLEAN

\* No store is lost across map and unmap: every element the program loads,
\* from the scratchpads while its array is mapped and from host memory
\* otherwise, holds the value the program last stored to it.  map copies
\* the capped prefix in and unmap copies it out to data_dst.
NoLostStore ==
  \A a \in Arrays : \A i \in 0 .. Len(a) - 1 : Load(a, i) = logical[a][i]

\* A program that unmaps each array before mapping another never reaches
\* the "Must unmap existing data before mapping new data!" exit in map.
NoSpuriousExit == ~exited
====
