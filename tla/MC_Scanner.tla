----------------------------- MODULE MC_Scanner -----------------------------
(***************************************************************************)
(* Scanner on every program text of up to three characters over the      *)
(* digits 0, 1 and 8 and a blank: int literals with and without a         *)
(* leading zero, one with a digit that is not octal, and two literals     *)
(* separated by a blank.                                                  *)
(***************************************************************************)
EXTENDS Scanner

MCInputs == UNION {[1 .. k -> {"0", "1", "8", " "}] : k \in 0 .. 3}
MCKeywords == <<"#">> :> "NUMBER_SIGN"
====
