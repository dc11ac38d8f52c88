----------------------------- MODULE MCCommands -----------------------------
(* Commands for TLC. *)
EXTENDS Commands, TLC

\* Slots are interchangeable, and so are executions of the action.
Symmetry == Permutations(Slot) \cup Permutations(Runner)
=============================================================================
