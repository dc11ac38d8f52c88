---------------------------- MODULE MCEnrollment ----------------------------
(* Enrollment for TLC. *)
EXTENDS Enrollment, TLC

\* Keys, tokens, slots and requests are interchangeable.
Symmetry ==
    Permutations(Key) \cup Permutations(Token) \cup Permutations(Slot)
        \cup Permutations(Admin)
=============================================================================
