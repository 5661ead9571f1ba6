---------------------------- MODULE MCAlertIntake ----------------------------
(* A finite instance of AlertIntake.                                         *)
EXTENDS AlertIntake, TLC

CONSTANTS p1, p2

Two == {p1, p2}

\* A sender that counts for itself, and is ahead or behind.
Claims == {1, 3}

\* Transactions are interchangeable.
Symmetry == Permutations(Requests)
=============================================================================
