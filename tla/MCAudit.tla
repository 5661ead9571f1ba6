------------------------------- MODULE MCAudit -------------------------------
(* Finite instances of Audit.                                                *)
EXTENDS Audit, TLC

CONSTANTS t1, t2, t3, ann, nobody

ThreeWriters == {t1, t2, t3}
OneUser      == {ann}

\* Transactions are interchangeable.
Symmetry == Permutations(Writers)
=============================================================================
