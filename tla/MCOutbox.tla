------------------------------ MODULE MCOutbox ------------------------------
(* Finite instances of Outbox: the .cfg files choose the workers and bounds. *)
EXTENDS Outbox, TLC

CONSTANTS r1, r2, w1

MCRows == {r1, r2}
OneWorker == {w1}
=============================================================================
