---------------------------- MODULE MCEscalation ----------------------------
(* One ladder of two rungs, the first repeated, and two overlapping sweeps. *)
EXTENDS Escalation

MCAfter   == [s \in Steps |-> s + 1]
MCRepeats == [s \in Steps |-> IF s = 0 THEN 2 ELSE 1]
=============================================================================
