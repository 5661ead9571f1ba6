------------------------ MODULE NotificationPromise ------------------------
(***************************************************************************)
(* What the outbox promises its producers: a notification that was queued  *)
(* stays owed until it has been sent or waived, is never sent while nobody *)
(* owes it, and is closed only on evidence.                                *)
(***************************************************************************)
EXTENDS Naturals

CONSTANT Messages

VARIABLES
    state,   \* "unknown", "owed", "closed" or "given_up"
    sends,   \* how many times the message went out
    waived   \* the messages whose channel was gone or disabled

Init ==
    /\ state = [m \in Messages |-> "unknown"]
    /\ sends = [m \in Messages |-> 0]
    /\ waived = {}

Submit(m) ==
    /\ state[m] = "unknown"
    /\ state' = [state EXCEPT ![m] = "owed"]
    /\ UNCHANGED <<sends, waived>>

Send(m) ==
    /\ state[m] = "owed"
    /\ sends' = [sends EXCEPT ![m] = @ + 1]
    /\ UNCHANGED <<state, waived>>

Waive(m) ==
    /\ state[m] = "owed"
    /\ waived' = waived \cup {m}
    /\ UNCHANGED <<state, sends>>

Close(m) ==
    /\ state[m] = "owed"
    /\ sends[m] > 0 \/ m \in waived
    /\ state' = [state EXCEPT ![m] = "closed"]
    /\ UNCHANGED <<sends, waived>>

GiveUp(m) ==
    /\ state[m] = "owed"
    /\ state' = [state EXCEPT ![m] = "given_up"]
    /\ UNCHANGED <<sends, waived>>

Resubmit(m) ==
    /\ state[m] = "given_up"
    /\ state' = [state EXCEPT ![m] = "owed"]
    /\ UNCHANGED <<sends, waived>>

Next == \E m \in Messages :
    Submit(m) \/ Send(m) \/ Waive(m) \/ Close(m) \/ GiveUp(m) \/ Resubmit(m)

Spec == Init /\ [][Next]_<<state, sends, waived>>
=============================================================================
