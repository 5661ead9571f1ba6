--------------------------- MODULE EscalationPromise ---------------------------
(***************************************************************************)
(* What an escalation ladder promises the person it pages, with no trace   *)
(* of sweeps, transactions or claims: an occurrence is armed once; while   *)
(* it is armed its rungs are announced one at a time, each after the ones  *)
(* announced before; once closed it is never heard of again.               *)
(* escalation.service.ts:1-50 is where the service makes that promise.     *)
(***************************************************************************)
EXTENDS Naturals, Sequences

CONSTANTS Occ,     \* the occurrences a ladder may answer on one ticket
          Rungs    \* [step, rep]: the announcements a ladder may make

VARIABLES life,    \* [Occ -> {"unarmed", "armed", "closed"}]
          told     \* [Occ -> sequence of [step, rep]], in the order announced

pvars == <<life, told>>

\* Rung a comes before rung b: an earlier step, or an earlier repeat of it.
Before(a, b) == \/ a.step < b.step
                \/ a.step = b.step /\ a.rep < b.rep

Init == /\ life = [o \in Occ |-> "unarmed"]
        /\ told = [o \in Occ |-> <<>>]

Arm(o) == /\ life[o] = "unarmed"
          /\ life' = [life EXCEPT ![o] = "armed"]
          /\ UNCHANGED told

\* The next announcement: never a rung that was announced, or skipped, before.
Tell(o, rung) ==
    /\ life[o] = "armed"
    /\ told[o] # <<>> => Before(told[o][Len(told[o])], rung)
    /\ told' = [told EXCEPT ![o] = Append(@, rung)]
    /\ \/ UNCHANGED life
       \/ life' = [life EXCEPT ![o] = "closed"]

\* Several runs of one ticket may be closed by one statement.
Close(set) == /\ \A o \in set : life[o] = "armed"
              /\ life' = [o \in Occ |-> IF o \in set THEN "closed" ELSE life[o]]
              /\ UNCHANGED told

Next == \/ \E o \in Occ : Arm(o)
        \/ \E o \in Occ : \E rung \in Rungs : Tell(o, rung)
        \/ \E set \in SUBSET Occ : Close(set)

Spec == Init /\ [][Next]_pvars
=============================================================================
