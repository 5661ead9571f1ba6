----------------------------- MODULE AlertIntake -----------------------------
(***************************************************************************)
(* The alerts of one dedupe key, server/src/services/alert.service.ts and   *)
(* routes/alerts.routes.ts: beats and recoveries that a monitoring          *)
(* application posts, late, twice or out of order, and the two things an    *)
(* agent does to an alert on the board.                                     *)
(*                                                                          *)
(* ingest is one transaction.  Its SELECT ... FOR UPDATE takes a snapshot,  *)
(* then waits for the newest open row and looks at it again; when there is  *)
(* no open row it locks nothing.  Of a ticket only its being there, open or *)
(* done counts here: module Ticket has the rest.                            *)
(***************************************************************************)
EXTENDS Naturals, Sequences, FiniteSets

CONSTANTS
    Requests,        \* ingest transactions that may be open at one time
    MinOccurrences,  \* binding.minOccurrences
    AutoResolve,     \* binding.autoResolve
    Counts,          \* occurrence counts a sender claims
    MaxAt,           \* bound: instants a sender stamps, 1..MaxAt
    MaxPosts         \* bound: alerts posted, repetitions included

ASSUME AlertAssumption ==
    /\ MinOccurrences \in Nat /\ AutoResolve \in BOOLEAN
    /\ Counts \subseteq Nat \ {0} /\ MaxAt \in Nat /\ MaxPosts \in Nat

VARIABLES
    alerts,  \* suite_alerts, in the order of insertion
    op,      \* the open transactions
    posts,   \* alerts posted so far
    heard,   \* history: beats that each alert has taken
    opened,  \* history: tickets that each alert has opened
    races    \* history: alerts inserted although another had been meanwhile

vars == <<alerts, op, posts, heard, opened, races>>
history == <<heard, opened, races>>

Idle == [pc |-> "idle"]

Init ==
    /\ alerts = <<>> /\ heard = <<>> /\ opened = <<>>
    /\ op = [p \in Requests |-> Idle]
    /\ posts = 0 /\ races = 0

OpenOf(list) == {a \in DOMAIN list : list[a].cleared = "no"}
OpenAlerts   == OpenOf(alerts)

Newest(S) == CHOOSE a \in S : \A b \in S : alerts[b].first <= alerts[a].first

Held == {op[p].found : p \in {q \in Requests : op[q].pc = "held"}}

Larger(m, n) == IF m >= n THEN m ELSE n

-----------------------------------------------------------------------------
(* ingest.                                                                  *)

\* A post: how often the sender says it saw the condition and, of one that is
\* firing, since when and whether it is in maintenance or below minSeverity.
Bodies ==
    [status : {"firing"}, count : Counts, at : 1..MaxAt, quiet : BOOLEAN]
        \cup [status : {"resolved"}, count : Counts]

Arrive(p) ==
    /\ op[p] = Idle
    /\ posts < MaxPosts
    /\ posts' = posts + 1
    /\ \E body \in Bodies :
          op' = [op EXCEPT ![p] = [pc |-> "waiting", body |-> body, open |-> OpenAlerts,
                                   crossed |-> FALSE]]
    /\ UNCHANGED <<alerts, history>>

HeldWith(p, a, row) ==
    op' = [op EXCEPT ![p] = [pc |-> "held", body |-> op[p].body, found |-> a, open |-> row,
                             crossed |-> op[p].crossed]]

\* No FOR UPDATE.
Find_NoLock(p) ==
    /\ op[p].pc = "waiting"
    /\ LET still == op[p].open \intersect OpenAlerts
       IN  IF still = {} THEN HeldWith(p, 0, <<>>)
           ELSE HeldWith(p, Newest(still), <<alerts[Newest(still)]>>)
    /\ UNCHANGED <<alerts, posts, history>>

\* The row that was waited for is taken as the snapshot had it.
Find_NoRecheck(p) ==
    /\ op[p].pc = "waiting"
    /\ IF op[p].open = {} THEN HeldWith(p, 0, <<>>)
       ELSE LET a == Newest(op[p].open)
            IN  a \notin Held /\ HeldWith(p, a, <<alerts[a]>>)
    /\ UNCHANGED <<alerts, posts, history>>

\* The newest row of the snapshot that is still open, once its lock is free.
\* `open` is now the row read, or nothing.
Find(p) ==
    /\ op[p].pc = "waiting"
    /\ LET still == op[p].open \intersect OpenAlerts
       IN  IF still = {} THEN HeldWith(p, 0, <<>>)
           ELSE LET a == Newest(still)
                IN  a \notin Held /\ HeldWith(p, a, <<alerts[a]>>)
    /\ UNCHANGED <<alerts, posts, history>>

Done(p) == op' = [op EXCEPT ![p] = Idle]

\* The transaction is one: whatever throws undoes it all.
Fail(p) ==
    /\ op[p] # Idle
    /\ Done(p)
    /\ UNCHANGED <<alerts, posts, history>>

Ready(p, status) == op[p].pc = "held" /\ op[p].body.status = status

IgnoreRecovery(p) ==
    /\ Ready(p, "resolved") /\ op[p].found = 0
    /\ Done(p)
    /\ UNCHANGED <<alerts, posts, history>>

\* closeTicketForRecovery resolves the ticket, or leaves it to a human who has
\* worked on it.
AfterRecovery(ticket, touched) ==
    IF ticket = "open" /\ AutoResolve /\ ~touched THEN "done" ELSE ticket

\* The newest open alert is cleared, and no other.
Recover(p) ==
    /\ Ready(p, "resolved") /\ op[p].found # 0
    /\ LET a    == op[p].found
           open == op[p].open[1]
       IN  \E touched \in BOOLEAN :
              alerts' = [alerts EXCEPT ![a] =
                  [@ EXCEPT !.cleared = "recovered",
                            !.count = Larger(open.count, op[p].body.count),
                            !.ticket = AfterRecovery(alerts[a].ticket, touched)]]
    /\ Done(p)
    /\ UNCHANGED <<posts, history>>

\* Why an alert that took this beat, its count'th, opens no ticket.
Gate(body, count) ==
    IF body.quiet THEN "window" ELSE IF count < MinOccurrences THEN "few" ELSE "none"

\* A beat of a known alert.  What it decides on is the row it has read.
Repeat(p) ==
    /\ Ready(p, "firing") /\ op[p].found # 0
    /\ LET a     == op[p].found
           open  == op[p].open[1]
           count == Larger(open.count + 1, op[p].body.count)
           gate  == Gate(op[p].body, count)
           opens == open.ticket = "none" /\ gate = "none"
       IN  /\ alerts' = [alerts EXCEPT ![a] =
                  [@ EXCEPT !.count = count,
                            !.ticket = IF opens THEN "open" ELSE alerts[a].ticket,
                            !.reason = IF open.ticket = "none" THEN gate
                                       ELSE alerts[a].reason]]
           /\ opened' = IF opens THEN [opened EXCEPT ![a] = @ + 1] ELSE opened
           /\ heard' = [heard EXCEPT ![a] = @ + 1]
    /\ Done(p)
    /\ UNCHANGED <<posts, races>>

Firsts == {alerts[a].first : a \in DOMAIN alerts}

\* The first beat, as far as the transaction can see.
FirstBeat(p) ==
    /\ Ready(p, "firing") /\ op[p].found = 0
    /\ op[p].body.at \notin Firsts
    /\ LET body == op[p].body
           gate == Gate(body, body.count)
       IN  /\ alerts' = Append(alerts, [first |-> body.at, count |-> body.count, cleared |-> "no",
                                        reason |-> gate,
                                        ticket |-> IF gate = "none" THEN "open" ELSE "none"])
           /\ opened' = Append(opened, IF gate = "none" THEN 1 ELSE 0)
           /\ heard' = Append(heard, 1)
    /\ races' = IF op[p].crossed THEN races + 1 ELSE races
    /\ op' = [q \in Requests |-> IF q = p \/ op[q] = Idle THEN Idle
                                 ELSE [op[q] EXCEPT !.crossed = TRUE]]
    /\ UNCHANGED posts

\* UNIQUE (tenant_id, dedupe_key, first_seen_at): the sender is told 500.
Clash(p) ==
    /\ Ready(p, "firing") /\ op[p].found = 0
    /\ op[p].body.at \in Firsts
    /\ Done(p)
    /\ UNCHANGED <<alerts, posts, history>>

-----------------------------------------------------------------------------
(* The board.                                                               *)

\* POST /:id/convert, which locks the row; a cleared alert is converted too.
Convert(a) ==
    /\ a \notin Held
    /\ alerts[a].ticket = "none"
    /\ alerts' = [alerts EXCEPT ![a] = [@ EXCEPT !.ticket = "open", !.reason = "none"]]
    /\ opened' = [opened EXCEPT ![a] = @ + 1]
    /\ UNCHANGED <<op, posts, heard, races>>

\* POST /:id/dismiss, one UPDATE of an alert without a ticket, open or not.
Dismiss(a) ==
    /\ a \notin Held
    /\ alerts[a].ticket = "none"
    /\ alerts' = [alerts EXCEPT ![a] = [@ EXCEPT !.cleared = "dismissed", !.reason = "agent"]]
    /\ UNCHANGED <<op, posts, history>>

\* The ticket is settled by its own life cycle: the alert does not learn of it.
TicketSettled(a) ==
    /\ alerts[a].ticket = "open"
    /\ alerts' = [alerts EXCEPT ![a] = [@ EXCEPT !.ticket = "done"]]
    /\ UNCHANGED <<op, posts, history>>

Next ==
    \/ \E p \in Requests :
          \/ Arrive(p) \/ Find(p) \/ Fail(p) \/ IgnoreRecovery(p) \/ Recover(p)
          \/ Repeat(p) \/ FirstBeat(p) \/ Clash(p)
    \/ \E a \in DOMAIN alerts : Convert(a) \/ Dismiss(a) \/ TicketSettled(a)

Spec == Init /\ [][Next]_vars

-----------------------------------------------------------------------------
(* Properties.                                                              *)

Alerts == [first : 1..MaxAt, count : Nat, cleared : {"no", "recovered", "dismissed"},
           reason : {"none", "window", "few", "agent"}, ticket : {"none", "open", "done"}]

TypeOK ==
    /\ alerts \in Seq(Alerts)
    /\ DOMAIN heard = DOMAIN alerts /\ DOMAIN opened = DOMAIN alerts
    /\ \A p \in Requests : op[p].pc \in {"idle", "waiting", "held"}
    /\ posts \in 0..MaxPosts /\ races \in 0..MaxPosts

\* An alert opens one ticket, however many beats and conversions overlap.
OneTicketPerAlert == \A a \in DOMAIN alerts : opened[a] <= 1

\* No beat is lost from the count, which opens the ticket.
BeatsAreCounted == \A a \in DOMAIN alerts : alerts[a].count >= heard[a]

\* An open alert without a ticket has a reason that is still true: its last beat
\* was in a window, or it has not beaten often enough yet.
SilenceHasReason ==
    \A a \in OpenAlerts : alerts[a].ticket = "none" =>
       \/ alerts[a].reason = "window"
       \/ alerts[a].reason = "few" /\ alerts[a].count < MinOccurrences

\* One condition has one open alert, and one more for every beat whose
\* transaction had begun when another one's insert was committed.
OneOpenUnlessRaced == Cardinality(OpenAlerts) <= 1 + races

\* However posts overlap and repeat, alerts, beats and tickets add up.
AlertsAddUp ==
    /\ TypeOK
    /\ OneTicketPerAlert
    /\ BeatsAreCounted
    /\ SilenceHasReason
    /\ OneOpenUnlessRaced

\* A beat never lands on an alert that has been cleared, not even one that has
\* waited for the clearing: it would announce a new outage to nobody.
ClearedTakesNoBeat ==
    [][\A a \in DOMAIN alerts : alerts[a].cleared # "no" => heard'[a] = heard[a]]_vars
=============================================================================
