------------------------------ MODULE Escalation ------------------------------
(***************************************************************************)
(* The escalation ladder engine (services/escalation.service.ts): one      *)
(* ladder on one ticket.  A run exists per occurrence of the ladder's      *)
(* trigger (UNIQUE tenant, ticket, ladder, occurrence_key); a sweep lists  *)
(* the runs that are due and fires each in a transaction of its own; the   *)
(* ticket is meanwhile edited, settled, reopened and removed, and runs are *)
(* cancelled by hand, by other requests.                                   *)
(*                                                                         *)
(* Row locks are the point of the module.  A fire holds the run's row      *)
(* (FOR UPDATE) from its first read to its commit and needs the ticket's   *)
(* row to journal what it did; a settling transition holds the ticket's    *)
(* row and needs the rows of the runs it read as armed.                    *)
(***************************************************************************)
EXTENDS Naturals, Sequences, FiniteSets

CONSTANTS Passes,      \* sweeps that may overlap: the ticker, POST /sweep
          MaxSteps,    \* bound: rungs of the largest published ladder
          After,       \* [step -> offset from the anchor], ascending
          Repeats,     \* [step -> maxRepeats], 1 for a step that does not repeat
          MaxNow,      \* bound: instants the clock shows
          MaxEvents,   \* bound: requests, SQL errors and crashes together
          NoDue        \* next_due_at IS NULL

Steps == 0..(MaxSteps - 1)
Urgencies == 0..1      \* the priorities a ticket may be given
Occ   == 0..MaxNow     \* an occurrence key: updated_at, or the new priority

ASSUME PassesAssumption == IsFiniteSet(Passes)
ASSUME BoundsAssumption == MaxSteps \in Nat \ {0} /\ MaxNow \in Nat \ {0}
                           /\ MaxEvents \in Nat
ASSUME OffsetsAssumption ==
    /\ After \in [Steps -> Nat]
    /\ \A s, t \in Steps : s < t => After[s] <= After[t]
    /\ Repeats \in [Steps -> Nat \ {0}]
ASSUME NoDueAssumption == NoDue \notin Nat

VARIABLES
    now,       \* the clock
    ladder,    \* the published ladder: [trigger, enabled, steps, touches]
    ticket,    \* the ticket's row: [cat, updatedAt, urgency, stop]
    runs,      \* escalation_runs: [Occ -> [state, step, rep, due, anchor]]
    fires,     \* escalation_fires: the claims <<occurrence, step, rep>>
    pages,     \* what was committed for delivery: [Occ -> sequence of [step, rep, at]]
    pass,      \* [Passes -> [pc, at, ref, known, stale, listed, run, steps]]
    desk,      \* a settling transition in flight: [pc, to, armed]
    cancelling,\* runs a cancelRun request has read as armed
    escaped,   \* history: occurrences armed while the ticket was settling or settled
    events     \* requests, errors and crashes so far

vars == <<now, ladder, ticket, runs, fires, pages, pass, desk, cancelling, escaped, events>>

ClosedStates == {"completed", "stopped", "cancelled"}
Settled      == {"resolved", "closed"}
NoRun        == [state |-> "none", step |-> 0, rep |-> 0, due |-> NoDue, anchor |-> 0]
IdlePass     == [pc |-> "idle", at |-> 0, ref |-> 0, known |-> FALSE, stale |-> FALSE,
                 listed |-> {}, run |-> 0, steps |-> 0]
IdleDesk     == [pc |-> "idle", to |-> "open", armed |-> {}]

Armed(o) == runs[o].state = "armed"

\* The stop condition is data: "stop" says whether it holds of the ticket now.
Init ==
    /\ now = 0
    /\ ladder \in [trigger : {"no_update", "priority"}, enabled : {TRUE},
                   steps : {MaxSteps}, touches : BOOLEAN]
    /\ ladder.touches => ladder.trigger = "no_update"
    /\ ticket = [cat |-> "open", updatedAt |-> 0, urgency |-> 0, stop |-> FALSE]
    /\ runs = [o \in Occ |-> NoRun]
    /\ fires = {}
    /\ pages = [o \in Occ |-> <<>>]
    /\ pass = [p \in Passes |-> IdlePass]
    /\ desk = IdleDesk
    /\ cancelling = {}
    /\ escaped = {}
    /\ events = 0

-----------------------------------------------------------------------------
(* Row locks *)

\* The run's row is held by the transaction of a pass that is firing it.
RunFree(o) == \A p \in Passes : ~(pass[p].pc = "firing" /\ pass[p].run = o)

\* The ticket's row is held by a transition between its lock and its commit.
TicketFree == desk.pc = "idle"

-----------------------------------------------------------------------------
(* Closing runs *)

Closed(run, state) == [run EXCEPT !.state = state, !.due = NoDue]

\* One UPDATE over a set of runs.
CloseAll(set, state) == [o \in Occ |-> IF o \in set THEN Closed(runs[o], state) ELSE runs[o]]

-----------------------------------------------------------------------------
(* Arming *)

\* arm() refuses a missing, disabled or empty ladder, a ticket that is gone or
\* terminal, and a stop condition that already holds.  A resolved ticket passes.
MayArm(row) == /\ ladder.enabled
               /\ ladder.steps > 0
               /\ row.cat \notin {"closed", "gone"}
               /\ ~row.stop

\* Slip: ON CONFLICT DO UPDATE, which arms a closed run again.
Inserted_Upsert(o, anchor) ==
    [runs EXCEPT ![o] = [state |-> "armed", step |-> 0, rep |-> 0,
                         due |-> anchor + After[0], anchor |-> anchor]]

\* INSERT ... ON CONFLICT DO NOTHING on the occurrence key.
Inserted(o, anchor) ==
    IF runs[o].state = "none"
      THEN [runs EXCEPT ![o] = [state |-> "armed", step |-> 0, rep |-> 0,
                                due |-> anchor + After[0], anchor |-> anchor]]
      ELSE runs

\* History only: the insert found the ticket settled, or being settled.
NoteEscape(o) ==
    escaped' = IF runs[o].state = "none" /\ (ticket.cat \in Settled \/ desk.pc = "settling")
                 THEN escaped \union {o} ELSE escaped

-----------------------------------------------------------------------------
(* Requests on the ticket *)

\* The bound on requests and faults.
Event == events < MaxEvents /\ events' = events + 1

\* An edit under the ticket's lock.  A new priority raises the ladder's event
\* in the same transaction, with the new priority as the occurrence; no other
\* ladder looks at the priority.
Update(urgency, stop) ==
    /\ Event
    /\ TicketFree
    /\ ticket.cat \in {"open", "resolved"}
    /\ ladder.trigger = "priority" \/ urgency = ticket.urgency
    /\ ticket' = [ticket EXCEPT !.updatedAt = now, !.urgency = urgency, !.stop = stop]
    /\ IF /\ ladder.trigger = "priority"
          /\ urgency # ticket.urgency
          /\ MayArm(ticket')
         THEN runs' = Inserted(urgency, now) /\ NoteEscape(urgency)
         ELSE UNCHANGED <<runs, escaped>>
    /\ UNCHANGED <<now, ladder, fires, pages, pass, desk, cancelling>>

\* A transition that settles the ticket: the ticket is locked, then
\* cancelForTicket reads the ids of the armed runs.
SettleBegin(to) ==
    /\ Event
    /\ TicketFree
    /\ \/ ticket.cat = "open"
       \/ ticket.cat = "resolved" /\ to = "closed"
    /\ desk' = [pc |-> "settling", to |-> to, armed |-> {o \in Occ : Armed(o)}]
    /\ UNCHANGED <<now, ladder, ticket, runs, fires, pages, pass, cancelling, escaped>>

\* Slip: only a terminal category cancels the ladders.
SettleEnd_TerminalOnly ==
    /\ desk.pc = "settling"
    /\ \A o \in desk.armed : RunFree(o)
    /\ runs' = IF desk.to = "closed" THEN CloseAll(desk.armed, "cancelled") ELSE runs
    /\ ticket' = [ticket EXCEPT !.cat = desk.to, !.updatedAt = now]
    /\ desk' = IdleDesk
    /\ UNCHANGED <<now, ladder, fires, pages, pass, cancelling, escaped, events>>

\* cancelForTicket updates the runs by id, whatever became of them meanwhile,
\* once nobody holds their rows; then the transition commits.
SettleEnd ==
    /\ desk.pc = "settling"
    /\ \A o \in desk.armed : RunFree(o)
    /\ runs' = CloseAll(desk.armed, "cancelled")
    /\ ticket' = [ticket EXCEPT !.cat = desk.to, !.updatedAt = now]
    /\ desk' = IdleDesk
    /\ UNCHANGED <<now, ladder, fires, pages, pass, cancelling, escaped, events>>

\* A fire and a transition wait for each other's rows.
Deadlocked(p) == /\ pass[p].pc = "firing"
                 /\ desk.pc = "settling"
                 /\ pass[p].run \in desk.armed

\* PostgreSQL picks the transition as the victim.
SettleAbort ==
    /\ \E p \in Passes : Deadlocked(p)
    /\ desk' = IdleDesk
    /\ UNCHANGED <<now, ladder, ticket, runs, fires, pages, pass, cancelling, escaped, events>>

Reopen ==
    /\ Event
    /\ TicketFree
    /\ ticket.cat = "resolved"
    /\ ticket' = [ticket EXCEPT !.cat = "open", !.updatedAt = now]
    /\ UNCHANGED <<now, ladder, runs, fires, pages, pass, desk, cancelling, escaped>>

\* A soft delete cancels no run: the next fire finds the ticket gone.
Remove ==
    /\ Event
    /\ TicketFree
    /\ ticket.cat # "gone"
    /\ ticket' = [ticket EXCEPT !.cat = "gone", !.updatedAt = now]
    /\ UNCHANGED <<now, ladder, runs, fires, pages, pass, desk, cancelling, escaped>>

\* cancelRun reads the run without a lock, then updates it by id.
CancelRead(o) ==
    /\ Event
    /\ cancelling = {}
    /\ Armed(o)
    /\ cancelling' = {o}
    /\ UNCHANGED <<now, ladder, ticket, runs, fires, pages, pass, desk, escaped>>

CancelWrite(o) ==
    /\ o \in cancelling
    /\ RunFree(o)
    /\ runs' = CloseAll({o}, "cancelled")
    /\ cancelling' = cancelling \ {o}
    /\ UNCHANGED <<now, ladder, ticket, fires, pages, pass, desk, escaped, events>>

\* The configuration publishes the ladder again: enabled or not, longer or shorter.
Republish(enabled, steps) ==
    /\ Event
    /\ ladder' = [ladder EXCEPT !.enabled = enabled, !.steps = steps]
    /\ ladder' # ladder
    /\ UNCHANGED <<now, ticket, runs, fires, pages, pass, desk, cancelling, escaped>>

-----------------------------------------------------------------------------
(* A sweep: sweepStateLadders, then sweepDueSteps *)

Goto(p, pc) == pass' = [pass EXCEPT ![p].pc = pc]

\* One read of the silent tickets and of the runs that exist for them.
Silent == /\ ladder.trigger = "no_update"
          /\ ladder.enabled /\ ladder.steps > 0
          /\ ticket.cat = "open"
          /\ ticket.updatedAt + After[0] <= now

StaleArmed == \E o \in Occ : o # ticket.updatedAt /\ Armed(o)
Known      == runs[ticket.updatedAt].state # "none"
\* Slip: the occurrence already known is skipped before the stale run is looked for.
Swept_KnownFirst == Silent /\ ~Known
Swept      == Silent /\ (StaleArmed \/ ~Known)

SweepRead(p) ==
    /\ pass[p].pc = "idle"
    /\ Swept
    /\ pass' = [pass EXCEPT ![p] = [IdlePass EXCEPT !.pc = "silent", !.at = now,
                                      !.ref = ticket.updatedAt,
                                      !.known = Known, !.stale = StaleArmed]]
    /\ UNCHANGED <<now, ladder, ticket, runs, fires, pages, desk, cancelling, escaped, events>>

\* One UPDATE of the runs still armed for another occurrence.
Supersede(p) ==
    /\ pass[p].pc = "silent"
    /\ LET others == {o \in Occ \ {pass[p].ref} : Armed(o)}
       IN  IF pass[p].stale
             THEN /\ \A o \in others : RunFree(o)
                  /\ runs' = CloseAll(others, "cancelled")
             ELSE UNCHANGED runs
    /\ Goto(p, IF pass[p].known THEN "listing" ELSE "arming")
    /\ UNCHANGED <<now, ladder, ticket, fires, pages, desk, cancelling, escaped, events>>

\* arm() on the bare connection: its reads and its insert are not one transaction.
ArmRead(p) ==
    /\ pass[p].pc = "arming"
    /\ Goto(p, IF MayArm(ticket) THEN "inserting" ELSE "listing")
    /\ UNCHANGED <<now, ladder, ticket, runs, fires, pages, desk, cancelling, escaped, events>>

ArmInsert(p) ==
    /\ pass[p].pc = "inserting"
    /\ runs' = Inserted(pass[p].ref, pass[p].ref)
    /\ NoteEscape(pass[p].ref)
    /\ Goto(p, "listing")
    /\ UNCHANGED <<now, ladder, ticket, fires, pages, desk, cancelling, events>>

\* The list of due runs, at the clock the pass began with.  A pass that lists
\* nothing has changed nothing and is over; so is one that is through its list.
Listing(at, listed) == IF listed = {} THEN IdlePass
                       ELSE [IdlePass EXCEPT !.pc = "due", !.at = at, !.listed = listed]

ListDue(p) ==
    /\ \/ pass[p].pc = "listing"
       \/ pass[p].pc = "idle" /\ ~Swept
    /\ LET at == IF pass[p].pc = "idle" THEN now ELSE pass[p].at
       IN  pass' = [pass EXCEPT ![p] =
                       Listing(at, {o \in Occ : Armed(o) /\ runs[o].due <= at})]
    /\ UNCHANGED <<now, ladder, ticket, runs, fires, pages, desk, cancelling, escaped, events>>

Unlist(p, o) == pass' = [pass EXCEPT ![p] = Listing(@.at, @.listed \ {o})]

\* Slip: the due instant the sweep listed is not read again under the lock.
StillDue_AsListed(p, o) == Armed(o)

\* fireDueStep, from the lock to the claim.  Every reason not to fire is read again.
StillDue(p, o) == Armed(o) /\ runs[o].due <= pass[p].at

\* The reason to close the run instead of firing it, in the order of the code.
ClosingState(o) ==
    CASE ~ladder.enabled              -> "cancelled"
      [] runs[o].step >= ladder.steps -> "completed"
      [] ticket.cat = "gone"          -> "cancelled"
      [] ticket.cat = "closed"        -> "stopped"
      [] ticket.stop                  -> "stopped"
      [] OTHER                        -> "none"

FireSkip(p, o) ==
    /\ pass[p].pc = "due" /\ o \in pass[p].listed
    /\ RunFree(o)
    /\ ~StillDue(p, o)
    /\ Unlist(p, o)
    /\ UNCHANGED <<now, ladder, ticket, runs, fires, pages, desk, cancelling, escaped, events>>

FireClose(p, o) ==
    /\ pass[p].pc = "due" /\ o \in pass[p].listed
    /\ RunFree(o)
    /\ StillDue(p, o)
    /\ ClosingState(o) # "none"
    /\ runs' = CloseAll({o}, ClosingState(o))
    /\ Unlist(p, o)
    /\ UNCHANGED <<now, ladder, ticket, fires, pages, desk, cancelling, escaped, events>>

FireBegin(p, o) ==
    /\ pass[p].pc = "due" /\ o \in pass[p].listed
    /\ RunFree(o)
    /\ StillDue(p, o)
    /\ ClosingState(o) = "none"
    /\ pass' = [pass EXCEPT ![p].pc = "firing", ![p].run = o,
                            ![p].steps = ladder.steps]
    /\ UNCHANGED <<now, ladder, ticket, runs, fires, pages, desk, cancelling, escaped, events>>

\* advanceCursor: another repeat counted from this pass, else the next rung
\* counted from the anchor, else the run is complete.  "steps" is the length
\* of the ladder the transaction has read.
Advanced(run, steps, at) ==
    IF run.rep + 1 < Repeats[run.step]
      THEN [run EXCEPT !.rep = @ + 1, !.due = at + After[run.step]]
    ELSE IF run.step + 1 < steps
      THEN [run EXCEPT !.step = @ + 1, !.rep = 0, !.due = run.anchor + After[run.step + 1]]
    ELSE Closed(run, "completed")

\* The commit of a fire: the claim, what it delivers, the cursor.
\* tell = FALSE is a rung with nobody to tell, or a delivery whose error was
\* caught: it keeps its claim and is not retried.
FireEnd(p, tell) ==
    LET o     == pass[p].run
        claim == <<o, runs[o].step, runs[o].rep>>
        won   == claim \notin fires
    IN  /\ pass[p].pc = "firing"
        /\ tell => TicketFree
        /\ fires' = fires \union {claim}
        /\ pages' = IF won /\ tell
                      THEN [pages EXCEPT ![o] = Append(@, [step |-> runs[o].step,
                                                           rep  |-> runs[o].rep,
                                                           at   |-> pass[p].at])]
                      ELSE pages
        /\ ticket' = IF won /\ tell /\ ladder.touches /\ ticket.cat # "gone"
                       THEN [ticket EXCEPT !.updatedAt = now] ELSE ticket
        /\ runs' = [runs EXCEPT ![o] = Advanced(@, pass[p].steps, pass[p].at)]
        /\ Unlist(p, o)
        /\ UNCHANGED <<now, ladder, desk, cancelling, escaped, events>>

\* The transaction is the victim of a deadlock: it leaves nothing behind, the
\* pass goes on, and the rung is due again on the next one.
FireAbort(p) ==
    /\ Deadlocked(p)
    /\ Unlist(p, pass[p].run)
    /\ UNCHANGED <<now, ladder, ticket, runs, fires, pages, desk, cancelling, escaped, events>>

\* An SQL error inside the transaction rolls it back the same way.
FireError(p) ==
    /\ pass[p].pc = "firing"
    /\ Event
    /\ Unlist(p, pass[p].run)
    /\ UNCHANGED <<now, ladder, ticket, runs, fires, pages, desk, cancelling, escaped>>

\* The process dies anywhere in a pass; an open transaction dies with it.
Crash(p) ==
    /\ pass[p].pc # "idle"
    /\ Event
    /\ pass' = [pass EXCEPT ![p] = IdlePass]
    /\ UNCHANGED <<now, ladder, ticket, runs, fires, pages, desk, cancelling, escaped>>

AdvanceClock ==
    /\ now < MaxNow
    /\ now' = now + 1
    /\ UNCHANGED <<ladder, ticket, runs, fires, pages, pass, desk, cancelling, escaped, events>>

-----------------------------------------------------------------------------
(* Next *)

PassStep(p) ==
    \/ SweepRead(p) \/ Supersede(p) \/ ArmRead(p) \/ ArmInsert(p) \/ ListDue(p)
    \/ \E o \in Occ : FireSkip(p, o) \/ FireClose(p, o) \/ FireBegin(p, o)
    \/ \E tell \in BOOLEAN : FireEnd(p, tell)
    \/ FireAbort(p)

DeskStep == SettleEnd \/ SettleAbort

Next ==
    \/ \E p \in Passes : PassStep(p) \/ FireError(p) \/ Crash(p)
    \/ DeskStep
    \/ \E urgency \in Urgencies, stop \in BOOLEAN : Update(urgency, stop)
    \/ \E to \in Settled : SettleBegin(to)
    \/ Reopen \/ Remove
    \/ \E o \in Occ : CancelRead(o) \/ CancelWrite(o)
    \/ \E enabled \in BOOLEAN, steps \in 1..MaxSteps : Republish(enabled, steps)
    \/ AdvanceClock

Spec == Init /\ [][Next]_vars

Fairness == /\ \A p \in Passes : WF_vars(PassStep(p))
            /\ WF_vars(DeskStep)

\* The ticker re-arms itself after every pass and a transaction ends by itself.
FairSpec == Spec /\ Fairness

-----------------------------------------------------------------------------
(* Properties *)

TypeOK ==
    /\ now \in 0..MaxNow
    /\ ladder \in [trigger : {"no_update", "priority"}, enabled : BOOLEAN,
                   steps : 1..MaxSteps, touches : BOOLEAN]
    /\ ticket \in [cat : {"open", "resolved", "closed", "gone"}, updatedAt : 0..MaxNow,
                   urgency : Urgencies, stop : BOOLEAN]
    /\ runs \in [Occ -> [state : {"none", "armed"} \union ClosedStates, step : Steps,
                         rep : Nat, due : Nat \union {NoDue}, anchor : 0..MaxNow]]
    /\ fires \in SUBSET (Occ \X Steps \X Nat)
    /\ pages \in [Occ -> Seq([step : Steps, rep : Nat, at : 0..MaxNow])]
    /\ pass \in [Passes -> [pc : {"idle", "silent", "arming", "inserting", "listing", "due",
                                  "firing"},
                            at : 0..MaxNow, ref : Occ, known : BOOLEAN, stale : BOOLEAN,
                            listed : SUBSET Occ, run : Occ, steps : 0..MaxSteps]]
    /\ desk \in [pc : {"idle", "settling"}, to : {"open"} \union Settled, armed : SUBSET Occ]
    /\ cancelling \in SUBSET Occ
    /\ escaped \in SUBSET Occ
    /\ events \in 0..MaxEvents

Rungs == UNION {[step : {s}, rep : 0..(Repeats[s] - 1)] : s \in Steps}

\* What the person who is paged knows of the runs and of the pages.
Life == [o \in Occ |-> CASE runs[o].state = "none"  -> "unarmed"
                         [] runs[o].state = "armed" -> "armed"
                         [] OTHER                   -> "closed"]
Told == [o \in Occ |-> [i \in DOMAIN pages[o] |->
                           [step |-> pages[o][i].step, rep |-> pages[o][i].rep]]]

\* What the service promises them: see EscalationPromise.
Promise == INSTANCE EscalationPromise WITH life <- Life, told <- Told

\* Overlapping sweeps, cancellations, deadlocks and crashes notwithstanding,
\* every occurrence is armed at most once, its rungs are announced in order and
\* once each, and nothing is announced for a run that is no longer armed.
PromiseKept == Promise!Spec

Spent(o)    == {[step |-> c[2], rep |-> c[3]] : c \in {f \in fires : f[1] = o}}
Passed(run) == {g \in Rungs : Promise!Before(g, run)}
Cursor(run) == [step |-> run.step, rep |-> run.rep]

\* The two records of how far a ladder has climbed agree: the claims in
\* escalation_fires are exactly the rungs before the cursor of
\* escalation_runs, plus the last one once the run is closed.  No rung is
\* skipped and none is claimed that the cursor has not reached.
CursorMatchesClaims ==
    \A o \in Occ :
        /\ Passed(runs[o]) \subseteq Spent(o)
        /\ Spent(o) \subseteq Passed(runs[o]) \union {Cursor(runs[o])}
        /\ Armed(o) => Cursor(runs[o]) \notin Spent(o)

\* Whoever was paged was paged under a claim: a rolled back fire leaves no page.
PagesAreClaimed ==
    \A o \in Occ : \A i \in DOMAIN pages[o] : Cursor(pages[o][i]) \in Spent(o)

\* A run is due exactly while it is armed: one that is armed with no due
\* instant would never be listed again, and a write that lands after the run
\* was closed would give it one back.
DueWhileArmed == \A o \in Occ : (runs[o].due # NoDue) <=> Armed(o)

\* No rung is announced before its offset from the anchor has passed, nor a
\* repeat before its interval from the announcement it repeats.
NeverEarly ==
    \A o \in Occ : \A i \in DOMAIN pages[o] :
        LET page == pages[o][i]
        IN  /\ page.at >= runs[o].anchor + After[page.step]
            /\ i > 1 /\ pages[o][i - 1].step = page.step
                 => page.at >= pages[o][i - 1].at + After[page.step]

\* A ladder is climbed rung by rung, on time, each under its claim, while it is
\* armed and not a step further.
ClimbIsAccounted ==
    /\ TypeOK
    /\ CursorMatchesClaims
    /\ PagesAreClaimed
    /\ DueWhileArmed
    /\ NeverEarly

\* A settled ticket has no armed run, except one whose arming overlapped or
\* followed the settling transition (arm() accepts a resolved ticket, and the
\* sweep's insert is not in the transaction that read the ticket).
SettledIsCancelled ==
    ticket.cat \in Settled /\ TicketFree
        => \A o \in Occ : Armed(o) => o \in escaped

\* Nothing lingers.  A run with a rung due fires it, and the ones due after it,
\* or is closed; and while the ticket stays silent a run armed for an earlier
\* silence is superseded, also when two sweeps armed their occurrences in the
\* wrong order.
Due(o)   == Armed(o) /\ runs[o].due <= now
Stale(o) == Silent /\ o # ticket.updatedAt /\ Armed(o)
NothingLingers == \A o \in Occ : (Due(o) \/ Stale(o)) ~> ~(Due(o) \/ Stale(o))
=============================================================================
