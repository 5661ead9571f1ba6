------------------------------ MODULE SlaClock ------------------------------
(***************************************************************************)
(* One SLA clock of one ticket, server/src/services/sla.service.ts: the     *)
(* row of sla_instances (a cache), its sla_ledger (the truth), the timer it *)
(* arms, the handlers that move it and the ticker that fires it.            *)
(*                                                                          *)
(* A transaction is two steps.  It loads the row and the ledger, without a  *)
(* lock, at the instant the handler will stamp; later it writes, what is    *)
(* committed in between being visible to what it re-reads after its first   *)
(* UPDATE only.  A unit of time is a millisecond; the world moves by Step.  *)
(***************************************************************************)
EXTENDS Integers, Sequences, FiniteSets, SequencesExt

CONSTANTS
    Requests,      \* request transactions that may be open at one time
    Ticker,        \* the ticker's transaction
    Overlap,       \* may transactions overlap?
    Horizon, Step, \* bound: the last instant, and how far apart instants are
    MaxOps,        \* bound: requests served
    MaxStops,      \* bound: restarts of the ticker
    Open,          \* working milliseconds of the target's calendar
    Reach,         \* bound: how far a calendar is scanned
    Calendars,     \* the working milliseconds of each outside_hours calendar
    Outcome,       \* what a status category does: run, pause, met or cancel
    FirstCategory,
    Budgets,       \* milliseconds per priority
    FirstPriority,
    Warns,         \* percentages of the budget that are warned of
    Policies       \* the targets and tickets a clock may be started for

None == -1
Categories == DOMAIN Outcome
Priorities == DOMAIN Budgets
Actors == Requests \cup {Ticker}

ASSUME SlaAssumption ==
    /\ Ticker \notin Requests
    /\ Overlap \in BOOLEAN
    /\ Step \in Nat \ {0, 1} /\ Horizon \in Nat /\ Reach \in Nat
    /\ MaxOps \in Nat /\ MaxStops \in Nat
    /\ Outcome \in [Categories -> {"run", "pause", "met", "cancel"}]
    /\ FirstCategory \in Categories /\ Outcome[FirstCategory] \in {"run", "pause"}
    /\ Budgets \in [Priorities -> Nat \ {0}] /\ FirstPriority \in Priorities
    /\ Warns \subseteq 1..99
    /\ \A p \in Policies :
          /\ p.hours \in DOMAIN Calendars
          /\ p.switchMode \in {"restart", "keep_elapsed", "recompute_from_start"}
          /\ p.pauseSources \subseteq {"device_offline", "maintenance_window", "outside_hours"}
          /\ p.stopsOnReply \in BOOLEAN /\ p.grace \in Nat \cup {None}
          \* validateTarget: outside_hours needs a calendar that never closes.
          /\ "outside_hours" \in p.pauseSources => 0..Reach \subseteq Open

VARIABLES
    policy,    \* the target's policy and the ticket's source, fixed at the start
    now,
    ticker,    \* "down", "catchup" (catchUp has not armed yet) or "up"
    category,  \* tickets.status_category
    priority,
    clock,     \* the row of sla_instances and its ledger
    pend,      \* what each open transaction has loaded
    asked,     \* history: the instant of the latest request
    ops, stops

slaVars == <<policy, now, ticker, category, priority, clock, pend, asked, ops, stops>>

Hours        == Calendars[policy.hours]
SwitchMode   == policy.switchMode
PauseSources == policy.pauseSources
\* stopKind is first_response, and not category
StopsOnReply == policy.stopsOnReply
\* the alert auto-resolution window, or None for a ticket of another source
Grace        == policy.grace

-----------------------------------------------------------------------------
(* Calendars: businessMillisBetween, addBusinessMinutesDetailed and         *)
(* remainingAtWarnToRealMs.                                                 *)

Between(from, to) == Cardinality({t \in from..(to - 1) : t \in Open})

Plus(from, n) ==
    IF n <= 0 THEN from
    ELSE CHOOSE t \in (from + 1)..(from + Reach) :
             (t - 1) \in Open /\ Between(from, t) = n

\* The latest instant from which n milliseconds of work are left before due.
Before(due, n) ==
    IF n <= 0 THEN due
    ELSE CHOOSE t \in (due - Reach)..due : t \in Open /\ Between(t, due) = n

\* nextBoundary of the outside_hours calendar, or None.
NextEdge(from) ==
    LET edges == {t \in (from + 1)..(from + Reach) :
                     (t \in Hours) # (from \in Hours)}
    IN  IF edges = {} THEN None ELSE CHOOSE t \in edges : \A u \in edges : t <= u

-----------------------------------------------------------------------------
(* The ledger, in the order readLedger returns it.                          *)

Row(event, at, reason, newDue) ==
    [event |-> event, at |-> at, reason |-> reason, newDue |-> newDue]

\* appendLedger: UNIQUE(instance_id, event, at), a conflict is ignored.
AppendRow(ledger, row) ==
    IF \E r \in ToSet(ledger) : r.event = row.event /\ r.at = row.at
    THEN ledger
    ELSE InsertAt(ledger, 1 + Cardinality({i \in DOMAIN ledger : ledger[i].at <= row.at}), row)

\* replayLedger's state before the first row; `left` is remainingAtPause.
Blank == [elapsed |-> 0, pausedMs |-> 0, pauses |-> {}, due |-> None,
          budget |-> None, left |-> None, cursor |-> 0, finished |-> FALSE]

Advanced(s, to) ==
    IF to <= s.cursor THEN s
    ELSE IF s.pauses = {}
    THEN [s EXCEPT !.elapsed = @ + Between(s.cursor, to), !.cursor = to]
    ELSE [s EXCEPT !.pausedMs = @ + Between(s.cursor, to), !.cursor = to]

Started(s, r) == [s EXCEPT !.due = r.newDue, !.budget = Between(r.at, r.newDue)]

\* What is owed is measured again at every pause that overlaps another.
Paused_EveryReason(s, r) ==
    [s EXCEPT !.pauses = @ \cup {r.reason}, !.left = Between(r.at, s.due)]

Paused(s, r) ==
    [s EXCEPT !.pauses = @ \cup {r.reason},
              !.left = IF s.pauses = {} THEN Between(r.at, s.due) ELSE @]

Resumed(s, r) ==
    LET rest == s.pauses \ {r.reason}
    IN  IF rest = {} /\ s.left # None
        THEN [s EXCEPT !.pauses = rest, !.due = Plus(r.at, s.left), !.left = None]
        ELSE [s EXCEPT !.pauses = rest]

Switched(s, r) ==
    [s EXCEPT !.due = r.newDue, !.budget = s.elapsed + Between(r.at, r.newDue),
              !.left = IF s.pauses = {} THEN @ ELSE Between(r.at, r.newDue)]

\* One row; `breach` rows change nothing.
ReplayRow(s0, r) ==
    IF s0.finished THEN s0
    ELSE LET s == Advanced(s0, r.at)
         IN  CASE r.event = "start"         -> Started(s, r)
               [] r.event = "pause"         -> Paused(s, r)
               [] r.event = "resume"        -> Resumed(s, r)
               [] r.event = "target_switch" -> Switched(s, r)
               [] r.event \in {"met", "cancel"} -> [s EXCEPT !.finished = TRUE]
               [] r.event = "breach"        -> s

\* The state after each row of the ledger, those stamped after upTo left out.
States(ledger, upTo) ==
    LET state[n \in 0..Len(ledger)] ==
            IF n = 0 THEN Blank
            ELSE IF ledger[n].at > upTo THEN state[n - 1]
            ELSE ReplayRow(state[n - 1], ledger[n])
    IN  state

Replay(ledger, upTo) ==
    LET s == States(ledger, upTo)[Len(ledger)]
    IN  IF s.finished THEN s ELSE Advanced(s, upTo)

-----------------------------------------------------------------------------
(* The timer wheel: computeNextTimer and rearm.                             *)

Live == {"running", "paused"}

BreachTimers(c, s, from) ==
    IF s.pauses = {} /\ c.breached = None /\ s.due > from
    THEN {[at |-> s.due, kind |-> "breach"]} ELSE {}

WarnAt(s, percent) == Before(s.due, (s.budget * (100 - percent)) \div 100)

\* The first threshold, in ascending order, that has not been warned of.
WarnTimers(c, s, from) ==
    LET unfired == {p \in Warns : c.warned = None \/ WarnAt(s, p) > c.warned}
    IN  IF s.pauses # {} \/ s.budget <= 0 \/ unfired = {} THEN {}
        ELSE LET first == CHOOSE p \in unfired : \A q \in unfired : p <= q
                 at    == WarnAt(s, first)
             IN  {[at |-> IF at <= from THEN from ELSE at, kind |-> "warn"]}

EdgeTimers(s, from) ==
    LET open == from \in Hours
        held == "outside_hours" \in s.pauses
    IN  IF "outside_hours" \notin PauseSources THEN {}
        ELSE IF ~open /\ ~held THEN {[at |-> from, kind |-> "boundary"]}
        ELSE IF open /\ held THEN {[at |-> from, kind |-> "resume"]}
        ELSE IF NextEdge(from) = None THEN {}
        ELSE {[at |-> NextEdge(from), kind |-> IF open THEN "boundary" ELSE "resume"]}

Rank == [breach |-> 1, warn |-> 2, boundary |-> 3, resume |-> 3]

NextTimer(c, s, from) ==
    LET timers == IF c.status \notin Live THEN {}
                  ELSE BreachTimers(c, s, from) \cup WarnTimers(c, s, from)
                           \cup EdgeTimers(s, from)
    IN  IF timers = {} THEN [at |-> None, kind |-> "none"]
        ELSE CHOOSE t \in timers : \A u \in timers :
                 t.at < u.at \/ (t.at = u.at /\ Rank[t.kind] <= Rank[u.kind])

Armed(c, timer) == [c EXCEPT !.timer = timer.at, !.kind = timer.kind]

Rearm(c, from) == Armed(c, NextTimer(c, Replay(c.ledger, from), from))

-----------------------------------------------------------------------------
(* The helpers that move a clock.  c is the committed row and ledger, l the *)
(* ones the transaction loaded, and s the replay of l's ledger.             *)

Pause(c, l, s, reason, at) ==
    IF l.status \notin Live \/ reason \in s.pauses THEN c
    ELSE Rearm([c EXCEPT !.ledger = AppendRow(@, Row("pause", at, reason, None)),
                         !.status = "paused", !.paused = s.pausedMs], at)

Owed(s, at) == IF s.left # None THEN s.left ELSE Between(at, s.due)

\* No timer is armed for the deadline that was pushed back.
Resume_NoRearm(c, l, s, reason, at) ==
    IF l.status # "paused" \/ reason \notin s.pauses THEN c
    ELSE LET runs == Cardinality(s.pauses) <= 1
             due  == Plus(at, Owed(s, at))
             row  == Row("resume", at, reason, IF runs THEN due ELSE None)
         IN  [c EXCEPT !.ledger = AppendRow(@, row), !.paused = s.pausedMs,
                       !.status = IF runs THEN "running" ELSE @,
                       !.due = IF runs THEN due ELSE @]

Resume(c, l, s, reason, at) ==
    IF l.status # "paused" \/ reason \notin s.pauses THEN c
    ELSE LET runs == Cardinality(s.pauses) <= 1
             due  == Plus(at, Owed(s, at))
             row  == Row("resume", at, reason, IF runs THEN due ELSE None)
         IN  Rearm([c EXCEPT !.ledger = AppendRow(@, row), !.paused = s.pausedMs,
                             !.status = IF runs THEN "running" ELSE @,
                             !.due = IF runs THEN due ELSE @], at)

\* A clock that is already finished or breached is finished again.
Finish_Any(c, l, s, status, event, at) ==
    [c EXCEPT !.ledger = AppendRow(@, Row(event, at, None, None)),
              !.status = status, !.paused = s.pausedMs,
              !.timer = None, !.kind = "none"]

\* meetInstance and cancelInstance.
Finish(c, l, s, status, event, at) ==
    IF l.status \notin Live THEN c
    ELSE [c EXCEPT !.ledger = AppendRow(@, Row(event, at, None, None)),
                   !.status = status, !.paused = s.pausedMs,
                   !.timer = None, !.kind = "none"]

Meet(c, l, s, at)   == Finish(c, l, s, "met", "met", at)
Cancel(c, l, s, at) == Finish(c, l, s, "cancelled", "cancel", at)

Breach(c, l, s, at) ==
    IF l.breached # None \/ l.status \notin Live THEN c
    ELSE [c EXCEPT !.ledger = AppendRow(@, Row("breach", at, None, s.due)),
                   !.status = "breached", !.breached = at]

-----------------------------------------------------------------------------
(* The handlers, as functions of what was loaded and what is committed.     *)

Replayed(l, at) == Replay(l.ledger, at)

\* isAlertAutoResolution
AutoResolved(at) == Grace # None /\ at <= Grace

\* onCategoryChanged; the second pause or resume loads the clock again.
ChangeCategory(c, l, s, from, to, at) ==
    CASE Outcome[to] = "run" -> Resume(c, l, s, from, at)
      [] Outcome[to] = "pause" ->
            LET d == Pause(c, l, s, to, at)
            IN  IF from \in s.pauses THEN Resume(d, d, Replayed(d, at), from, at) ELSE d
      [] Outcome[to] = "met" /\ ~StopsOnReply /\ ~AutoResolved(at) -> Meet(c, l, s, at)
      [] OTHER -> Cancel(c, l, s, at)

\* onPriorityChanged
SwitchedDue(s, to, at) ==
    CASE SwitchMode = "restart" -> Plus(at, Budgets[to])
      [] SwitchMode = "keep_elapsed" -> Plus(at, Budgets[to] - s.elapsed)
      [] SwitchMode = "recompute_from_start" -> Plus(0, Budgets[to])

ChangePriority(c, l, s, to, at) ==
    IF l.status \notin Live THEN c
    ELSE LET due == SwitchedDue(s, to, at)
         IN  Rearm([c EXCEPT !.ledger = AppendRow(@, Row("target_switch", at, None, due)),
                             !.due = due, !.warned = None], at)

\* onCiStateChanged: the device, then (loaded again) the maintenance window.
ChangeDevice(c, l, s, ci, at) ==
    LET off  == "device_offline"
        mw   == "maintenance_window"
        d    == IF ci = "offline" \/ ci = "offline_in_window"
                THEN Pause(c, l, s, off, at) ELSE Resume(c, l, s, off, at)
        t    == Replayed(d, at)
    IN  IF l.status \notin Live \/ off \notin PauseSources THEN c
        ELSE IF ci = "unknown" \/ mw \notin PauseSources THEN d
        ELSE IF ci = "in_window" \/ ci = "offline_in_window"
        THEN Pause(d, d, t, mw, at) ELSE Resume(d, d, t, mw, at)

\* One timer of advanceInstance.  s is the replay at upTo, not at the timer.
Fire(c, l, upTo) ==
    LET at == l.timer
        s  == Replay(l.ledger, upTo)
        d  == CASE l.kind = "breach"   -> Breach(c, l, s, at)
                [] l.kind = "warn"     -> [c EXCEPT !.warned = at]
                [] l.kind = "boundary" -> Pause(c, l, s, "outside_hours", at)
                [] l.kind = "resume"   -> Resume(c, l, s, "outside_hours", at)
    IN  Rearm(d, at + 1)

IsDue(c, upTo) == c.status \in Live /\ c.timer # None /\ c.timer <= upTo

\* advanceInstance: every timer up to upTo, each at its own instant.  A timer
\* re-armed from at + 1 is later than at, so upTo + 1 rounds are enough.
AdvanceInstance(c, l, upTo) ==
    LET fired[n \in 0..upTo] ==
            IF n = 0 THEN Fire(c, l, upTo)
            ELSE LET d == fired[n - 1] IN IF IsDue(d, upTo) THEN Fire(d, d, upTo) ELSE d
        last == fired[upTo]
    IN  IF last.status \in Live THEN last ELSE Armed(last, [at |-> None, kind |-> "none"])

-----------------------------------------------------------------------------
(* startInstancesForTicket at instant 0.  A pausing category is recorded one *)
(* millisecond later, and the timer is armed from a replay that ends before. *)

FirstClock ==
    LET due    == Plus(0, Budgets[FirstPriority])
        pauses == Outcome[FirstCategory] = "pause"
        start  == <<Row("start", 0, None, due)>>
        ledger == IF pauses THEN AppendRow(start, Row("pause", 1, FirstCategory, None)) ELSE start
    IN  Rearm([status |-> IF pauses THEN "paused" ELSE "running", due |-> due,
               paused |-> 0, breached |-> None, warned |-> None, timer |-> None,
               kind |-> "none", ledger |-> ledger], 0)

Idle == [op |-> "idle"]

SlaInit ==
    /\ policy \in Policies
    /\ now = 0
    /\ ticker = "down"
    /\ category = FirstCategory
    /\ priority = FirstPriority
    /\ clock = FirstClock
    /\ pend = [a \in Actors |-> Idle]
    /\ asked = 0 /\ ops = 0 /\ stops = 0

Quiet == \A a \in Actors : pend[a] = Idle

\* A transaction begins: it takes the instant and loads the clock.
Load(a, op, arg) ==
    /\ pend[a] = Idle
    /\ Overlap \/ Quiet
    /\ pend' = [pend EXCEPT ![a] = [op |-> op, arg |-> arg, at |-> now, seen |-> clock]]
    /\ UNCHANGED <<policy, now, category, priority, clock>>

\* Handlers of ticket.service hold lockTicket; the others hold nothing.
UnderTicketLock == {"category", "priority", "reply", "cancel"}

\* Bound: no two requests are stamped with the same millisecond.
Ask(a, op, arg) ==
    /\ asked < now /\ asked' = now
    /\ ops < MaxOps
    /\ ops' = ops + 1
    /\ op \in UnderTicketLock => \A b \in Requests : pend[b].op \notin UnderTicketLock
    /\ Load(a, op, arg)
    /\ UNCHANGED <<ticker, stops>>

CiStates == {"online", "offline", "in_window", "offline_in_window", "unknown"}

AskCategory(a) == \E to \in Categories \ {category} : Ask(a, "category", to)
AskPriority(a) == \E to \in Priorities \ {priority} : Ask(a, "priority", to)
AskReply(a)    == Ask(a, "reply", "first")
AskCancel(a)   == Ask(a, "cancel", "ticket")
AskDevice(a)   == PauseSources \ {"outside_hours"} # {} /\ \E ci \in CiStates : Ask(a, "device", ci)
AskManual(a)   == \E op \in {"pause", "resume"} : Ask(a, op, "manual")

\* The clock after request p, a transaction that has loaded p.seen at p.at.
Served(p) ==
    LET l == p.seen
        s == Replayed(l, p.at)
    IN  CASE p.op = "category" -> ChangeCategory(clock, l, s, category, p.arg, p.at)
          [] p.op = "priority" -> ChangePriority(clock, l, s, p.arg, p.at)
          [] p.op = "reply"    -> IF StopsOnReply /\ ~AutoResolved(p.at)
                                  THEN Meet(clock, l, s, p.at) ELSE clock
          [] p.op = "cancel"   -> Cancel(clock, l, s, p.at)
          [] p.op = "device"   -> ChangeDevice(clock, l, s, p.arg, p.at)
          [] p.op = "pause"    -> Pause(clock, l, s, "manual", p.at)
          [] p.op = "resume"   -> Resume(clock, l, s, "manual", p.at)

Serve(a) ==
    /\ pend[a].op # "idle"
    /\ clock' = Served(pend[a])
    /\ category' = IF pend[a].op = "category" THEN pend[a].arg ELSE category
    /\ priority' = IF pend[a].op = "priority" THEN pend[a].arg ELSE priority
    /\ pend' = [pend EXCEPT ![a] = Idle]
    /\ UNCHANGED <<policy, now, ticker, asked, ops, stops>>

-----------------------------------------------------------------------------
(* The ticker.                                                              *)

\* The flag `running` outlives a stop, and start() returns at once.
StartTicker_StillRunning ==
    /\ ticker = "down" /\ stops = 0
    /\ ticker' = "catchup"
    /\ UNCHANGED <<policy, now, category, priority, clock, pend, asked, ops, stops>>

StartTicker ==
    /\ ticker = "down"
    /\ ticker' = "catchup"
    /\ UNCHANGED <<policy, now, category, priority, clock, pend, asked, ops, stops>>

\* The process dies; its open transaction rolls back.
StopTicker ==
    /\ ticker # "down" /\ stops < MaxStops
    /\ stops' = stops + 1
    /\ ticker' = "down"
    /\ pend' = [pend EXCEPT ![Ticker] = Idle]
    /\ UNCHANGED <<policy, now, category, priority, clock, asked, ops>>

\* catchUp: a live clock without a timer is armed, from now.
LoadUnarmed ==
    /\ ticker = "catchup"
    /\ clock.status \in Live /\ clock.timer = None
    /\ Load(Ticker, "arm", "unarmed")
    /\ UNCHANGED <<ticker, asked, ops, stops>>

ArmUnarmed ==
    /\ pend[Ticker].op = "arm"
    /\ LET p == pend[Ticker]
       IN  clock' = Armed(clock, NextTimer(p.seen, Replay(p.seen.ledger, p.at), p.at))
    /\ pend' = [pend EXCEPT ![Ticker] = Idle]
    /\ ticker' = "up"
    /\ UNCHANGED <<policy, now, category, priority, asked, ops, stops>>

NothingUnarmed ==
    /\ ticker = "catchup" /\ pend[Ticker] = Idle
    /\ clock.status \notin Live \/ clock.timer # None
    /\ ticker' = "up"
    /\ UNCHANGED <<policy, now, category, priority, clock, pend, asked, ops, stops>>

\* tick: claimDueTimers, and advanceInstance's first load.
LoadDue ==
    /\ ticker = "up"
    /\ IsDue(clock, now)
    /\ Load(Ticker, "tick", "due")
    /\ UNCHANGED <<ticker, asked, ops, stops>>

Tick ==
    /\ pend[Ticker].op = "tick"
    /\ clock' = AdvanceInstance(clock, pend[Ticker].seen, pend[Ticker].at)
    /\ pend' = [pend EXCEPT ![Ticker] = Idle]
    /\ UNCHANGED <<policy, now, ticker, category, priority, asked, ops, stops>>

Elapse ==
    /\ now + Step <= Horizon
    /\ now' = now + Step
    /\ UNCHANGED <<policy, ticker, category, priority, clock, pend, asked, ops, stops>>

SlaNext ==
    \/ \E a \in Requests :
          \/ AskCategory(a) \/ AskPriority(a) \/ AskReply(a) \/ AskCancel(a)
          \/ AskDevice(a) \/ AskManual(a) \/ Serve(a)
    \/ StartTicker \/ StopTicker \/ LoadUnarmed \/ ArmUnarmed \/ NothingUnarmed
    \/ LoadDue \/ Tick \/ Elapse

SlaSpec == SlaInit /\ [][SlaNext]_slaVars

\* A restarted ticker, the timers that are due, an open transaction and time
\* itself all get on.  No request is obliged to come.  Weak fairness of Tick,
\* ArmUnarmed and Serve is written with their guards: no open transaction
\* stays open.
SlaFairness ==
    /\ WF_slaVars(StartTicker) /\ WF_slaVars(LoadDue) /\ WF_slaVars(Elapse)
    /\ WF_slaVars(LoadUnarmed) /\ WF_slaVars(NothingUnarmed)
    /\ \A a \in Actors : []<>(pend[a] = Idle)

SlaFairSpec == SlaSpec /\ SlaFairness

-----------------------------------------------------------------------------
(* Properties.                                                              *)

Events == {"start", "pause", "resume", "target_switch", "breach", "met", "cancel"}

SlaTypeOK ==
    /\ policy \in Policies
    /\ now \in 0..Horizon
    /\ ticker \in {"down", "catchup", "up"}
    /\ category \in Categories /\ priority \in Priorities
    /\ clock.status \in {"running", "paused", "met", "breached", "cancelled"}
    /\ clock.due \in Nat /\ clock.paused \in Nat
    /\ {clock.breached, clock.warned, clock.timer} \subseteq Nat \cup {None}
    /\ clock.kind \in DOMAIN Rank \cup {"none"}
    /\ (clock.kind = "none") = (clock.timer = None)
    /\ \A r \in ToSet(clock.ledger) : r.event \in Events /\ r.at \in Nat
    /\ asked \in 0..now /\ ops \in 0..MaxOps /\ stops \in 0..MaxStops

Current == Replay(clock.ledger, now)
Alive   == clock.status \in Live
Runs    == Alive /\ Current.pauses = {}

\* A clock that pauses outside office hours is replayed late, edge by edge, and
\* its rows may then be inserted before those of a request already served.
OnTime == "outside_hours" \notin PauseSources

\* Replaying the ledger reproduces due_at: the row's cached deadline of a live
\* clock is the one its ledger says (verify's first comparison).
DueMatchesLedger == OnTime /\ Alive => clock.due = Current.due

\* The row says paused exactly while the ledger holds a pause that no resume
\* has lifted, and a clock the ledger has finished is not live in the row.
StatusMatchesLedger ==
    OnTime /\ Alive =>
        ~Current.finished /\ (clock.status = "paused" <=> Current.pauses # {})

\* A deadline that is still ahead of a running clock has a timer, no later than
\* the deadline: neither a handler nor a catch-up loses it.  (One millisecond
\* ahead it may: after a warning the timer is sought from the next instant on.)
DeadlineArmed ==
    OnTime /\ Runs /\ clock.breached = None /\ clock.due > now + 1 =>
        clock.timer # None /\ clock.timer <= clock.due

\* The row of sla_instances is a cache of its ledger: status, deadline and timer
\* are the ones a replay of the ledger gives, whatever handlers have patched.
CacheIsLedger ==
    /\ SlaTypeOK
    /\ StatusMatchesLedger
    /\ DueMatchesLedger
    /\ DeadlineArmed

\* Pausing neither forgives time nor charges it, in whatever order overlapping
\* reasons come and go and however late the edges of a calendar are replayed:
\* what has elapsed and what is left are the whole budget, until it is spent.
BudgetConserved ==
    Runs /\ Current.elapsed <= Current.budget =>
        Current.elapsed + Between(now, Current.due) = Current.budget

\* A breach carries the instant it happened at, however late the ticker comes:
\* at that instant the clock ran, and exactly the budget had been spent.
BreachIsExact ==
    \A r \in ToSet(clock.ledger) : r.event = "breach" =>
        LET s == Replay(clock.ledger, r.at)
        IN  s.pauses = {} /\ s.elapsed = s.budget

\* The clock measures the time that counts, no more and no less: what pauses
\* take out of it, and when it says that the budget was spent.
TimeIsConserved == BudgetConserved /\ BreachIsExact

\* A clock that was met, cancelled or breached never changes its outcome.
OutcomeIsFinal == [][clock.status \notin Live => clock'.status = clock.status]_slaVars

\* An armed timer fires or is taken away: a restart of the ticker does not
\* lose it.
TimersFire ==
    (Alive /\ clock.timer # None /\ clock.timer <= now)
        ~> (~Alive \/ clock.timer = None \/ clock.timer > now)

=============================================================================
