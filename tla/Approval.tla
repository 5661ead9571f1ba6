------------------------------- MODULE Approval -------------------------------
(***************************************************************************)
(* The approvals of one definition on one ticket,                           *)
(* server/src/services/approval.service.ts, with the transitions of         *)
(* ticket.service.ts that they block and that cancel them.                  *)
(*                                                                          *)
(* A transaction is two steps: it takes its first row lock and reads, then  *)
(* it takes the locks it still lacks, writes and commits.  Between the two  *)
(* it may wait for another one, and Postgres ends one of two transactions   *)
(* that wait for each other.                                                *)
(***************************************************************************)
EXTENDS Naturals, Sequences, FiniteSets

CONSTANTS
    Users, Groups,
    Members,        \* assignment_groups.member_user_ids
    Specs,          \* what the published definition resolves to, over time
    AllowDelegate,
    Clients,        \* requests that may be open at one time
    Sweeper,        \* the timeout sweep on the escalation ticker
    MaxApprovals,   \* bound: rows of approvals
    MaxOps          \* bound: requests

Modes == {"parallel", "sequential", "quorum"}

Stage == [mode : Modes, quorum : Nat \ {0}, approvers : Seq(Users \cup Groups),
          due : BOOLEAN, onTimeout : {"auto_approve", "auto_reject", "escalate", "hold"}]

ASSUME ApprovalAssumption ==
    /\ Users \cap Groups = {}
    /\ Members \in [Groups -> SUBSET Users]
    /\ AllowDelegate \in BOOLEAN
    /\ Sweeper \notin Clients
    /\ MaxApprovals \in Nat /\ MaxOps \in Nat
    \* startApproval refuses a stage without approvers; resolveApprovers keeps
    \* the first of two equal ones.
    /\ \A spec \in Specs :
         /\ spec \in Seq(Stage) \ {<<>>}
         /\ \A i \in DOMAIN spec :
              /\ spec[i].approvers # <<>>
              /\ \A m, n \in DOMAIN spec[i].approvers :
                    spec[i].approvers[m] = spec[i].approvers[n] => m = n

VARIABLES
    category,   \* tickets.status_category
    approvals,  \* the rows of the definition; `late`: history, see OpenStart
    listed,     \* the step the sweep has read and not handled yet
    tx,         \* the open transaction of each actor
    ops

vars == <<category, approvals, listed, tx, ops>>

Actors == Clients \cup {Sweeper}

Categories == {"open", "resolved", "closed", "cancelled"}
Terminal   == {"closed", "cancelled"}
Settled    == Terminal \cup {"resolved"}

-----------------------------------------------------------------------------
(* computeAggregate.                                                        *)

Live(steps, i) == {k \in DOMAIN steps : steps[k].stage = i /\ steps[k].state # "cancelled"}

Votes(steps, i, state) == Cardinality({k \in Live(steps, i) : steps[k].state = state})

Larger(m, n)  == IF m < n THEN n ELSE m
Smaller(m, n) == IF m < n THEN m ELSE n

Total(spec, steps, i) == Larger(Len(spec[i].approvers), Cardinality(Live(steps, i)))

Required(spec, steps, i) ==
    LET total == Total(spec, steps, i)
    IN  IF spec[i].mode = "quorum" THEN Smaller(spec[i].quorum, total) ELSE total

StageVerdict(spec, steps, i) ==
    LET total    == Total(spec, steps, i)
        required == Required(spec, steps, i)
    IN  CASE Votes(steps, i, "approved") >= required -> "approved"
          [] Votes(steps, i, "approved") < required
             /\ Votes(steps, i, "rejected") > total - required -> "rejected"
          [] OTHER -> "pending"

\* The first stage that is not approved, one past the last when all are.
ActiveStage(spec, steps) ==
    CHOOSE i \in 1..(Len(spec) + 1) :
        /\ i <= Len(spec) => StageVerdict(spec, steps, i) # "approved"
        /\ \A j \in 1..(i - 1) : StageVerdict(spec, steps, j) = "approved"

Verdict(spec, steps) ==
    LET i == ActiveStage(spec, steps)
    IN  IF i > Len(spec) THEN "approved" ELSE StageVerdict(spec, steps, i)

-----------------------------------------------------------------------------
(* materializeStage and advance.                                            *)

NewStep(spec, i, who) ==
    [stage |-> i, who |-> who, state |-> "pending", due |-> spec[i].due, timedOut |-> FALSE]

\* The places of stage i's list whose approvers get a row now: those without
\* one, all of them or, in sequence, up to one more than there are rows.
Asked(spec, steps, i) ==
    LET rows == {k \in DOMAIN steps : steps[k].stage = i}
    IN  {n \in DOMAIN spec[i].approvers :
            /\ spec[i].mode = "sequential" => n <= Cardinality(rows) + 1
            /\ \A k \in rows : steps[k].who # spec[i].approvers[n]}

Nth(places, m) == CHOOSE n \in places : Cardinality({p \in places : p <= n}) = m

Materialize(spec, steps) ==
    LET i     == ActiveStage(spec, steps)
        asked == Asked(spec, steps, i)
    IN  steps \o [m \in 1..Cardinality(asked) |->
                     NewStep(spec, i, spec[i].approvers[Nth(asked, m)])]

Closed(step, state) ==
    [stage |-> step.stage, who |-> step.who, state |-> state,
     due |-> FALSE, timedOut |-> step.timedOut]

Withdraw(steps) ==
    [k \in DOMAIN steps |->
        IF steps[k].state = "pending" THEN Closed(steps[k], "cancelled") ELSE steps[k]]

Round(spec, steps) ==
    IF Verdict(spec, steps) = "pending" THEN Materialize(spec, steps) ELSE steps

\* The loop of advance: one round more than there are stages.
Opened(spec, steps) ==
    LET round[n \in 0..(Len(spec) + 1)] ==
            IF n = 0 THEN steps ELSE Round(spec, round[n - 1])
    IN  round[Len(spec) + 1]

Advanced(spec, steps) ==
    LET opened == Opened(spec, steps)
    IN  IF Verdict(spec, opened) = "pending" THEN opened ELSE Withdraw(opened)

\* approvals.state is recomputed with the steps, never patched.
Projected(spec, late, steps) ==
    [state |-> Verdict(spec, Opened(spec, steps)), spec |-> spec,
     steps |-> Advanced(spec, steps), late |-> late]

NewApproval(spec, late) == Projected(spec, late, <<>>)

-----------------------------------------------------------------------------
(* Transactions and their locks.                                            *)

Idle == [op |-> "idle"]

Pending == {a \in DOMAIN approvals : approvals[a].state = "pending"}

PendingSteps(a) == {k \in DOMAIN approvals[a].steps : approvals[a].steps[k].state = "pending"}

\* Locks: of the ticket, of row a of approvals, of step k of row a.
Ticket == <<0, 0>>
RowOf(a) == <<a, 0>>
StepOf(a, k) == <<a, k>>
PendingStepsOf(a) == {StepOf(a, k) : k \in PendingSteps(a)}

\* What an open transaction has locked.
Holds(c) ==
    CASE tx[c].op \in {"decide", "cancel"} -> {RowOf(tx[c].a)}
      [] tx[c].op = "timeout"              -> {StepOf(tx[c].a, tx[c].k)}
      [] tx[c].op = "transition"           -> {Ticket}
      [] OTHER                             -> {}

\* What it goes on to lock before it commits: journalService.append locks the
\* ticket, and so does the foreign key of a new row of approvals.
Needs(c) ==
    CASE tx[c].op = "decide"     -> {Ticket} \cup PendingStepsOf(tx[c].a)
      [] tx[c].op = "cancel"     -> PendingStepsOf(tx[c].a)
      [] tx[c].op = "timeout"    -> {Ticket, RowOf(tx[c].a)}
      [] tx[c].op = "transition" ->
            IF tx[c].to \notin Settled THEN {}
            ELSE UNION {{RowOf(a)} \cup PendingStepsOf(a) : a \in Pending}
      [] tx[c].op = "start"      -> {Ticket}
      [] OTHER                   -> {}

Free(lock) == \A d \in Actors : lock \notin Holds(d)

WaitsFor(c, d) == c # d /\ Needs(c) \cap Holds(d) # {}

CanFinish(c, op) == tx[c].op = op /\ \A d \in Actors : ~WaitsFor(c, d)

Begin(c, record) ==
    /\ tx[c] = Idle
    /\ ops < MaxOps
    /\ ops' = ops + 1
    /\ tx' = [tx EXCEPT ![c] = record]
    /\ UNCHANGED <<category, approvals, listed>>

End(c) == tx' = [tx EXCEPT ![c] = Idle]

\* Two transactions wait for each other: Postgres ends one of them.
DeadlockVictim(c) ==
    /\ \E d \in Actors : WaitsFor(c, d) /\ WaitsFor(d, c)
    /\ End(c)
    /\ UNCHANGED <<category, approvals, listed, ops>>

-----------------------------------------------------------------------------
(* startApproval from a request: it reads without a lock.                   *)

\* `late`: a row that is committed when its ticket has been settled.
OpenStart(c) ==
    /\ category \notin Terminal
    /\ Pending = {}
    /\ Begin(c, [op |-> "start"])

CommitStart(c) ==
    /\ CanFinish(c, "start")
    /\ Len(approvals) < MaxApprovals
    /\ \E spec \in Specs :
          approvals' = Append(approvals, NewApproval(spec, category \in Settled))
    /\ End(c)
    /\ UNCHANGED <<category, listed, ops>>

-----------------------------------------------------------------------------
(* decide.                                                                  *)

\* The pending steps of the stage being asked that user u may answer: their
\* own first, else one of a group they are in.
Candidates(row) ==
    {k \in DOMAIN row.steps : /\ row.steps[k].state = "pending"
                              /\ row.steps[k].stage = ActiveStage(row.spec, row.steps)}

Answerable(row, u) ==
    LET own  == {k \in Candidates(row) : row.steps[k].who = u}
        ours == {k \in Candidates(row) : /\ row.steps[k].who \in Groups
                                         /\ u \in Members[row.steps[k].who]}
        mine == IF own # {} THEN own ELSE ours
    IN  {k \in mine : \A m \in mine : k <= m}

OpenDecide(c, a, u) ==
    /\ a \in Pending /\ Free(RowOf(a))
    /\ Answerable(approvals[a], u) # {}
    /\ Begin(c, [op |-> "decide", a |-> a, u |-> u])

\* The decision is written, the aggregate is not recomputed.
Decided_NotAdvanced(row, k, answer) ==
    [row EXCEPT !.steps[k] = Closed(@, answer)]

Decided(row, k, answer) ==
    Projected(row.spec, row.late, [row.steps EXCEPT ![k] = Closed(@, answer)])

Decide(c) ==
    /\ CanFinish(c, "decide")
    /\ \E k \in Answerable(approvals[tx[c].a], tx[c].u), answer \in {"approved", "rejected"} :
          approvals' = [approvals EXCEPT ![tx[c].a] = Decided(@, k, answer)]
    /\ End(c)
    /\ UNCHANGED <<category, listed, ops>>

\* The delegate may be anybody; the aggregate is not recomputed.
Delegated(row, k, to) == [row EXCEPT !.steps[k].who = to]

Delegate(c) ==
    /\ CanFinish(c, "decide")
    /\ AllowDelegate
    /\ \E k \in Answerable(approvals[tx[c].a], tx[c].u), to \in Users :
          approvals' = [approvals EXCEPT ![tx[c].a] = Delegated(@, k, to)]
    /\ End(c)
    /\ UNCHANGED <<category, listed, ops>>

-----------------------------------------------------------------------------
(* cancelApproval.                                                          *)

Cancelled(row) == [row EXCEPT !.state = "cancelled", !.steps = Withdraw(@)]

\* An approval that is settled is cancelled all the same.
OpenCancel_Any(c, a) ==
    /\ Free(RowOf(a))
    /\ Begin(c, [op |-> "cancel", a |-> a])

OpenCancel(c, a) ==
    /\ a \in Pending /\ Free(RowOf(a))
    /\ Begin(c, [op |-> "cancel", a |-> a])

Cancel(c) ==
    /\ CanFinish(c, "cancel")
    /\ approvals' = [approvals EXCEPT ![tx[c].a] = Cancelled(@)]
    /\ End(c)
    /\ UNCHANGED <<category, listed, ops>>

-----------------------------------------------------------------------------
(* ticket.service.transition, under the lock of the ticket.                 *)

\* assertTransitionAllowed; system moves (merge, reopen, recovery) are exempt,
\* and cancelling is never blocked.
Blocked(to) == to \in {"resolved", "closed"} /\ Pending # {}

OpenTransition(c, to, system) ==
    /\ Free(Ticket)
    /\ to # category
    /\ system \/ ~Blocked(to)
    /\ Begin(c, [op |-> "transition", to |-> to])

\* cancelForTicket
AllCancelled == [a \in DOMAIN approvals |->
                    IF a \in Pending THEN Cancelled(approvals[a]) ELSE approvals[a]]

\* cancelForTicket is called for the terminal categories only.
Transition_TerminalOnly(c) ==
    /\ CanFinish(c, "transition")
    /\ category' = tx[c].to
    /\ \/ tx[c].to \in Terminal /\ approvals' = AllCancelled
       \/ tx[c].to \notin Terminal /\ UNCHANGED approvals
    /\ End(c)
    /\ UNCHANGED <<listed, ops>>

\* A move back to work starts the approval when its requiredWhen holds.
Transition(c) ==
    /\ CanFinish(c, "transition")
    /\ category' = tx[c].to
    /\ \/ tx[c].to \in Settled /\ approvals' = AllCancelled
       \/ tx[c].to \notin Settled /\ UNCHANGED approvals
       \/ /\ tx[c].to \notin Settled
          /\ Pending = {} /\ Len(approvals) < MaxApprovals
          /\ \E spec \in Specs : approvals' = Append(approvals, NewApproval(spec, FALSE))
    /\ End(c)
    /\ UNCHANGED <<listed, ops>>

-----------------------------------------------------------------------------
(* sweepApprovalTimeouts: a plain read, then one transaction per step.      *)

IsDue(step) == step.state = "pending" /\ step.due /\ ~step.timedOut

Due == UNION {{StepOf(a, k) : k \in {n \in DOMAIN approvals[a].steps :
                                        IsDue(approvals[a].steps[n])}} :
                 a \in DOMAIN approvals}

\* Any of the deadlines that are set may have passed.  The rows of one read are
\* listed one by one: each is looked at again under its lock.
ListDue ==
    /\ listed = {} /\ tx[Sweeper] = Idle
    /\ \E e \in Due : listed' = {e}
    /\ UNCHANGED <<category, approvals, tx, ops>>

\* The step is not looked at again under its lock.
OpenTimeout_NoRecheck ==
    /\ tx[Sweeper] = Idle
    /\ \E e \in listed :
         /\ listed' = listed \ {e}
         /\ tx' = [tx EXCEPT ![Sweeper] = [op |-> "timeout", a |-> e[1], k |-> e[2]]]
    /\ UNCHANGED <<category, approvals, ops>>

\* applyTimeout locks the step and looks at it again.
OpenTimeout ==
    /\ tx[Sweeper] = Idle
    /\ \E e \in listed :
         /\ listed' = listed \ {e}
         /\ IF IsDue(approvals[e[1]].steps[e[2]])
            THEN tx' = [tx EXCEPT ![Sweeper] = [op |-> "timeout", a |-> e[1], k |-> e[2]]]
            ELSE UNCHANGED tx
    /\ UNCHANGED <<category, approvals, ops>>

Outcome == [auto_approve |-> "approved", auto_reject |-> "rejected",
            escalate |-> "pending", hold |-> "pending"]

\* timed_out_at is stamped on a step that is decided, not on one that is held.
TimedOut_DecidedOnly(row, k) ==
    LET to == Outcome[row.spec[row.steps[k].stage].onTimeout]
    IN  Projected(row.spec, row.late,
                  [row.steps EXCEPT ![k].state = to, ![k].timedOut = (to # "pending"),
                                    ![k].due = (to = "pending")])

TimedOut(row, k) ==
    LET to == Outcome[row.spec[row.steps[k].stage].onTimeout]
    IN  Projected(row.spec, row.late,
                  [row.steps EXCEPT ![k] = [Closed(@, to) EXCEPT !.timedOut = TRUE]])

Timeout ==
    /\ CanFinish(Sweeper, "timeout")
    /\ LET a == tx[Sweeper].a
       IN  approvals' = IF a \in Pending
                        THEN [approvals EXCEPT ![a] = TimedOut(@, tx[Sweeper].k)]
                        ELSE approvals
    /\ End(Sweeper)
    /\ UNCHANGED <<category, listed, ops>>

-----------------------------------------------------------------------------
Init ==
    /\ category = "open"
    /\ approvals = <<>>
    /\ listed = {}
    /\ tx = [c \in Actors |-> Idle]
    /\ ops = 0

Next ==
    \/ \E c \in Clients :
         \/ OpenStart(c)
         \/ \E a \in DOMAIN approvals, u \in Users : OpenDecide(c, a, u)
         \/ \E a \in DOMAIN approvals : OpenCancel(c, a)
         \/ \E to \in Categories, system \in BOOLEAN : OpenTransition(c, to, system)
         \/ CommitStart(c) \/ Decide(c) \/ Delegate(c) \/ Cancel(c) \/ Transition(c)
    \/ \E c \in Actors : DeadlockVictim(c)
    \/ ListDue \/ OpenTimeout \/ Timeout

Spec == Init /\ [][Next]_vars

\* The queues of row locks are first come, first served: a transaction that can
\* finish again and again does end (strong fairness of its last step, written
\* with its guard).  A deadlock is broken, and the sweep runs.  Nobody is
\* obliged to answer.
Ready(c) == /\ tx[c] # Idle
            /\ \A d \in Actors : ~WaitsFor(c, d)
            /\ tx[c].op = "start" => Len(approvals) < MaxApprovals

Fairness ==
    /\ WF_vars(ListDue) /\ WF_vars(OpenTimeout)
    /\ \A c \in Actors : []<>Ready(c) => []<>(tx[c] = Idle)
    /\ []<>(\A c, d \in Actors : ~(WaitsFor(c, d) /\ WaitsFor(d, c)))

FairSpec == Spec /\ Fairness

-----------------------------------------------------------------------------
(* Properties.                                                              *)

StepStates == {"pending", "approved", "rejected", "cancelled"}

TypeOK ==
    /\ category \in Categories
    /\ Len(approvals) <= MaxApprovals
    /\ \A a \in DOMAIN approvals :
         LET row == approvals[a]
         IN  /\ row.state \in StepStates /\ row.spec \in Specs /\ row.late \in BOOLEAN
             /\ \A k \in DOMAIN row.steps :
                   row.steps[k] \in [stage : 1..Len(row.spec), who : Users \cup Groups,
                                     state : StepStates, due : BOOLEAN, timedOut : BOOLEAN]
    /\ listed \in SUBSET ((1..MaxApprovals) \X Nat)
    /\ ops \in 0..MaxOps

\* The stored state of an approval is what its votes say, whatever was
\* withdrawn or added since: the projection has no second opinion.
VerdictMatchesVotes ==
    \A a \in DOMAIN approvals :
        approvals[a].state # "cancelled" =>
            approvals[a].state = Verdict(approvals[a].spec, approvals[a].steps)

\* An approval is granted only when every stage has the approvals its definition
\* asks for, and refused only when the rest of some stage could not give them:
\* withdrawn, delegated and repeated requests do not lower the bar.
Earned(row) ==
    LET asked(i)    == Len(row.spec[i].approvers)
        wanted(i)   == IF row.spec[i].mode = "quorum" THEN Smaller(row.spec[i].quorum, asked(i))
                       ELSE asked(i)
        votes(i, v) == Votes(row.steps, i, v)
    IN  /\ row.state = "approved" =>
                \A i \in DOMAIN row.spec : votes(i, "approved") >= wanted(i)
        /\ row.state = "rejected" =>
                \E i \in DOMAIN row.spec : votes(i, "rejected") > asked(i) - wanted(i)

VerdictIsEarned == \A a \in DOMAIN approvals : Earned(approvals[a])

\* A settled approval asks nothing of anybody.
NobodyIsAsked == \A a \in DOMAIN approvals : a \notin Pending => PendingSteps(a) = {}

\* A pending approval can always be answered: no order of votes, timeouts
\* and delegations leaves a ticket blocked by an approval nobody can unblock.
SomebodyIsAsked == \A a \in Pending : Candidates(approvals[a]) # {}

\* The state of an approval is earned by its votes, and reachable by further
\* ones: the bar neither moves nor becomes one that nobody can clear.
VerdictIsSound ==
    /\ TypeOK
    /\ VerdictMatchesVotes
    /\ VerdictIsEarned
    /\ SomebodyIsAsked

\* A settled ticket keeps no approval, except one whose start had read the
\* ticket before it was settled.
SettledTicketIsClear ==
    category \in Settled => \A a \in Pending : approvals[a].late

\* What is settled, an approval or its ticket, leaves no question open.
NothingIsLeftOpen == NobodyIsAsked /\ SettledTicketIsClear

\* An approval that is settled stays as it is, its steps included: whoever has
\* found it pending is the only one to settle it.
SettlementIsFinal ==
    [][\A a \in DOMAIN approvals : a \notin Pending => approvals'[a] = approvals[a]]_vars

\* A step is decided once: no later vote, timeout, delegation or cancellation
\* changes it.
DecisionIsFinal ==
    [][\A a \in DOMAIN approvals : \A k \in DOMAIN approvals[a].steps :
          approvals[a].steps[k].state # "pending" =>
              approvals'[a].steps[k] = approvals[a].steps[k]]_vars

\* The sweep keeps up: deadlines are met by an answer, a timeout or a
\* cancellation, whatever transactions stand in its way.
DeadlinesAreMet == []<>(Due = {})
=============================================================================
