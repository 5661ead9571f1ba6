---------------------------- MODULE ProblemCascade ----------------------------
(***************************************************************************)
(* The closure cascade of a problem (services/problem.service.ts, with     *)
(* packages shared/problem.ts): resolving a problem resolves the incidents *)
(* that hang under it, unless somebody is owed something on them.          *)
(*                                                                         *)
(* A pass is one transaction of minutes.  It plans from what is committed, *)
(* then takes the incidents one by one, each in a savepoint and under its  *)
(* row lock, while the desk goes on working on them.  The "auto" pass runs *)
(* in the transition that resolves the problem; the "button" pass is       *)
(* POST /problems/:id/cascade, on a problem in any state.                  *)
(***************************************************************************)
EXTENDS Integers, FiniteSets, FiniteSetsExt

CONSTANTS Incidents,   \* ticket ids
          Problem,     \* the problem whose incidents are resolved
          OtherProblem,
          Cap,         \* LIMITS.problemCascadeMaxIncidents
          MaxEvents,   \* bound: requests, failures and passes together
          Nil

Problems == {Problem, OtherProblem}
Passes   == {"auto", "button"}
Policies == {"notify_only", "resolve_untouched", "resolve_all"}
Cats     == {"open", "pending", "resolved"}
Debts    == {"response", "reply", "approval"}

ASSUME IncidentsAssumption == Incidents \subseteq Nat /\ IsFiniteSet(Incidents)
ASSUME BoundsAssumption    == Cap \in Nat /\ MaxEvents \in Nat
ASSUME NamesAssumption     == Problem # OtherProblem /\ Nil \notin Incidents

VARIABLES
    inc,     \* the incidents' rows: [Incidents -> [ver, cat, owed, touched]]
    links,   \* ticket_link 'caused_by': pairs <<incident, problem>>
    policy,  \* problems.closure_policy
    solved,  \* the problem is resolved
    known,   \* its known error is published
    linker,  \* a link request in flight: [Problems -> Incidents \union {Nil}]
    pass,    \* [Passes -> [pc, policy, plan, todo, held, moved, told, refused]]
    raced,   \* history: incidents checked by two link requests at once
    events   \* requests, failures and passes so far

vars == <<inc, links, policy, solved, known, linker, pass, raced, events>>

\* "skip" is finished work, "later" is what the cap deferred, "none" is no link.
Fates    == {"none", "skip", "later", "blocked", "tell", "resolve"}
NoPlan   == [i \in Incidents |-> [fate |-> "none", ver |-> 0]]
IdlePass == [pc |-> "idle", policy |-> "notify_only", plan |-> NoPlan, todo |-> {},
             held |-> {}, moved |-> {}, told |-> {}, refused |-> {}]

Init ==
    /\ inc \in [Incidents -> [ver : {1}, cat : {"open"}, owed : {{}, {"response"}},
                              touched : {FALSE}]]
    /\ links = Incidents \X {Problem}
    /\ policy = "resolve_untouched"
    /\ solved = FALSE
    /\ known = TRUE
    /\ linker = [q \in Problems |-> Nil]
    /\ pass = [p \in Passes |-> IdlePass]
    /\ raced = {}
    /\ events = 0

\* The bound on requests, failures and passes.
Event == events < MaxEvents /\ events' = events + 1

-----------------------------------------------------------------------------
(* Row locks *)

\* An incident's row, locked FOR UPDATE by a pass until its transaction ends.
Free(i) == \A p \in Passes : i \notin pass[p].held

\* The problem's row: locked by a link request and by the automatic pass.
RowFree(q) == /\ linker[q] = Nil
              /\ q = Problem => pass["auto"].pc # "acting"

\* The problem's ticket: locked by the transition that resolves it.
TicketFree(q) == q = Problem => pass["auto"].pc = "idle"

-----------------------------------------------------------------------------
(* Classification: shared/problem.ts *)

\* cascadeBlockReasonFor: somebody is owed something.
Blocked(f) == f.owed # {} \/ f.cat = "pending"

\* cascadeHasNothingToDo.
Done(f) == f.cat = "resolved"

\* What the policy lets the cascade resolve on its own.
Resolves(f, pol) == \/ pol = "resolve_all"
                    \/ pol = "resolve_untouched" /\ ~f.touched

\* classifyCascadeIncident: exactly one bucket, and what the policy does with it.
Fate(f, pol) ==
    IF Done(f) THEN "skip"
    ELSE IF Blocked(f) THEN "blocked"
    ELSE IF Resolves(f, pol) THEN "resolve" ELSE "tell"

Under(q) == {i \in Incidents : <<i, q>> \in links}

\* Slip: the cap cuts a prefix of all incidents, the finished ones included.
Plan_Prefix(pol) ==
    [i \in Incidents |->
        [fate |-> IF i \notin Under(Problem) THEN "none"
                  ELSE IF Cardinality({j \in Under(Problem) : j < i}) >= Cap THEN "later"
                  ELSE Fate(inc[i], pol),
         ver  |-> inc[i].ver]]

\* planClosureCascade: in the order of the ids, the cap counts the entries that
\* ask for something.
Plan(pol) ==
    LET work    == {i \in Under(Problem) : Fate(inc[i], pol) # "skip"}
        late(i) == Cardinality({j \in work : j < i}) >= Cap
    IN  [i \in Incidents |->
           [fate |-> IF i \notin Under(Problem) THEN "none"
                     ELSE IF i \in work /\ late(i) THEN "later"
                     ELSE Fate(inc[i], pol),
            ver  |-> inc[i].ver]]

Planned(pol) ==
    [IdlePass EXCEPT !.pc = "acting", !.policy = pol, !.plan = Plan(pol),
        !.todo = {i \in Incidents : Plan(pol)[i].fate \in {"blocked", "tell", "resolve"}}]

-----------------------------------------------------------------------------
(* The desk at work on the incidents, each time under the incident's row lock *)

Others == <<links, policy, solved, known, linker, pass, raced>>

\* A public reply of an agent, or one by automation, which touches nothing and
\* answers only the first response.  Neither counts the row's version up.
Replies(i, agent) ==
    /\ Event /\ Free(i)
    /\ inc' = [inc EXCEPT ![i].owed = @ \ (IF agent THEN {"response", "reply"}
                                                    ELSE {"response"}),
                          ![i].touched = @ \/ agent]
    /\ UNCHANGED Others

RequesterReplies(i) ==
    /\ Event /\ Free(i)
    /\ inc' = [inc EXCEPT ![i].owed = @ \union {"reply"}]
    /\ UNCHANGED Others

\* The insert of an approval takes a key lock on the ticket it refers to.
AskApproval(i) ==
    /\ Event /\ Free(i)
    /\ inc' = [inc EXCEPT ![i].owed = @ \union {"approval"}]
    /\ UNCHANGED Others

Decided(i) ==
    /\ Event
    /\ "approval" \in inc[i].owed
    /\ inc' = [inc EXCEPT ![i].owed = @ \ {"approval"}]
    /\ UNCHANGED Others

\* An edit (to = the present category) or a transition of the ticket.
Edit(i, to) ==
    /\ Event /\ Free(i)
    /\ inc[i].cat = "resolved" => to # "pending"
    /\ inc' = [inc EXCEPT ![i].cat = to, ![i].ver = @ + 1]
    /\ UNCHANGED Others

-----------------------------------------------------------------------------
(* The problem's record *)

SetPolicy(pol) ==
    /\ Event /\ RowFree(Problem)
    /\ pol # policy
    /\ policy' = pol
    /\ UNCHANGED <<inc, links, solved, known, linker, pass, raced>>

\* retireKnownError by hand, or publishKnownError again.
SetKnown ==
    /\ Event /\ RowFree(Problem)
    /\ known' = ~known
    /\ UNCHANGED <<inc, links, policy, solved, linker, pass, raced>>

ReopenProblem ==
    /\ Event /\ TicketFree(Problem)
    /\ solved
    /\ solved' = FALSE
    /\ UNCHANGED <<inc, links, policy, known, linker, pass, raced>>

\* Slip: only the problem at hand is asked whether it holds the incident.
Unheld_OwnOnly(i, q) == <<i, q>> \notin links

\* problemsHoldingIncidents: no problem holds the incident.  A read of what is
\* committed, under the lock of one problem's row only.
Unheld(i, q) == \A other \in Problems : <<i, other>> \notin links

\* linkIncidents, and promote for the problem it makes: lock, check ...
LinkCheck(q, i) ==
    /\ Event /\ RowFree(q)
    /\ Unheld(i, q)
    /\ linker' = [linker EXCEPT ![q] = i]
    /\ raced' = IF \E other \in Problems \ {q} : linker[other] = i
                  THEN raced \union {i} ELSE raced
    /\ UNCHANGED <<inc, links, policy, solved, known, pass>>

\* ... then insert, which takes a key lock on both tickets, and commit.
LinkWrite(q) ==
    /\ linker[q] # Nil
    /\ Free(linker[q]) /\ TicketFree(q)
    /\ links' = links \union {<<linker[q], q>>}
    /\ linker' = [linker EXCEPT ![q] = Nil]
    /\ UNCHANGED <<inc, policy, solved, known, pass, raced, events>>

\* The request holds the problem's row and waits for its ticket, the automatic
\* pass the other way round: PostgreSQL ends one of the two.
LinkVictim ==
    /\ linker[Problem] # Nil /\ pass["auto"].pc = "locking"
    /\ linker' = [linker EXCEPT ![Problem] = Nil]
    /\ UNCHANGED <<inc, links, policy, solved, known, pass, raced, events>>

Unlink(q, i) ==
    /\ Event /\ RowFree(q)
    /\ <<i, q>> \in links
    /\ links' = links \ {<<i, q>>}
    /\ UNCHANGED <<inc, policy, solved, known, linker, pass, raced>>

-----------------------------------------------------------------------------
(* A pass *)

\* The transition holds the problem's ticket when it calls onProblemResolved.
AutoBegin ==
    /\ Event
    /\ pass["auto"].pc = "idle" /\ ~solved
    /\ pass' = [pass EXCEPT !["auto"].pc = "locking"]
    /\ UNCHANGED <<inc, links, policy, solved, known, linker, raced>>

\* onProblemResolved locks the problem's row before it plans.
AutoPlan ==
    /\ pass["auto"].pc = "locking"
    /\ RowFree(Problem)
    /\ pass' = [pass EXCEPT !["auto"] = Planned(policy)]
    /\ UNCHANGED <<inc, links, policy, solved, known, linker, raced, events>>

\* The button sends its own policy and locks nothing before it plans.
ButtonPlan(pol) ==
    /\ Event
    /\ pass["button"].pc = "idle"
    /\ pass' = [pass EXCEPT !["button"] = Planned(pol)]
    /\ UNCHANGED <<inc, links, policy, solved, known, linker, raced>>

\* Slip: the button goes through its incidents from the other end.
At_AnyOrder(p) == IF p = "auto" THEN Min(pass[p].todo) ELSE Max(pass[p].todo)

\* The incident in hand: the plan is gone through in the order of the ids.
At(p) == Min(pass[p].todo)

Acting(p)   == pass[p].pc = "acting" /\ pass[p].todo # {}
LockFree(p) == \A o \in Passes \ {p} : At(p) \notin pass[o].held

\* keeps: the lock stays with the transaction.  A savepoint that is rolled
\* back gives it up.
Handled(p, field, keeps) ==
    LET i         == At(p)
        into(set) == IF field = set THEN {i} ELSE {}
    IN  pass' = [pass EXCEPT ![p].todo = @ \ {i},
                             ![p].held = IF keeps THEN @ \union {i} ELSE @,
                             ![p].moved = @ \union into("moved"),
                             ![p].told = @ \union into("told"),
                             ![p].refused = @ \union into("refused")]

\* notifyIncident on the pass's own transaction, for an entry that resolves nothing.
Tell(p) ==
    /\ Acting(p) /\ LockFree(p)
    /\ pass[p].plan[At(p)].fate # "resolve"
    /\ Handled(p, "told", TRUE)
    /\ UNCHANGED <<inc, links, policy, solved, known, linker, raced, events>>

\* Slip: the facts of the plan are good enough, row_version will tell.
StillResolves_AsPlanned(p, i) == <<i, Problem>> \in links

\* resolveOneIncident reads again under the lock what the plan was made from.
StillResolves(p, i) == /\ <<i, Problem>> \in links
                       /\ Fate(inc[i], pass[p].policy) = "resolve"

SameVersion(p, i) == inc[i].ver = pass[p].plan[i].ver

Resolving(p) == /\ Acting(p) /\ LockFree(p)
                /\ pass[p].plan[At(p)].fate = "resolve"

Reconsider(p) ==
    /\ Resolving(p)
    /\ ~StillResolves(p, At(p))
    /\ Handled(p, IF <<At(p), Problem>> \in links /\ Blocked(inc[At(p)])
                    THEN "told" ELSE "refused", TRUE)
    /\ UNCHANGED <<inc, links, policy, solved, known, linker, raced, events>>

\* transition() throws: the version has moved, or the workflow refuses the move.
Refuse(p) ==
    /\ Resolving(p)
    /\ StillResolves(p, At(p))
    /\ Handled(p, "refused", FALSE)
    /\ UNCHANGED <<inc, links, policy, solved, known, linker, raced, events>>

Move(p) ==
    /\ Resolving(p)
    /\ StillResolves(p, At(p)) /\ SameVersion(p, At(p))
    /\ Handled(p, "moved", TRUE)
    /\ UNCHANGED <<inc, links, policy, solved, known, linker, raced, events>>

Resolved(set) == [i \in Incidents |->
                    IF i \in set THEN [inc[i] EXCEPT !.cat = "resolved", !.ver = @ + 1]
                                 ELSE inc[i]]

\* The automatic pass retires the known error and commits with the transition.
Commit(p) ==
    /\ pass[p].pc = "acting" /\ pass[p].todo = {}
    /\ inc' = Resolved(pass[p].moved)
    /\ pass' = [pass EXCEPT ![p] = IdlePass]
    /\ IF p = "auto" THEN solved' = TRUE /\ known' = FALSE
                     ELSE UNCHANGED <<solved, known>>
    /\ UNCHANGED <<links, policy, linker, raced, events>>

\* An SQL error outside a savepoint, a crash, or a deadlock: nothing is written.
Abort(p) ==
    /\ pass[p].pc # "idle"
    /\ \/ Event
       \/ p = "auto" /\ pass[p].pc = "locking" /\ linker[Problem] # Nil /\ UNCHANGED events
    /\ pass' = [pass EXCEPT ![p] = IdlePass]
    /\ UNCHANGED <<inc, links, policy, solved, known, linker, raced>>

-----------------------------------------------------------------------------
Next ==
    \/ \E i \in Incidents : \/ \E agent \in BOOLEAN : Replies(i, agent)
                            \/ RequesterReplies(i)
                            \/ AskApproval(i) \/ Decided(i)
                            \/ \E to \in Cats : Edit(i, to)
    \/ \E pol \in Policies : SetPolicy(pol) \/ ButtonPlan(pol)
    \/ SetKnown \/ ReopenProblem \/ LinkVictim
    \/ \E q \in Problems : \/ \E i \in Incidents : LinkCheck(q, i) \/ Unlink(q, i)
                           \/ LinkWrite(q)
    \/ AutoBegin \/ AutoPlan
    \/ \E p \in Passes : \/ Tell(p) \/ Reconsider(p) \/ Refuse(p) \/ Move(p)
                         \/ Commit(p) \/ Abort(p)

Spec == Init /\ [][Next]_vars

-----------------------------------------------------------------------------
(* Properties *)

PassRecords ==
    [pc : {"idle", "locking", "acting"}, policy : Policies,
     plan : [Incidents -> [fate : Fates, ver : Nat]], todo : SUBSET Incidents,
     held : SUBSET Incidents, moved : SUBSET Incidents, told : SUBSET Incidents,
     refused : SUBSET Incidents]

TypeOK ==
    /\ inc \in [Incidents -> [ver : Nat, cat : Cats, owed : SUBSET Debts, touched : BOOLEAN]]
    /\ links \in SUBSET (Incidents \X Problems)
    /\ policy \in Policies
    /\ solved \in BOOLEAN /\ known \in BOOLEAN
    /\ linker \in [Problems -> Incidents \union {Nil}]
    /\ pass \in [Passes -> PassRecords]
    /\ raced \in SUBSET Incidents
    /\ events \in Nat

Commits(p) == pass[p].pc = "acting" /\ pass[p].todo = {} /\ pass'[p].pc = "idle"

\* A cascade never talks over a person: what its commit resolves was, at that
\* very commit, unresolved, unedited since the plan, answered, without a pending
\* question, reply or approval, and within the policy of the pass; though its
\* plan is old by then, replies and approvals leave row_version alone, and
\* another pass works on the same incidents (resolveOneIncident).
NobodyIsTalkedOver ==
    [][\A p \in Passes : Commits(p) =>
          \A i \in Incidents : inc'[i] # inc[i] =>
             /\ Fate(inc[i], pass[p].policy) = "resolve"
             /\ SameVersion(p, i)]_vars

\* When a problem is resolved, every incident then under it was in the plan of
\* the pass, and was finished before it, moved, told or refused by it, or
\* deferred because Cap others before it were not finished.
NoOneIsForgotten ==
    [][Commits("auto") /\ solved' /\ ~solved =>
          LET run == pass["auto"]
          IN  \A i \in Under(Problem) :
                \/ run.plan[i].fate = "skip"
                \/ i \in run.moved \union run.told \union run.refused
                \/ /\ run.plan[i].fate = "later"
                   /\ Cardinality(run.moved \union run.told \union run.refused) = Cap]_vars

\* An incident hangs under two problems only if the two requests that put it
\* there had both checked before either wrote.
OneProblemUnlessRaced ==
    \A i \in Incidents \ raced : Cardinality({q \in Problems : <<i, q>> \in links}) <= 1

\* The two kinds of pass may wait for one another, never each for the other:
\* both go through the incidents in the order of their ids, and a savepoint
\* that is rolled back keeps no lock that would break that order.
PassesDoNotLockOut ==
    /\ TypeOK
    /\ ~\A p \in Passes : Acting(p) /\ ~LockFree(p)
=============================================================================
