------------------------ MODULE ProblemCascade_proofs ------------------------
(***************************************************************************)
(* The closure cascade, for any set of incidents, any cap and any number   *)
(* of requests: what a pass resolves is nobody's open business, no         *)
(* incident under a resolved problem was left out, the two passes never    *)
(* wait for each other in a circle, and an incident hangs under two        *)
(* problems only if two link requests overlapped.                          *)
(***************************************************************************)
EXTENDS ProblemCascade, FiniteSetTheorems, WellFoundedInduction, TLAPS

\* A row has one holder.
OneHolder == \A p, o \in Passes : p # o => pass[p].held \intersect pass[o].held = {}

\* A pass takes its locks in the order of the ids.
HeldBeforeTodo == \A p \in Passes : \A h \in pass[p].held, t \in pass[p].todo : h < t

\* What a pass has moved is still what it found under the lock.
MovedIsStill ==
    \A p \in Passes : \A i \in pass[p].moved :
        /\ i \in pass[p].held
        /\ Fate(inc[i], pass[p].policy) = "resolve"
        /\ SameVersion(p, i)

\* A request that has found its incident free stays the only one that may link
\* it, unless another had found it free too.
Claims(q) == {i \in Incidents : <<i, q>> \in links \/ linker[q] = i}
OneClaim  == \A q, r \in Problems : \A i \in Claims(q) \intersect Claims(r) :
                q = r \/ i \in raced

IInv == TypeOK /\ OneHolder /\ HeldBeforeTodo /\ MovedIsStill /\ OneClaim

-----------------------------------------------------------------------------
(* A set of naturals has a least element: a proper subset of a finite set is
   smaller, so one of the intervals 1..x is minimal. *)
LEMMA LeastExists ==
    ASSUME NEW S \in SUBSET Nat, S # {}
    PROVE  \E x \in S : \A y \in S : x <= y
<1> DEFINE R         == StrictSubsetOrdering(Nat)
           Intervals == {1..x : x \in S}
<1>1. Intervals \subseteq FiniteSubsetsOf(Nat) /\ Intervals # {}
  <2>1. ASSUME NEW x \in S PROVE IsFiniteSet(1..x)
    BY FS_Interval
  <2>2. ASSUME NEW x \in S PROVE 1..x \in SUBSET Nat
    OBVIOUS
  <2> QED BY <2>1, <2>2 DEF FiniteSubsetsOf
<1>2. PICK I \in Intervals : \A J \in Intervals : ~ (<<J, I>> \in R)
  <2>1. IsWellFoundedOn(R, FiniteSubsetsOf(Nat))
    BY FS_StrictSubsetOrderingWellFounded
  <2> HIDE DEF R, Intervals
  <2> QED BY <1>1, <2>1, WFMin
<1>3. PICK x \in S : I = 1..x
  OBVIOUS
<1>4. ASSUME NEW y \in S, y < x PROVE FALSE
  <2>1. 1..y \in Intervals /\ 1..y \in SUBSET Nat /\ 1..x \in SUBSET Nat
    OBVIOUS
  <2>2. 1..y \subseteq 1..x /\ 1..y # 1..x
    <3>1. x \in 1..x /\ x \notin 1..y
      BY <1>4
    <3> QED BY <1>4, <3>1
  <2> QED BY <1>2, <1>3, <2>1, <2>2 DEF StrictSubsetOrdering
<1> QED BY <1>4

LEMMA MinIsLeast ==
    ASSUME NEW S \in SUBSET Nat, S # {}
    PROVE  Min(S) \in S /\ \A y \in S : Min(S) <= y
BY LeastExists DEF Min

\* The incident in hand is the first of those a pass still has to treat.
LEMMA AtIsFirst ==
    ASSUME TypeOK, NEW p \in Passes, Acting(p)
    PROVE  /\ At(p) \in pass[p].todo /\ At(p) \in Incidents /\ At(p) \in Nat
           /\ \A t \in pass[p].todo : At(p) <= t
<1>1. pass[p].todo \in SUBSET Nat /\ pass[p].todo # {} /\ pass[p].todo \subseteq Incidents
  BY IncidentsAssumption DEF TypeOK, PassRecords, Acting
<1> QED BY <1>1, MinIsLeast, IncidentsAssumption DEF At

-----------------------------------------------------------------------------
LEMMA InitIInv == Init => IInv
<1> SUFFICES ASSUME Init PROVE IInv
  OBVIOUS
<1>1. TypeOK
  <2>1. inc \in [Incidents -> [ver : Nat, cat : Cats, owed : SUBSET Debts, touched : BOOLEAN]]
    <3>1. ASSUME NEW r \in [ver : {1}, cat : {"open"}, owed : {{}, {"response"}},
                            touched : {FALSE}]
          PROVE  r \in [ver : Nat, cat : Cats, owed : SUBSET Debts, touched : BOOLEAN]
      <4>1. /\ r = [ver |-> r.ver, cat |-> r.cat, owed |-> r.owed, touched |-> r.touched]
            /\ r.ver = 1 /\ r.cat = "open" /\ r.owed \in {{}, {"response"}} /\ r.touched = FALSE
        OBVIOUS
      <4>2. r.ver \in Nat /\ r.cat \in Cats /\ r.touched \in BOOLEAN
        <5>1. 1 \in Nat /\ "open" \in Cats /\ FALSE \in BOOLEAN
          BY DEF Cats
        <5> QED BY <4>1, <5>1, Zenon
      <4>3. r.owed \in SUBSET Debts
        BY <4>1 DEF Debts
      <4> QED BY <4>1, <4>2, <4>3, Zenon
    <3> QED BY <3>1 DEF Init
  <2>2. pass \in [Passes -> PassRecords]
    BY DEF Init, PassRecords, IdlePass, NoPlan, Policies, Fates
  <2>3. links \in SUBSET (Incidents \X Problems) /\ linker \in [Problems -> Incidents \union {Nil}]
    BY DEF Init, Problems
  <2> QED BY <2>1, <2>2, <2>3 DEF Init, TypeOK, Policies
<1>2. OneHolder /\ HeldBeforeTodo /\ MovedIsStill
  BY DEF Init, OneHolder, HeldBeforeTodo, MovedIsStill, IdlePass
<1>3. OneClaim
  BY NamesAssumption DEF Init, OneClaim, Claims, Problems
<1> QED BY <1>1, <1>2, <1>3 DEF IInv

\* A planned pass is a pass.
LEMMA PlannedType ==
    ASSUME TypeOK, NEW pol \in Policies
    PROVE  Planned(pol) \in PassRecords
<1>1. Plan(pol) \in [Incidents -> [fate : Fates, ver : Nat]]
  BY DEF Plan, Fate, Fates, TypeOK
<1> QED BY <1>1 DEF Planned, IdlePass, PassRecords

\* Treating the incident in hand: what becomes of the pass, and that it is still one.
LEMMA HandledPass ==
    ASSUME TypeOK, NEW p \in Passes, Acting(p), NEW keeps \in BOOLEAN,
           NEW field, Handled(p, field, keeps)
    PROVE  /\ pass' \in [Passes -> PassRecords]
           /\ pass'[p].pc = "acting" /\ pass'[p].policy = pass[p].policy
           /\ pass'[p].plan = pass[p].plan
           /\ pass'[p].todo = pass[p].todo \ {At(p)}
           /\ pass'[p].held = IF keeps THEN pass[p].held \union {At(p)} ELSE pass[p].held
           /\ pass'[p].moved = IF field = "moved" THEN pass[p].moved \union {At(p)}
                                                 ELSE pass[p].moved
           /\ \A o \in Passes \ {p} : pass'[o] = pass[o]
<1> DEFINE now == pass[p]
<1>1. /\ now \in PassRecords /\ now.pc = "acting" /\ At(p) \in Incidents
      /\ pass \in [Passes -> PassRecords]
  BY AtIsFirst DEF TypeOK, Acting
<1> DEFINE into(set) == IF field = set THEN {At(p)} ELSE {}
           next == [now EXCEPT !.todo = @ \ {At(p)},
                        !.held = IF keeps THEN @ \union {At(p)} ELSE @,
                        !.moved = @ \union into("moved"),
                        !.told = @ \union into("told"),
                        !.refused = @ \union into("refused")]
<1>2. pass' = [pass EXCEPT ![p] = next]
  BY <1>1 DEF Handled
<1>3. next \in PassRecords
  BY <1>1, ZenonT(30) DEF PassRecords
<1> QED BY <1>1, <1>2, <1>3 DEF PassRecords
-----------------------------------------------------------------------------
(* The desk. *)

Desk(i) == \/ \E agent \in BOOLEAN : Replies(i, agent)
           \/ RequesterReplies(i) \/ AskApproval(i) \/ Decided(i)
           \/ \E to \in Cats : Edit(i, to)

\* The desk changes one row, which no pass holds or which still owed a decision.
LEMMA DeskChange ==
    ASSUME TypeOK, NEW i \in Incidents, Desk(i)
    PROVE  /\ UNCHANGED Others /\ events' \in Nat
           /\ inc' \in [Incidents -> [ver : Nat, cat : Cats, owed : SUBSET Debts,
                                      touched : BOOLEAN]]
           /\ \A j \in Incidents \ {i} : inc'[j] = inc[j]
           /\ Free(i) \/ \A pol \in Policies : Fate(inc[i], pol) # "resolve"
<1> DEFINE Row == [ver : Nat, cat : Cats, owed : SUBSET Debts, touched : BOOLEAN]
<1>1. inc \in [Incidents -> Row] /\ inc[i] \in Row /\ events \in Nat
  BY DEF TypeOK
<1>2. ASSUME NEW agent \in BOOLEAN, Replies(i, agent)
      PROVE  \E r \in Row : inc' = [inc EXCEPT ![i] = r]
  <2> DEFINE r == [inc[i] EXCEPT !.owed = @ \ (IF agent THEN {"response", "reply"}
                                                       ELSE {"response"}),
                                 !.touched = @ \/ agent]
  <2>1. r \in Row
    BY <1>1
  <2>2. inc' = [inc EXCEPT ![i] = r]
    BY <1>1, <1>2 DEF Replies
  <2> QED BY <2>1, <2>2
<1>3. ASSUME RequesterReplies(i) PROVE \E r \in Row : inc' = [inc EXCEPT ![i] = r]
  <2>1. [inc[i] EXCEPT !.owed = @ \union {"reply"}] \in Row
    BY <1>1 DEF Debts
  <2> QED BY <1>1, <1>3, <2>1 DEF RequesterReplies
<1>4. ASSUME AskApproval(i) PROVE \E r \in Row : inc' = [inc EXCEPT ![i] = r]
  <2>1. [inc[i] EXCEPT !.owed = @ \union {"approval"}] \in Row
    BY <1>1 DEF Debts
  <2> QED BY <1>1, <1>4, <2>1 DEF AskApproval
<1>5. ASSUME Decided(i) PROVE \E r \in Row : inc' = [inc EXCEPT ![i] = r]
  <2>1. [inc[i] EXCEPT !.owed = @ \ {"approval"}] \in Row
    BY <1>1
  <2> QED BY <1>1, <1>5, <2>1 DEF Decided
<1>6. ASSUME NEW to \in Cats, Edit(i, to) PROVE \E r \in Row : inc' = [inc EXCEPT ![i] = r]
  <2>0. inc[i].ver + 1 \in Nat
    BY <1>1
  <2>1. [inc[i] EXCEPT !.cat = to, !.ver = @ + 1] \in Row
    BY <1>1, <2>0
  <2> QED BY <1>1, <1>6, <2>1 DEF Edit
<1>7. \E r \in Row : inc' = [inc EXCEPT ![i] = r]
  BY <1>2, <1>3, <1>4, <1>5, <1>6 DEF Desk
<1>8. Free(i) \/ \A pol \in Policies : Fate(inc[i], pol) # "resolve"
  BY DEF Desk, Replies, RequesterReplies, AskApproval, Decided, Edit, Fate, Blocked
<1>9. UNCHANGED Others /\ Event
  BY DEF Desk, Replies, RequesterReplies, AskApproval, Decided, Edit
<1>10. events' \in Nat
  BY <1>1, <1>9 DEF Event
<1> QED BY <1>1, <1>7, <1>8, <1>9, <1>10

LEMMA DeskKeeps ==
    ASSUME IInv, NEW i \in Incidents, Desk(i)
    PROVE  IInv'
<1> USE DEF IInv
<1>1. UNCHANGED <<links, policy, solved, known, linker, pass, raced>>
  BY DeskChange DEF Others
<1>2. TypeOK'
  BY <1>1, DeskChange DEF TypeOK
<1>3. MovedIsStill'
  <2> SUFFICES ASSUME NEW p \in Passes, NEW j \in pass[p].moved
               PROVE  /\ j \in pass[p].held
                      /\ Fate(inc'[j], pass[p].policy) = "resolve"
                      /\ inc'[j].ver = pass[p].plan[j].ver
    BY <1>1 DEF MovedIsStill, SameVersion
  <2>1. /\ j \in pass[p].held /\ Fate(inc[j], pass[p].policy) = "resolve"
        /\ inc[j].ver = pass[p].plan[j].ver
        /\ j \in Incidents /\ pass[p].policy \in Policies
    BY DEF MovedIsStill, SameVersion, TypeOK, PassRecords
  <2>2. j # i
    BY <2>1, DeskChange DEF Free
  <2> QED BY <2>1, <2>2, DeskChange
<1>4. (OneHolder /\ HeldBeforeTodo /\ OneClaim)'
  BY <1>1 DEF OneHolder, HeldBeforeTodo, OneClaim, Claims
<1> QED BY <1>2, <1>3, <1>4

-----------------------------------------------------------------------------
(* The problem's record and its links: no incident and no pass changes. *)

LEMMA PassesUntouched ==
    ASSUME IInv, UNCHANGED <<inc, pass>>
    PROVE  (OneHolder /\ HeldBeforeTodo /\ MovedIsStill)'
BY DEF IInv, OneHolder, HeldBeforeTodo, MovedIsStill, SameVersion

LEMMA RecordKeeps ==
    ASSUME IInv,
           \/ \E pol \in Policies : SetPolicy(pol)
           \/ SetKnown \/ ReopenProblem
    PROVE  IInv'
<1>1. UNCHANGED <<inc, links, linker, pass, raced>>
  BY DEF SetPolicy, SetKnown, ReopenProblem
<1>2. policy' \in Policies /\ solved' \in BOOLEAN /\ known' \in BOOLEAN
  BY DEF SetPolicy, SetKnown, ReopenProblem, IInv, TypeOK
<1>3. Event
  BY DEF SetPolicy, SetKnown, ReopenProblem
<1>4. TypeOK'
  BY <1>1, <1>2, <1>3 DEF IInv, TypeOK, Event
<1>5. OneClaim'
  BY <1>1 DEF IInv, OneClaim, Claims
<1> QED BY <1>1, <1>4, <1>5, PassesUntouched DEF IInv

LEMMA LinkCheckKeeps ==
    ASSUME IInv, NEW q \in Problems, NEW i \in Incidents, LinkCheck(q, i)
    PROVE  IInv'
<1>1. UNCHANGED <<inc, links, policy, solved, known, pass>>
  BY DEF LinkCheck
<1>2. linker' = [linker EXCEPT ![q] = i] /\ linker \in [Problems -> Incidents \union {Nil}]
  BY DEF LinkCheck, IInv, TypeOK
<1>3. raced' = IF \E other \in Problems \ {q} : linker[other] = i
                 THEN raced \union {i} ELSE raced
  BY DEF LinkCheck
<1>4. TypeOK'
  BY <1>1, <1>2, <1>3 DEF IInv, TypeOK, LinkCheck, Event
<1>5. OneClaim'
  <2> SUFFICES ASSUME NEW a \in Problems, NEW b \in Problems, a # b,
                      NEW j \in Incidents, j \in Claims(a)', j \in Claims(b)'
               PROVE  j \in raced'
    BY DEF OneClaim, Claims
  <2>1. \A c \in Problems : j \in Claims(c)' => j \in Claims(c) \/ (c = q /\ j = i)
    BY <1>1, <1>2 DEF Claims
  <2>2. CASE j \in Claims(a) /\ j \in Claims(b)
    BY <2>2, <1>3 DEF IInv, OneClaim
  <2>3. CASE j = i /\ \E c \in Problems \ {q} : j \in Claims(c)
    BY <2>3, <1>3 DEF LinkCheck, Unheld, Claims
  <2> QED BY <2>1, <2>2, <2>3
<1> QED BY <1>1, <1>4, <1>5, PassesUntouched DEF IInv

LEMMA LinkEndKeeps ==
    ASSUME IInv,
           \/ LinkVictim
           \/ \E q \in Problems : LinkWrite(q) \/ \E i \in Incidents : Unlink(q, i)
    PROVE  IInv'
<1>1. UNCHANGED <<inc, policy, solved, known, pass, raced>>
  BY DEF LinkVictim, LinkWrite, Unlink
<1>2. linker \in [Problems -> Incidents \union {Nil}] /\ links \in SUBSET (Incidents \X Problems)
  BY DEF IInv, TypeOK
<1>3. /\ linker' \in [Problems -> Incidents \union {Nil}]
      /\ links' \in SUBSET (Incidents \X Problems)
      /\ events' \in Nat
      /\ \A q \in Problems : Claims(q)' \subseteq Claims(q)
  <2>1. CASE LinkVictim
    BY <2>1, <1>2, NamesAssumption DEF LinkVictim, Claims, Problems, IInv, TypeOK
  <2>2. ASSUME NEW q \in Problems, LinkWrite(q)
        PROVE  <1>3
    <3>1. /\ linker[q] \in Incidents /\ links' = links \union {<<linker[q], q>>}
          /\ linker' = [linker EXCEPT ![q] = Nil] /\ events' = events
      BY <2>2, <1>2 DEF LinkWrite
    <3> QED BY <3>1, <1>2, NamesAssumption DEF Claims, IInv, TypeOK
  <2>3. ASSUME NEW q \in Problems, NEW i \in Incidents, Unlink(q, i)
        PROVE  <1>3
    BY <2>3, <1>2 DEF Unlink, Claims, IInv, TypeOK, Event
  <2> QED BY <2>1, <2>2, <2>3
<1>4. TypeOK'
  BY <1>1, <1>3 DEF IInv, TypeOK
<1>5. OneClaim'
  BY <1>1, <1>3 DEF IInv, OneClaim
<1> QED BY <1>1, <1>4, <1>5, PassesUntouched DEF IInv
-----------------------------------------------------------------------------
(* The passes. *)

\* Beginning, planning anew and giving up: a pass that has moved nothing.
LEMMA FreshPassKeeps ==
    ASSUME IInv, NEW p \in Passes, NEW r \in PassRecords, r.held = {}, r.moved = {},
           pass' = [pass EXCEPT ![p] = r],
           UNCHANGED <<inc, links, policy, solved, known, linker, raced>>, events' \in Nat
    PROVE  IInv'
<1>1. pass \in [Passes -> PassRecords]
  BY DEF IInv, TypeOK
<1>2. pass'[p] = r /\ \A o \in Passes \ {p} : pass'[o] = pass[o]
  BY <1>1
<1>3. TypeOK'
  BY <1>1 DEF IInv, TypeOK
<1>4. (OneHolder /\ HeldBeforeTodo /\ MovedIsStill)'
  BY <1>2 DEF IInv, OneHolder, HeldBeforeTodo, MovedIsStill, SameVersion
<1>5. OneClaim'
  BY DEF IInv, OneClaim, Claims
<1> QED BY <1>3, <1>4, <1>5 DEF IInv

LEMMA BeginKeeps ==
    ASSUME IInv, AutoBegin
    PROVE  IInv'
<1>1. pass \in [Passes -> PassRecords] /\ "auto" \in Passes /\ events \in Nat
  BY DEF IInv, TypeOK, Passes
<1>2. pass' = [pass EXCEPT !["auto"].pc = "locking"]
  BY DEF AutoBegin
<1>3. /\ pass' \in [Passes -> PassRecords]
      /\ \A p \in Passes : /\ pass'[p].held = pass[p].held /\ pass'[p].todo = pass[p].todo
                           /\ pass'[p].moved = pass[p].moved /\ pass'[p].plan = pass[p].plan
                           /\ pass'[p].policy = pass[p].policy
  BY <1>1, <1>2, ZenonT(30) DEF PassRecords
<1>4. UNCHANGED <<inc, links, policy, solved, known, linker, raced>> /\ events' \in Nat
  BY <1>1 DEF AutoBegin, Event
<1>5. TypeOK'
  BY <1>3, <1>4 DEF IInv, TypeOK
<1>6. (OneHolder /\ HeldBeforeTodo /\ MovedIsStill)'
  BY <1>3, <1>4 DEF IInv, OneHolder, HeldBeforeTodo, MovedIsStill, SameVersion
<1>7. OneClaim'
  BY <1>4 DEF IInv, OneClaim, Claims
<1> QED BY <1>5, <1>6, <1>7 DEF IInv

LEMMA PlanKeeps ==
    ASSUME IInv, AutoPlan \/ \E pol \in Policies : ButtonPlan(pol)
    PROVE  IInv'
<1>1. \A pol \in Policies : Planned(pol).held = {} /\ Planned(pol).moved = {}
  BY DEF Planned, IdlePass
<1>2. policy \in Policies /\ events \in Nat /\ {"auto", "button"} = Passes /\ TypeOK
  BY DEF IInv, TypeOK, Passes
<1>3. CASE AutoPlan
  BY <1>1, <1>2, <1>3, PlannedType, FreshPassKeeps DEF AutoPlan
<1>4. ASSUME NEW pol \in Policies, ButtonPlan(pol) PROVE IInv'
  <2>1. /\ pass' = [pass EXCEPT !["button"] = Planned(pol)] /\ Event
        /\ UNCHANGED <<inc, links, policy, solved, known, linker, raced>>
    BY <1>4 DEF ButtonPlan
  <2>2. events' \in Nat
    BY <1>2, <2>1 DEF Event
  <2>3. Planned(pol) \in PassRecords
    BY <1>2, PlannedType
  <2> QED BY <1>1, <1>2, <2>1, <2>2, <2>3, FreshPassKeeps
<1> QED BY <1>3, <1>4

LEMMA AbortKeeps ==
    ASSUME IInv, NEW p \in Passes, Abort(p)
    PROVE  IInv'
<1>1. IdlePass \in PassRecords /\ IdlePass.held = {} /\ IdlePass.moved = {}
  BY DEF IdlePass, NoPlan, PassRecords, Policies, Fates
<1>2. events' \in Nat
  BY DEF Abort, Event, IInv, TypeOK
<1> QED BY <1>1, <1>2, FreshPassKeeps DEF Abort

\* Treating one incident: the lock is free and comes after those held; only
\* what was looked at again under the lock is moved.
LEMMA HandledKeeps ==
    ASSUME IInv, NEW p \in Passes, Acting(p), LockFree(p),
           NEW keeps \in BOOLEAN, NEW field, Handled(p, field, keeps),
           field = "moved" => /\ keeps
                              /\ StillResolves(p, At(p)) /\ SameVersion(p, At(p)),
           UNCHANGED <<inc, links, policy, solved, known, linker, raced, events>>
    PROVE  IInv'
<1>1. TypeOK
  BY DEF IInv
<1> DEFINE Passed ==
        /\ pass' \in [Passes -> PassRecords]
        /\ pass'[p].pc = "acting" /\ pass'[p].policy = pass[p].policy
        /\ pass'[p].plan = pass[p].plan
        /\ pass'[p].todo = pass[p].todo \ {At(p)}
        /\ pass'[p].held = IF keeps THEN pass[p].held \union {At(p)} ELSE pass[p].held
        /\ pass'[p].moved = IF field = "moved" THEN pass[p].moved \union {At(p)}
                                              ELSE pass[p].moved
        /\ \A o \in Passes \ {p} : pass'[o] = pass[o]
<1>0. Passed
  BY <1>1, HandledPass, Zenon
<1>2. TypeOK'
  BY <1>0, <1>1 DEF TypeOK
<1>3. /\ At(p) \in pass[p].todo /\ At(p) \in Nat /\ pass[p].todo \subseteq Nat
      /\ \A t \in pass[p].todo \ {At(p)} : At(p) < t
  <2>1. pass[p].todo \subseteq Nat
    BY <1>1, IncidentsAssumption DEF TypeOK, PassRecords
  <2> QED BY <1>1, <2>1, AtIsFirst
<1>4. pass'[p].held \subseteq pass[p].held \union {At(p)}
  BY <1>0
<1>5. OneHolder'
  BY <1>0, <1>4 DEF IInv, OneHolder, LockFree
<1>6. HeldBeforeTodo'
  BY <1>0, <1>3, <1>4 DEF IInv, HeldBeforeTodo
<1>7. MovedIsStill'
  <2> SUFFICES ASSUME NEW o \in Passes, NEW i \in pass'[o].moved
               PROVE  /\ i \in pass'[o].held
                      /\ Fate(inc[i], pass'[o].policy) = "resolve"
                      /\ inc[i].ver = pass'[o].plan[i].ver
    BY DEF MovedIsStill, SameVersion
  <2>1. CASE o # p
    BY <2>1, <1>0 DEF IInv, MovedIsStill, SameVersion
  <2>2. CASE o = p /\ i \in pass[p].moved
    BY <2>2, <1>0 DEF IInv, MovedIsStill, SameVersion
  <2>3. CASE o = p /\ i \notin pass[p].moved
    <3>1. field = "moved" /\ i = At(p) /\ keeps
      BY <2>3, <1>0
    <3> QED BY <3>1, <2>3, <1>0 DEF StillResolves, SameVersion
  <2> QED BY <2>1, <2>2, <2>3
<1>8. OneClaim'
  BY DEF IInv, OneClaim, Claims
<1> QED BY <1>2, <1>5, <1>6, <1>7, <1>8 DEF IInv

LEMMA TreatKeeps ==
    ASSUME IInv, NEW p \in Passes, Tell(p) \/ Reconsider(p) \/ Refuse(p) \/ Move(p)
    PROVE  IInv'
<1>1. CASE Tell(p)
  BY <1>1, HandledKeeps DEF Tell
<1>2. CASE Reconsider(p)
  BY <1>2, HandledKeeps DEF Reconsider, Resolving
<1>3. CASE Refuse(p)
  BY <1>3, HandledKeeps DEF Refuse, Resolving
<1>4. CASE Move(p)
  BY <1>4, HandledKeeps DEF Move, Resolving
<1> QED BY <1>1, <1>2, <1>3, <1>4

\* A commit writes the rows the pass holds, and those only.
LEMMA CommitKeeps ==
    ASSUME IInv, NEW p \in Passes, Commit(p)
    PROVE  IInv'
<1>1. /\ inc' = Resolved(pass[p].moved) /\ pass' = [pass EXCEPT ![p] = IdlePass]
      /\ UNCHANGED <<links, policy, linker, raced, events>>
      /\ solved' \in BOOLEAN /\ known' \in BOOLEAN
  BY DEF Commit, IInv, TypeOK
<1>2. pass \in [Passes -> PassRecords] /\ IdlePass \in PassRecords
  BY DEF IInv, TypeOK, IdlePass, NoPlan, PassRecords, Policies, Fates
<1>3. pass'[p] = IdlePass /\ \A o \in Passes \ {p} : pass'[o] = pass[o]
  BY <1>1, <1>2
<1>4. inc' \in [Incidents -> [ver : Nat, cat : Cats, owed : SUBSET Debts, touched : BOOLEAN]]
  <2> DEFINE Row == [ver : Nat, cat : Cats, owed : SUBSET Debts, touched : BOOLEAN]
  <2>1. ASSUME NEW r \in Row PROVE [r EXCEPT !.cat = "resolved", !.ver = @ + 1] \in Row
    <3>1. r.ver + 1 \in Nat /\ "resolved" \in Cats
      BY DEF Cats
    <3> QED BY <3>1
  <2>2. inc \in [Incidents -> Row]
    BY DEF IInv, TypeOK
  <2>3. /\ \A i \in pass[p].moved \intersect Incidents :
              inc'[i] = [inc[i] EXCEPT !.cat = "resolved", !.ver = @ + 1]
        /\ \A i \in Incidents \ pass[p].moved : inc'[i] = inc[i]
        /\ inc' = [i \in Incidents |-> inc'[i]]
    BY <1>1 DEF Resolved
  <2>4. ASSUME NEW i \in Incidents PROVE inc'[i] \in Row
    <3>1. inc[i] \in Row
      BY <2>2
    <3> HIDE DEF Row
    <3> QED BY <2>1, <2>3, <3>1
  <2> HIDE DEF Row
  <2>5. [i \in Incidents |-> inc'[i]] \in [Incidents -> Row]
    BY <2>4
  <2>6. inc' \in [Incidents -> Row]
    BY <2>3, <2>5
  <2> QED BY <2>6 DEF Row
<1>5. TypeOK'
  BY <1>1, <1>2, <1>4 DEF IInv, TypeOK
<1>6. (OneHolder /\ HeldBeforeTodo)'
  BY <1>3 DEF IInv, OneHolder, HeldBeforeTodo, IdlePass
<1>7. MovedIsStill'
  <2> SUFFICES ASSUME NEW o \in Passes, NEW i \in pass'[o].moved
               PROVE  /\ i \in pass'[o].held
                      /\ Fate(inc'[i], pass'[o].policy) = "resolve"
                      /\ inc'[i].ver = pass'[o].plan[i].ver
    BY DEF MovedIsStill, SameVersion
  <2>1. o # p /\ pass'[o] = pass[o]
    BY <1>3 DEF IdlePass
  <2>2. i \in Incidents /\ i \in pass[o].held
    BY <1>2, <2>1 DEF PassRecords, IInv, MovedIsStill
  <2>3. i \notin pass[p].moved
    BY <2>1, <2>2 DEF IInv, OneHolder, MovedIsStill
  <2>4. inc'[i] = inc[i]
    BY <1>1, <2>2, <2>3 DEF Resolved
  <2> QED BY <2>1, <2>2, <2>4 DEF IInv, MovedIsStill, SameVersion
<1>8. OneClaim'
  BY <1>1 DEF IInv, OneClaim, Claims
<1> QED BY <1>5, <1>6, <1>7, <1>8 DEF IInv

-----------------------------------------------------------------------------
LEMMA StepIInv == IInv /\ [Next]_vars => IInv'
<1> SUFFICES ASSUME IInv, [Next]_vars PROVE IInv'
  OBVIOUS
<1>1. ASSUME NEW i \in Incidents, Desk(i) PROVE IInv'
  BY <1>1, DeskKeeps
<1>2. ASSUME \/ \E pol \in Policies : SetPolicy(pol)
             \/ SetKnown \/ ReopenProblem PROVE IInv'
  BY <1>2, RecordKeeps
<1>3. ASSUME NEW q \in Problems, NEW i \in Incidents, LinkCheck(q, i) PROVE IInv'
  BY <1>3, LinkCheckKeeps
<1>4. ASSUME \/ LinkVictim
             \/ \E q \in Problems : LinkWrite(q) \/ \E i \in Incidents : Unlink(q, i)
      PROVE  IInv'
  BY <1>4, LinkEndKeeps
<1>5. CASE AutoBegin
  BY <1>5, BeginKeeps
<1>6. ASSUME AutoPlan \/ \E pol \in Policies : ButtonPlan(pol) PROVE IInv'
  BY <1>6, PlanKeeps
<1>7. ASSUME NEW p \in Passes, Tell(p) \/ Reconsider(p) \/ Refuse(p) \/ Move(p) PROVE IInv'
  BY <1>7, TreatKeeps
<1>8. ASSUME NEW p \in Passes, Commit(p) PROVE IInv'
  BY <1>8, CommitKeeps
<1>9. ASSUME NEW p \in Passes, Abort(p) PROVE IInv'
  BY <1>9, AbortKeeps
<1>10. CASE UNCHANGED vars
  BY <1>10 DEF vars, IInv, TypeOK, OneHolder, HeldBeforeTodo, MovedIsStill, SameVersion,
               OneClaim, Claims
<1> QED BY <1>1, <1>2, <1>3, <1>4, <1>5, <1>6, <1>7, <1>8, <1>9, <1>10 DEF Next, Desk

LEMMA SpecIInv == Spec => []IInv
BY InitIInv, StepIInv, PTL DEF Spec

-----------------------------------------------------------------------------
(* Results *)

\* Two passes that waited for each other would each hold what the other is at,
\* and each hold only what comes before what it is at itself.
LEMMA NoCircle == IInv => PassesDoNotLockOut
<1> SUFFICES ASSUME IInv PROVE PassesDoNotLockOut
  OBVIOUS
<1> SUFFICES ASSUME \A p \in Passes : Acting(p) /\ ~LockFree(p) PROVE FALSE
  BY DEF IInv, PassesDoNotLockOut
<1> DEFINE a == At("auto")
           b == At("button")
<1>1. a \in pass["auto"].todo /\ b \in pass["button"].todo /\ a \in Nat /\ b \in Nat
  BY AtIsFirst DEF Passes, IInv
<1>2. a \in pass["button"].held /\ b \in pass["auto"].held
  BY DEF LockFree, Passes
<1>3. a < b /\ b < a
  BY <1>1, <1>2 DEF IInv, HeldBeforeTodo, Passes
<1> QED BY <1>1, <1>3

\* The automatic pass and the button, however they interleave with each other
\* and with the desk, never wait for each other in a circle.
THEOREM ProblemPassesDoNotLockOut == Spec => []PassesDoNotLockOut
BY SpecIInv, NoCircle, PTL

LEMMA OneProblem == IInv => OneProblemUnlessRaced
<1> SUFFICES ASSUME IInv, NEW i \in Incidents \ raced
             PROVE  Cardinality({q \in Problems : <<i, q>> \in links}) <= 1
  BY DEF OneProblemUnlessRaced
<1> DEFINE Holders == {q \in Problems : <<i, q>> \in links}
<1>1. \A q, r \in Holders : q = r
  BY DEF IInv, OneClaim, Claims
<1>2. Cardinality(Holders) \in {0, 1}
  <2> HIDE DEF Holders
  <2>1. CASE Holders = {}
    BY <2>1, FS_EmptySet
  <2>2. CASE Holders # {}
    <3>1. PICK q \in Holders : TRUE
      BY <2>2
    <3>2. Holders = {q}
      BY <1>1, <3>1
    <3> QED BY <3>2, FS_Singleton
  <2> QED BY <2>1, <2>2
<1> QED BY <1>2

\* An incident hangs under two problems only if the requests that put it there
\* overlapped, whatever is linked, unlinked and cascaded besides.
THEOREM ProblemOneProblemUnlessRaced == Spec => []OneProblemUnlessRaced
BY SpecIInv, OneProblem, PTL

LEMMA CommitTalksOverNobody ==
    ASSUME IInv, Next, NEW p \in Passes, Commits(p), NEW i \in Incidents, inc'[i] # inc[i]
    PROVE  Fate(inc[i], pass[p].policy) = "resolve" /\ SameVersion(p, i)
<1>1. pass'[p].pc = "idle" /\ pass[p].pc = "acting"
  BY DEF Commits
<1>2. CASE Commit(p)
  <2>1. inc' = Resolved(pass[p].moved)
    BY <1>2 DEF Commit
  <2>2. i \in pass[p].moved
    BY <2>1 DEF Resolved, IInv, TypeOK
  <2> QED BY <2>2 DEF IInv, MovedIsStill
<1>3. ASSUME NEW o \in Passes, Commit(o), o # p PROVE FALSE
  BY <1>1, <1>3 DEF Commit, IInv, TypeOK
<1>4. ASSUME NEW j \in Incidents, Desk(j) PROVE FALSE
  <2>1. pass' = pass
    BY <1>4, DeskChange DEF Others, IInv
  <2> QED BY <1>1, <2>1
<1>5. ASSUME Next, \A o \in Passes : ~Commit(o), \A j \in Incidents : ~Desk(j)
      PROVE  inc' = inc
  BY <1>5 DEF Next, Desk, SetPolicy, SetKnown, ReopenProblem, LinkVictim, LinkCheck,
              LinkWrite, Unlink, AutoBegin, AutoPlan, ButtonPlan, Tell, Reconsider,
              Refuse, Move, Abort
<1> QED BY <1>2, <1>3, <1>4, <1>5

\* What a pass resolves is, at its commit and for whatever happened since its
\* plan, unresolved, unedited, answered and within its policy.
THEOREM ProblemNobodyIsTalkedOver == Spec => NobodyIsTalkedOver
<1>1. IInv /\ [Next]_vars =>
        [\A p \in Passes : Commits(p) =>
            \A i \in Incidents : inc'[i] # inc[i] =>
               /\ Fate(inc[i], pass[p].policy) = "resolve"
               /\ SameVersion(p, i)]_vars
  BY CommitTalksOverNobody
<1> QED BY <1>1, SpecIInv, PTL DEF Spec, NobodyIsTalkedOver
-----------------------------------------------------------------------------
(* What the cap defers. *)

\* A set of naturals with a bound has a greatest element: the least of its bounds.
LEMMA GreatestExists ==
    ASSUME NEW S \in SUBSET Nat, S # {}, NEW n \in Nat, \A x \in S : x < n
    PROVE  \E x \in S : \A y \in S : y <= x
<1> DEFINE Bounds == {m \in Nat : \A y \in S : y <= m}
<1>1. Bounds \in SUBSET Nat /\ Bounds # {}
  <2>1. n \in Bounds
    OBVIOUS
  <2> QED BY <2>1
<1>2. PICK m \in Bounds : \A b \in Bounds : m <= b
  <2> HIDE DEF Bounds
  <2> QED BY <1>1, LeastExists
<1>3. m \in S
  <2> SUFFICES ASSUME m \notin S PROVE FALSE
    OBVIOUS
  <2>1. PICK y \in S : TRUE
    OBVIOUS
  <2>2. \A x \in S : x <= m - 1 /\ m > 0
    OBVIOUS
  <2>3. m - 1 \in Bounds
    BY <2>1, <2>2
  <2> QED BY <1>2, <2>3
<1> QED BY <1>3

\* Once the cap defers one member of a set, exactly n come before it is reached.
LEMMA CapCuts ==
    ASSUME NEW work \in SUBSET Nat, IsFiniteSet(work), NEW n \in Nat, NEW last \in work,
           Cardinality({j \in work : j < last}) >= n
    PROVE  Cardinality({i \in work : ~(Cardinality({j \in work : j < i}) >= n)}) = n
<1> DEFINE Below(i) == {j \in work : j < i}
           Late     == {i \in work : Cardinality(Below(i)) >= n}
           Early    == {i \in work : ~(Cardinality(Below(i)) >= n)}
<1>1. ASSUME NEW i \in work
      PROVE  IsFiniteSet(Below(i)) /\ Cardinality(Below(i)) \in Nat
  <2>1. Below(i) \subseteq work
    OBVIOUS
  <2> HIDE DEF Below
  <2> QED BY <2>1, FS_Subset, FS_CardinalityType
<1>2. PICK first \in Late : \A i \in Late : first <= i
  <2>1. Late \in SUBSET Nat /\ Late # {}
    OBVIOUS
  <2> HIDE DEF Late
  <2> QED BY <2>1, LeastExists
<1>3. Early = Below(first)
  <2>1. ASSUME NEW e \in Early PROVE e \in Below(first)
    <3> SUFFICES ASSUME ~(e < first) PROVE FALSE
      OBVIOUS
    <3>0. e \in Nat /\ first \in Nat /\ work \subseteq Nat /\ first <= e /\ e \in work
      OBVIOUS
    <3>1. Below(first) \subseteq Below(e)
      <4> HIDE DEF Late, Early
      <4>1. \A j \in work : j < first => j < e
        BY <3>0
      <4> QED BY <4>1
    <3>2. Cardinality(Below(first)) <= Cardinality(Below(e))
      <4> HIDE DEF Below
      <4> QED BY <1>1, <3>0, <3>1, FS_Subset
    <3>3. Cardinality(Below(first)) >= n /\ ~(Cardinality(Below(e)) >= n)
      OBVIOUS
    <3>4. Cardinality(Below(first)) \in Nat /\ Cardinality(Below(e)) \in Nat
      BY <1>1
    <3> HIDE DEF Below
    <3> QED BY <3>2, <3>3, <3>4
  <2>2. ASSUME NEW i \in Below(first) PROVE i \in Early
    BY <1>2
  <2> QED BY <2>1, <2>2
<1>4. first \in work /\ Cardinality(Below(first)) >= n
  OBVIOUS
<1>5. CASE Below(first) = {}
  <2>1. Cardinality(Below(first)) = 0
    BY <1>5, FS_EmptySet
  <2> HIDE DEF Below, Early
  <2>2. Cardinality(Early) = n
    BY <1>3, <1>4, <2>1
  <2> QED BY <2>2 DEF Early, Below
<1>6. CASE Below(first) # {}
  <2>1. PICK k \in Below(first) : \A j \in Below(first) : j <= k
    <3>1. Below(first) \in SUBSET Nat /\ \A x \in Below(first) : x < first
      OBVIOUS
    <3> HIDE DEF Below
    <3> QED BY <1>4, <1>6, <3>1, GreatestExists
  <2>2. Below(first) = Below(k) \union {k} /\ k \notin Below(k) /\ k \in work
    <3>1. k \in work /\ k \in Nat /\ first \in Nat /\ work \subseteq Nat /\ k < first
      OBVIOUS
    <3>2. ASSUME NEW j \in work PROVE j < first <=> j < k \/ j = k
      BY <2>1, <3>1
    <3>3. ASSUME NEW j PROVE j \in Below(first) <=> j \in Below(k) \/ j = k
      BY <3>1, <3>2
    <3>4. k \notin Below(k)
      BY <3>1
    <3> HIDE DEF Below
    <3> QED BY <3>1, <3>3, <3>4
  <2>3. Cardinality(Below(first)) = Cardinality(Below(k)) + 1
    <3> HIDE DEF Below
    <3> QED BY <1>1, <2>2, FS_AddElement
  <2>4. ~(Cardinality(Below(k)) >= n)
    BY <1>3, <2>1
  <2>5. Cardinality(Below(k)) \in Nat /\ Cardinality(Below(first)) \in Nat
    BY <1>1, <1>4, <2>2
  <2>6. Cardinality(Below(first)) = n
    <3> HIDE DEF Below
    <3> QED BY <1>4, <2>3, <2>4, <2>5
  <2> QED BY <1>3, <2>6
<1> QED BY <1>5, <1>6

\* A fresh plan gives every incident under the problem its place: finished work,
\* something to do, or deferred while the cap is used up.
LEMMA PlanCovers ==
    ASSUME TypeOK, NEW pol \in Policies, NEW i \in Under(Problem)
    PROVE  \/ Planned(pol).plan[i].fate = "skip"
           \/ i \in Planned(pol).todo
           \/ /\ Planned(pol).plan[i].fate = "later"
              /\ Cardinality(Planned(pol).todo) = Cap
<1> DEFINE work    == {j \in Under(Problem) : Fate(inc[j], pol) # "skip"}
           late(j) == Cardinality({k \in work : k < j}) >= Cap
<1>1. work \in SUBSET Nat /\ IsFiniteSet(work) /\ work \subseteq Incidents
  <2>1. work \subseteq Incidents
    BY DEF Under
  <2> QED BY <2>1, IncidentsAssumption, FS_Subset
<1>2. Planned(pol).plan = Plan(pol)
      /\ Planned(pol).todo = {j \in Incidents : Plan(pol)[j].fate \in {"blocked", "tell", "resolve"}}
  BY DEF Planned, IdlePass
<1>3. \A j \in Incidents : Plan(pol)[j].fate = IF j \notin Under(Problem) THEN "none"
                                             ELSE IF j \in work /\ late(j) THEN "later"
                                             ELSE Fate(inc[j], pol)
  BY DEF Plan
<1>4. \A j \in Incidents : Fate(inc[j], pol) \in {"skip", "blocked", "tell", "resolve"}
  BY DEF Fate
<1>5. i \in Incidents
  BY DEF Under
<1>6. Planned(pol).todo = {j \in work : ~late(j)}
  <2>1. \A j \in Incidents : /\ j \in work <=> j \in Under(Problem) /\ Fate(inc[j], pol) # "skip"
                             /\ late(j) \in BOOLEAN
    OBVIOUS
  <2> HIDE DEF work, late
  <2> QED BY <1>1, <1>2, <1>3, <1>4, <2>1
<1>7. CASE i \notin work
  BY <1>2, <1>3, <1>5, <1>7
<1>8. CASE i \in work /\ ~late(i)
  BY <1>6, <1>8
<1>9. CASE i \in work /\ late(i)
  <2>1. Planned(pol).plan[i].fate = "later"
    BY <1>2, <1>3, <1>5, <1>9
  <2>2. Cardinality({j \in work : ~late(j)}) = Cap
    <3> HIDE DEF work
    <3> QED BY <1>1, <1>9, CapCuts, BoundsAssumption
  <2> QED BY <1>6, <2>1, <2>2
<1> QED BY <1>7, <1>8, <1>9

Answered(run) == run.moved \union run.told \union run.refused

\* Every incident under the problem has its place in the automatic pass.  It keeps
\* it because nothing is linked to the problem while the pass acts.
Placed(run, i) ==
    \/ run.plan[i].fate = "skip"
    \/ i \in run.todo \union Answered(run)
    \/ /\ run.plan[i].fate = "later"
       /\ Cardinality(run.todo \union Answered(run)) = Cap

NobodyLeftOut ==
    pass["auto"].pc = "acting" =>
        /\ linker[Problem] = Nil
        /\ \A i \in Under(Problem) : Placed(pass["auto"], i)

\* Treating an incident moves it from what is to do to what is answered.
LEMMA HandledAnswers ==
    ASSUME TypeOK, NEW p \in Passes, Acting(p), NEW keeps \in BOOLEAN,
           NEW field \in {"moved", "told", "refused"}, Handled(p, field, keeps)
    PROVE  /\ pass'[p].plan = pass[p].plan
           /\ pass'[p].todo \union Answered(pass'[p]) = pass[p].todo \union Answered(pass[p])
<1> DEFINE now == pass[p]
<1>1. /\ now \in PassRecords /\ At(p) \in now.todo
      /\ pass \in [Passes -> PassRecords]
  BY AtIsFirst DEF TypeOK
<1> DEFINE into(set) == IF field = set THEN {At(p)} ELSE {}
           next == [now EXCEPT !.todo = @ \ {At(p)},
                        !.held = IF keeps THEN @ \union {At(p)} ELSE @,
                        !.moved = @ \union into("moved"),
                        !.told = @ \union into("told"),
                        !.refused = @ \union into("refused")]
<1>2. pass'[p] = next
  BY <1>1 DEF Handled
<1>3. /\ next.plan = now.plan /\ next.todo = now.todo \ {At(p)}
      /\ next.moved = now.moved \union into("moved")
      /\ next.told = now.told \union into("told")
      /\ next.refused = now.refused \union into("refused")
  BY <1>1 DEF PassRecords
<1>4. into("moved") \union into("told") \union into("refused") = {At(p)}
  OBVIOUS
<1> HIDE DEF next, now, into
<1> QED BY <1>1, <1>2, <1>3, <1>4 DEF Answered, now

\* Every step keeps everybody's place.
LEMMA StepNobodyLeftOut ==
    ASSUME IInv, NobodyLeftOut, [Next]_vars
    PROVE  NobodyLeftOut'
<1> DEFINE Still == /\ Under(Problem)' \subseteq Under(Problem)
                    /\ linker[Problem] = Nil => linker'[Problem] = Nil
                    /\ pass'["auto"] = pass["auto"]
<1>a. /\ pass \in [Passes -> PassRecords] /\ "auto" \in Passes /\ "button" \in Passes
      /\ linker \in [Problems -> Incidents \union {Nil}]
      /\ Problem \in Problems /\ policy \in Policies
  BY DEF IInv, TypeOK, Passes, Problems
<1>b. ASSUME Still PROVE NobodyLeftOut'
  BY <1>b DEF NobodyLeftOut
<1>c. ASSUME pass'["auto"].pc # "acting" PROVE NobodyLeftOut'
  BY <1>c DEF NobodyLeftOut
<1>d. CASE pass["auto"].pc # "acting" /\ pass'["auto"] = pass["auto"]
  BY <1>d DEF NobodyLeftOut
<1>1. ASSUME NEW i \in Incidents, Desk(i) PROVE NobodyLeftOut'
  <2>1. UNCHANGED <<links, linker, pass>>
    BY <1>1, DeskChange DEF Others, IInv
  <2> QED BY <1>b, <2>1 DEF Under
<1>2. ASSUME \/ \E pol \in Policies : SetPolicy(pol) \/ ButtonPlan(pol)
             \/ SetKnown \/ ReopenProblem \/ LinkVictim
      PROVE  NobodyLeftOut'
  <2>1. UNCHANGED links /\ pass'["auto"] = pass["auto"]
    BY <1>2, <1>a DEF SetPolicy, ButtonPlan, SetKnown, ReopenProblem, LinkVictim
  <2>2. linker[Problem] = Nil => linker'[Problem] = Nil
    BY <1>2, <1>a DEF SetPolicy, ButtonPlan, SetKnown, ReopenProblem, LinkVictim
  <2> QED BY <1>b, <2>1, <2>2 DEF Under
<1>3. ASSUME NEW q \in Problems, NEW i \in Incidents, LinkCheck(q, i) \/ Unlink(q, i)
      PROVE  NobodyLeftOut'
  <2>1. pass' = pass /\ links' \subseteq links
    BY <1>3 DEF LinkCheck, Unlink
  <2>2. CASE pass["auto"].pc = "acting"
    <3>1. q # Problem
      BY <1>3, <2>2 DEF LinkCheck, Unlink, RowFree
    <3>2. linker'[Problem] = linker[Problem]
      BY <1>3, <1>a, <3>1 DEF LinkCheck, Unlink
    <3> QED BY <1>b, <2>1, <3>2 DEF Under
  <2> QED BY <1>d, <2>1, <2>2
<1>4. ASSUME NEW q \in Problems, LinkWrite(q) PROVE NobodyLeftOut'
  <2>1. /\ pass' = pass /\ links' = links \union {<<linker[q], q>>}
        /\ linker[q] # Nil /\ linker' = [linker EXCEPT ![q] = Nil]
    BY <1>4 DEF LinkWrite
  <2>2. CASE pass["auto"].pc = "acting"
    <3>1. q # Problem
      BY <2>1, <2>2 DEF NobodyLeftOut
    <3>2. Under(Problem)' = Under(Problem) /\ linker'[Problem] = linker[Problem]
      BY <2>1, <1>a, <3>1 DEF Under
    <3> QED BY <1>b, <2>1, <3>2
  <2> QED BY <1>d, <2>1, <2>2
<1>5. CASE AutoBegin
  BY <1>5, <1>a, <1>c DEF AutoBegin, PassRecords
<1>6. CASE AutoPlan
  <2>1. pass'["auto"] = Planned(policy) /\ linker[Problem] = Nil /\ UNCHANGED <<links, linker>>
    BY <1>6, <1>a DEF AutoPlan, RowFree
  <2>2. Answered(Planned(policy)) = {}
    BY DEF Answered, Planned, IdlePass
  <2>3. ASSUME NEW i \in Under(Problem) PROVE Placed(Planned(policy), i)
    BY <2>2, <2>3, <1>a, PlanCovers DEF Placed, IInv
  <2> QED BY <2>1, <2>3 DEF NobodyLeftOut, Under
<1>7. ASSUME NEW p \in Passes, Tell(p) \/ Reconsider(p) \/ Refuse(p) \/ Move(p)
      PROVE  NobodyLeftOut'
  <2>1. PICK field \in {"moved", "told", "refused"}, keeps \in BOOLEAN :
           Handled(p, field, keeps)
    BY <1>7 DEF Tell, Reconsider, Refuse, Move
  <2>2. UNCHANGED <<links, linker>> /\ Acting(p) /\ TypeOK
    BY <1>7 DEF Tell, Reconsider, Refuse, Move, Resolving, IInv
  <2>3. /\ pass'[p].plan = pass[p].plan
        /\ pass'[p].todo \union Answered(pass'[p]) = pass[p].todo \union Answered(pass[p])
    BY <2>1, <2>2, HandledAnswers
  <2>4. \A o \in Passes \ {p} : pass'[o] = pass[o]
    BY <2>1, <1>a DEF Handled
  <2>5. CASE p = "auto"
    <3>1. pass["auto"].pc = "acting"
      BY <2>2, <2>5 DEF Acting
    <3> QED BY <2>2, <2>3, <2>5, <3>1 DEF NobodyLeftOut, Placed, Under
  <2>6. CASE p # "auto"
    BY <1>a, <1>b, <2>2, <2>4, <2>6 DEF Under
  <2> QED BY <2>5, <2>6
<1>8. ASSUME NEW p \in Passes, Commit(p) \/ Abort(p) PROVE NobodyLeftOut'
  <2>1. pass' = [pass EXCEPT ![p] = IdlePass] /\ UNCHANGED <<links, linker>>
    BY <1>8 DEF Commit, Abort
  <2>2. CASE p = "auto"
    BY <1>a, <1>c, <2>1, <2>2 DEF IdlePass
  <2>3. CASE p # "auto"
    BY <1>a, <1>b, <2>1, <2>3 DEF Under
  <2> QED BY <2>2, <2>3
<1>9. CASE UNCHANGED vars
  BY <1>9, <1>b DEF vars, Under
<1> QED BY <1>1, <1>2, <1>3, <1>4, <1>5, <1>6, <1>7, <1>8, <1>9 DEF Next, Desk

\* When the automatic pass resolves the problem, every incident then under it had
\* been finished before, moved, told or refused by the pass, or deferred because
\* exactly Cap others were not finished: for any set of incidents and any cap, and
\* whatever is edited, linked and unlinked meanwhile.
THEOREM ProblemNoOneIsForgotten == Spec => NoOneIsForgotten
<1> DEFINE Full == Commits("auto") /\ solved' /\ ~solved =>
                     LET run == pass["auto"]
                     IN  \A i \in Under(Problem) :
                           \/ run.plan[i].fate = "skip"
                           \/ i \in run.moved \union run.told \union run.refused
                           \/ /\ run.plan[i].fate = "later"
                              /\ Cardinality(run.moved \union run.told \union run.refused) = Cap
<1>1. NobodyLeftOut => [Full]_vars
  BY DEF NobodyLeftOut, Placed, Answered, Commits
<1>2. Init => NobodyLeftOut
  BY DEF Init, NobodyLeftOut, IdlePass, Passes
<1>3. IInv /\ NobodyLeftOut /\ [Next]_vars => NobodyLeftOut'
  BY StepNobodyLeftOut
<1> QED BY <1>1, <1>2, <1>3, SpecIInv, PTL DEF Spec, NoOneIsForgotten
=============================================================================
