--------------------------- MODULE Workers_proofs ---------------------------
(***************************************************************************)
(* What holds of two of the background workers for every value of the      *)
(* constants: the escalation ladders (module Escalation), and the lock     *)
(* that elects the process whose workers run (module LeaderLock).          *)
(*                                                                         *)
(* Ladders.  The invariant says of each occurrence on its own how its run, *)
(* its claims and its pages agree (Climb): the claims are the rungs before *)
(* the cursor, at most with the cursor's own once the run is closed.  It   *)
(* is inductive only together with the lock of a firing pass: the row it   *)
(* is about to claim for is armed, due and its own (FiringHoldsRow).  From *)
(* it follow that a ladder's climb is accounted for, that a settled ticket *)
(* has no armed run but those that escaped, and that the ladder implements *)
(* EscalationPromise.                                                      *)
(*                                                                         *)
(* Leader.  A replica in good standing that runs workers is the one        *)
(* Postgres gave the lock to, so two of them never run workers together.   *)
(***************************************************************************)
EXTENDS Escalation, LeaderLock, TLAPS

-----------------------------------------------------------------------------
(* The invariant of the ladders.                                             *)

\* The rung of step s and repeat r comes before the cursor of the run.
Earlier(s, r, run) == s < run.step \/ (s = run.step /\ r < run.rep)

\* The claims of one occurrence are the rungs before its cursor, and at most the
\* cursor itself once the run is closed.
ClaimsFollow(o, run, claims) ==
    /\ run.rep < Repeats[run.step]
    /\ \A s \in Steps, r \in Nat :
          /\ r < Repeats[s] /\ Earlier(s, r, run) => <<o, s, r>> \in claims
          /\ <<o, s, r>> \in claims =>
                \/ r < Repeats[s] /\ Earlier(s, r, run)
                \/ s = run.step /\ r = run.rep
    /\ run.state = "armed" => <<o, run.step, run.rep>> \notin claims

\* A run that was never armed has left nothing behind.
FreshUntilArmed(o, run, claims) ==
    run.state = "none" =>
        /\ run.step = 0 /\ run.rep = 0
        /\ \A s \in Steps, r \in Nat : <<o, s, r>> \notin claims

PagesFollow(o, claims, paged) ==
    \A i \in DOMAIN paged : <<o, paged[i].step, paged[i].rep>> \in claims

\* The due instant of an armed run leaves the offset, and the interval since the
\* last page of its step, time to pass.
DueInTime(run, paged) ==
    run.state = "armed" =>
        /\ run.due >= run.anchor + After[run.step]
        /\ \A i \in DOMAIN paged :
              paged[i].step = run.step => run.due >= paged[i].at + After[run.step]

OnTime(run, paged) ==
    \A i \in DOMAIN paged :
        /\ paged[i].at >= run.anchor + After[paged[i].step]
        /\ i > 1 /\ paged[i - 1].step = paged[i].step
             => paged[i].at >= paged[i - 1].at + After[paged[i].step]

\* One occurrence of the ladder: its run, its claims and its pages agree.
Climb(o, run, claims, paged) ==
    /\ ClaimsFollow(o, run, claims)
    /\ FreshUntilArmed(o, run, claims)
    /\ PagesFollow(o, claims, paged)
    /\ (run.due # NoDue) <=> run.state = "armed"
    /\ DueInTime(run, paged)
    /\ OnTime(run, paged)

\* A pass that is firing holds the row of an armed run that is due, alone.
FiringHoldsRow ==
    \A p \in Passes : pass[p].pc = "firing" =>
        /\ Armed(pass[p].run)
        /\ runs[pass[p].run].due <= pass[p].at
        /\ \A q \in Passes : pass[q].pc = "firing" /\ pass[q].run = pass[p].run => q = p

\* What is about to be cancelled by id exists.
IdsAreKnown == \A o \in cancelling \union desk.armed : runs[o].state # "none"

IInv ==
    /\ TypeOK
    /\ \A o \in Occ : Climb(o, runs[o], fires, pages[o])
    /\ FiringHoldsRow
    /\ IdsAreKnown

\* While a settling transition is under way, and after it, an armed run is one
\* it has read or one that escaped it.
EscapeIsNoted ==
    /\ ticket.cat \in Settled => \A o \in Occ : Armed(o) => o \in escaped
    /\ desk.pc = "settling" => \A o \in Occ : Armed(o) => o \in desk.armed \union escaped

-----------------------------------------------------------------------------
(* Types.                                                                   *)

States  == {"none", "armed"} \union ClosedStates
Stages  == {"idle", "silent", "arming", "inserting", "listing", "due", "firing"}
Run     == [state : States, step : Steps, rep : Nat, due : Nat \union {NoDue},
            anchor : 0..MaxNow]
Page    == [step : Steps, rep : Nat, at : 0..MaxNow]
APass   == [pc : Stages, at : 0..MaxNow, ref : Occ, known : BOOLEAN, stale : BOOLEAN,
            listed : SUBSET Occ, run : Occ, steps : 0..MaxSteps]

\* The type invariant, with its record types named.
LEMMA TypesNamed ==
    TypeOK <=>
        /\ now \in 0..MaxNow
        /\ ladder \in [trigger : {"no_update", "priority"}, enabled : BOOLEAN,
                       steps : 1..MaxSteps, touches : BOOLEAN]
        /\ ticket \in [cat : {"open", "resolved", "closed", "gone"}, updatedAt : 0..MaxNow,
                       urgency : Urgencies, stop : BOOLEAN]
        /\ runs \in [Occ -> Run]
        /\ fires \in SUBSET (Occ \X Steps \X Nat)
        /\ pages \in [Occ -> Seq(Page)]
        /\ pass \in [Passes -> APass]
        /\ desk \in [pc : {"idle", "settling"}, to : {"open"} \union Settled, armed : SUBSET Occ]
        /\ cancelling \in SUBSET Occ
        /\ escaped \in SUBSET Occ
        /\ events \in 0..MaxEvents
BY DEF TypeOK, Run, Page, APass, States, Stages

\* What the assumptions on the constants give each step of the ladder.
LEMMA Constants ==
    /\ 0 \in Steps /\ Urgencies \subseteq Occ /\ 0 \in Occ /\ Occ \subseteq Nat
    /\ \A s \in Steps : After[s] \in Nat /\ Repeats[s] \in Nat \ {0}
    /\ Steps \subseteq Nat
    /\ \A s \in Steps : \A n \in 1..MaxSteps : s + 1 < n => s + 1 \in Steps
BY BoundsAssumption, OffsetsAssumption DEF Steps, Urgencies, Occ

\* Closing keeps the type of a run, ...
LEMMA ClosedType ==
    ASSUME NEW run \in Run, NEW state \in ClosedStates
    PROVE  Closed(run, state) \in Run
BY DEF Run, Closed, States

\* ... and of all of them.
LEMMA CloseAllType ==
    ASSUME runs \in [Occ -> Run], NEW set, NEW state \in ClosedStates
    PROVE  CloseAll(set, state) \in [Occ -> Run]
<1> SUFFICES ASSUME NEW o \in Occ
    PROVE (IF o \in set THEN Closed(runs[o], state) ELSE runs[o]) \in Run
  BY DEF CloseAll
<1> QED
  BY ClosedType

\* A run is inserted with its type.
LEMMA InsertedType ==
    ASSUME runs \in [Occ -> Run], NEW o \in Occ, NEW anchor \in 0..MaxNow
    PROVE  Inserted(o, anchor) \in [Occ -> Run]
<1>1. anchor + After[0] \in Nat
  BY Constants, BoundsAssumption
<1>2. [state |-> "armed", step |-> 0, rep |-> 0,
       due |-> anchor + After[0], anchor |-> anchor] \in Run
  BY <1>1, Constants DEF Run, States
<1> DEFINE new == [state |-> "armed", step |-> 0, rep |-> 0,
                   due |-> anchor + After[0], anchor |-> anchor]
<1>3. new \in Run
  BY <1>2
<1>4. Inserted(o, anchor) = IF runs[o].state = "none" THEN [runs EXCEPT ![o] = new] ELSE runs
  BY DEF Inserted
<1> HIDE DEF new
<1> QED
  BY <1>3, <1>4

\* Advancing keeps the type of a run.
LEMMA AdvancedType ==
    ASSUME NEW run \in Run, NEW steps \in 0..MaxSteps, NEW at \in 0..MaxNow
    PROVE  Advanced(run, steps, at) \in Run
<1>0. /\ run.step \in Steps /\ run.rep \in Nat /\ run.anchor \in Nat /\ at \in Nat
      /\ run.state \in States /\ run.anchor \in 0..MaxNow
  BY BoundsAssumption DEF Run
<1>a. ASSUME NEW s \in Steps PROVE After[s] \in Nat
  BY Constants, Zenon
<1>1. ASSUME NEW s \in Steps, NEW r \in Nat, NEW d \in Nat
      PROVE  [run EXCEPT !.step = s, !.rep = r, !.due = d] \in Run
  BY DEF Run
<1>2. CASE run.rep + 1 < Repeats[run.step]
  <2>1. at + After[run.step] \in Nat /\ run.rep + 1 \in Nat
    <3>1. After[run.step] \in Nat
      BY <1>0, <1>a
    <3> QED
      BY <1>0, <3>1
  <2>2. [run EXCEPT !.rep = run.rep + 1, !.due = at + After[run.step]] \in Run
    BY <2>1 DEF Run
  <2>3. Advanced(run, steps, at)
          = [run EXCEPT !.rep = run.rep + 1, !.due = at + After[run.step]]
    BY <1>2, Zenon DEF Advanced
  <2> QED
    BY <2>2, <2>3
<1>3. CASE ~(run.rep + 1 < Repeats[run.step]) /\ run.step + 1 < steps
  <2>0. run.step + 1 \in Steps
    BY <1>3, <1>0, Constants, BoundsAssumption DEF Steps
  <2>1. run.anchor + After[run.step + 1] \in Nat
    <3>1. After[run.step + 1] \in Nat
      BY <2>0, <1>a
    <3> QED
      BY <1>0, <3>1
  <2>2. [run EXCEPT !.step = run.step + 1, !.rep = 0,
                    !.due = run.anchor + After[run.step + 1]] \in Run
    BY <1>1, <2>0, <2>1
  <2>3. Advanced(run, steps, at)
          = [run EXCEPT !.step = run.step + 1, !.rep = 0,
                        !.due = run.anchor + After[run.step + 1]]
    BY <1>3, Zenon DEF Advanced
  <2> QED
    BY <2>2, <2>3
<1>4. CASE ~(run.rep + 1 < Repeats[run.step]) /\ ~(run.step + 1 < steps)
  BY <1>4, ClosedType DEF ClosedStates, Advanced
<1> QED
  BY <1>2, <1>3, <1>4

\* The stages a pass moves to are passes.
LEMMA PassTypes ==
    ASSUME pass \in [Passes -> APass], NEW p \in Passes
    PROVE  /\ \A pc \in Stages : Goto(p, pc) => pass' \in [Passes -> APass]
           /\ \A o \in Occ : Unlist(p, o) => pass' \in [Passes -> APass]
           /\ IdlePass \in APass
           /\ \A at \in 0..MaxNow, listed \in SUBSET Occ : Listing(at, listed) \in APass
<1>1. IdlePass \in APass
  BY Constants, BoundsAssumption DEF IdlePass, APass, Stages, Occ
<1>2. ASSUME NEW at \in 0..MaxNow, NEW listed \in SUBSET Occ
      PROVE  Listing(at, listed) \in APass
  BY <1>1 DEF Listing, APass, Stages, IdlePass
<1>3. ASSUME NEW pc \in Stages, Goto(p, pc)
      PROVE  pass' \in [Passes -> APass]
  <2>1. [pass[p] EXCEPT !.pc = pc] \in APass
    BY DEF APass
  <2> QED
    BY <1>3, <2>1 DEF Goto
<1>4. ASSUME NEW o \in Occ, Unlist(p, o)
      PROVE  pass' \in [Passes -> APass]
  <2>1. pass[p].at \in 0..MaxNow /\ pass[p].listed \ {o} \in SUBSET Occ
    BY DEF APass
  <2>2. Listing(pass[p].at, pass[p].listed \ {o}) \in APass
    BY <1>2, <2>1
  <2> QED
    BY <1>4, <2>2 DEF Unlist
<1> QED
  BY <1>1, <1>2, <1>3, <1>4

\* Every step keeps the types.
LEMMA StepType ==
    ASSUME TypeOK, [Next]_vars
    PROVE  TypeOK'
<1> DEFINE LadderT == [trigger : {"no_update", "priority"}, enabled : BOOLEAN,
                       steps : 1..MaxSteps, touches : BOOLEAN]
           TicketT == [cat : {"open", "resolved", "closed", "gone"}, updatedAt : 0..MaxNow,
                       urgency : Urgencies, stop : BOOLEAN]
           DeskT   == [pc : {"idle", "settling"}, to : {"open"} \union Settled,
                       armed : SUBSET Occ]
<1>0. /\ now \in 0..MaxNow /\ ladder \in LadderT /\ ticket \in TicketT
      /\ runs \in [Occ -> Run] /\ fires \in SUBSET (Occ \X Steps \X Nat)
      /\ pages \in [Occ -> Seq(Page)] /\ pass \in [Passes -> APass] /\ desk \in DeskT
      /\ cancelling \in SUBSET Occ /\ escaped \in SUBSET Occ /\ events \in 0..MaxEvents
  BY TypesNamed
<1> SUFFICES
      /\ now' \in 0..MaxNow /\ ladder' \in LadderT /\ ticket' \in TicketT
      /\ runs' \in [Occ -> Run] /\ fires' \in SUBSET (Occ \X Steps \X Nat)
      /\ pages' \in [Occ -> Seq(Page)] /\ pass' \in [Passes -> APass] /\ desk' \in DeskT
      /\ cancelling' \in SUBSET Occ /\ escaped' \in SUBSET Occ /\ events' \in 0..MaxEvents
  BY DEF TypeOK, Run, Page, APass, States, Stages
<1> DEFINE Goal ==
      /\ now' \in 0..MaxNow /\ ladder' \in LadderT /\ ticket' \in TicketT
      /\ runs' \in [Occ -> Run] /\ fires' \in SUBSET (Occ \X Steps \X Nat)
      /\ pages' \in [Occ -> Seq(Page)] /\ pass' \in [Passes -> APass] /\ desk' \in DeskT
      /\ cancelling' \in SUBSET Occ /\ escaped' \in SUBSET Occ /\ events' \in 0..MaxEvents
<1>ev. ASSUME Event PROVE events' \in 0..MaxEvents
  BY <1>0, <1>ev, BoundsAssumption DEF Event
<1>note. ASSUME NEW o \in Occ, NoteEscape(o) PROVE escaped' \in SUBSET Occ
  BY <1>0, <1>note DEF NoteEscape
<1>due. ASSUME NEW p \in Passes, NEW o \in Occ PROVE Unlist(p, o) => pass' \in [Passes -> APass]
  BY <1>0, PassTypes
<1>goto. ASSUME NEW p \in Passes, NEW pc \in Stages
         PROVE  Goto(p, pc) => pass' \in [Passes -> APass]
  BY <1>0, PassTypes
<1>run. ASSUME NEW p \in Passes PROVE pass[p].run \in Occ /\ pass[p].ref \in Occ
                                      /\ pass[p].at \in 0..MaxNow
                                      /\ pass[p].steps \in 0..MaxSteps
  BY <1>0 DEF APass
<1>now. now \in Occ /\ Occ = 0..MaxNow
  BY <1>0 DEF Occ
<1>tick. ASSUME NEW cat \in {"open", "resolved", "closed", "gone"}
         PROVE  [ticket EXCEPT !.cat = cat, !.updatedAt = now] \in TicketT
  BY <1>0
<1> HIDE DEF LadderT, TicketT, DeskT
<1>1. ASSUME NEW p \in Passes, SweepRead(p) PROVE Goal
  <2>1. ticket.updatedAt \in Occ
    BY <1>0 DEF TicketT, Occ
  <2>2. Known \in BOOLEAN /\ StaleArmed \in BOOLEAN
    BY DEF Known, StaleArmed
  <2> DEFINE new == [IdlePass EXCEPT !.pc = "silent", !.at = now, !.ref = ticket.updatedAt,
                                     !.known = Known, !.stale = StaleArmed]
  <2>a. ASSUME NEW r \in Occ, NEW k \in BOOLEAN, NEW s \in BOOLEAN
        PROVE  [IdlePass EXCEPT !.pc = "silent", !.at = now, !.ref = r,
                                !.known = k, !.stale = s] \in APass
    <3>1. ASSUME NEW x \in APass
          PROVE  [x EXCEPT !.pc = "silent", !.at = now, !.ref = r, !.known = k, !.stale = s]
                   \in APass
      BY <1>0 DEF APass, Stages
    <3> QED
      BY <3>1, <1>0, PassTypes
  <2>3. new \in APass
    BY <2>1, <2>2, <2>a, Zenon
  <2>4. pass' = [pass EXCEPT ![p] = new]
    BY <1>1, Zenon DEF SweepRead
  <2> HIDE DEF new
  <2> QED
    BY <1>0, <1>1, <2>3, <2>4 DEF SweepRead
<1>2. ASSUME NEW p \in Passes, Supersede(p) PROVE Goal
  <2>1. runs' \in [Occ -> Run]
    BY <1>0, <1>2, CloseAllType DEF Supersede, ClosedStates
  <2>2. pass' \in [Passes -> APass]
    BY <1>goto, <1>2 DEF Supersede, Stages
  <2> QED
    BY <1>0, <1>2, <2>1, <2>2 DEF Supersede
<1>3. ASSUME NEW p \in Passes, ArmRead(p) PROVE Goal
  <2>2. pass' \in [Passes -> APass]
    BY <1>goto, <1>3 DEF ArmRead, Stages
  <2> QED
    BY <1>0, <1>3, <2>2 DEF ArmRead
<1>4. ASSUME NEW p \in Passes, ArmInsert(p) PROVE Goal
  <2>1. runs' \in [Occ -> Run]
    BY <1>0, <1>4, <1>run, <1>now, InsertedType DEF ArmInsert
  <2>2. pass' \in [Passes -> APass]
    BY <1>goto, <1>4 DEF ArmInsert, Stages
  <2>3. escaped' \in SUBSET Occ
    BY <1>note, <1>run, <1>4 DEF ArmInsert
  <2> QED
    BY <1>0, <1>4, <2>1, <2>2, <2>3 DEF ArmInsert
<1>5. ASSUME NEW p \in Passes, ListDue(p) PROVE Goal
  <2>1. \E at \in 0..MaxNow, listed \in SUBSET Occ :
           pass' = [pass EXCEPT ![p] = Listing(at, listed)]
    <3> DEFINE at == IF pass[p].pc = "idle" THEN now ELSE pass[p].at
    <3>1. at \in 0..MaxNow
      BY <1>0, <1>run
    <3>2. {o \in Occ : Armed(o) /\ runs[o].due <= at} \in SUBSET Occ
      OBVIOUS
    <3>3. pass' = [pass EXCEPT ![p] = Listing(at, {o \in Occ : Armed(o) /\ runs[o].due <= at})]
      BY <1>5 DEF ListDue
    <3> QED
      BY <3>1, <3>2, <3>3
  <2>2. pass' \in [Passes -> APass]
    BY <1>0, <2>1, PassTypes
  <2> QED
    BY <1>0, <1>5, <2>2 DEF ListDue
<1>6. ASSUME NEW p \in Passes, NEW o \in Occ, FireSkip(p, o) PROVE Goal
  BY <1>0, <1>6, <1>due DEF FireSkip
<1>7. ASSUME NEW p \in Passes, NEW o \in Occ, FireClose(p, o) PROVE Goal
  <2>1. ClosingState(o) \in ClosedStates
    BY <1>7 DEF FireClose, ClosingState, ClosedStates
  <2>2. runs' \in [Occ -> Run]
    BY <1>0, <1>7, <2>1, CloseAllType DEF FireClose
  <2> QED
    BY <1>0, <1>7, <1>due, <2>2 DEF FireClose
<1>8. ASSUME NEW p \in Passes, NEW o \in Occ, FireBegin(p, o) PROVE Goal
  <2>1. ladder.steps \in 0..MaxSteps
    BY <1>0, BoundsAssumption DEF LadderT
  <2>2. pass[p] \in APass
    BY <1>0
  <2>3. [pass[p] EXCEPT !.pc = "firing", !.run = o, !.steps = ladder.steps] \in APass
    BY <2>1, <2>2 DEF APass, Stages
  <2>4. pass' = [pass EXCEPT ![p] = [pass[p] EXCEPT !.pc = "firing", !.run = o,
                                                    !.steps = ladder.steps]]
    BY <1>0, <1>8 DEF FireBegin
  <2> QED
    BY <1>0, <1>8, <2>3, <2>4 DEF FireBegin
<1>9. ASSUME NEW p \in Passes, NEW tell \in BOOLEAN, FireEnd(p, tell) PROVE Goal
  <2> DEFINE o == pass[p].run
             page == [step |-> runs[o].step, rep |-> runs[o].rep, at |-> pass[p].at]
  <2>1. o \in Occ /\ runs[o] \in Run
    BY <1>0, <1>run
  <2>2. page \in Page /\ <<o, runs[o].step, runs[o].rep>> \in Occ \X Steps \X Nat
    BY <2>1, <1>run DEF Run, Page
  <2>3. fires' \in SUBSET (Occ \X Steps \X Nat)
    BY <1>0, <1>9, <2>2 DEF FireEnd
  <2>4. pages' = pages \/ pages' = [pages EXCEPT ![o] = Append(pages[o], page)]
    BY <1>9 DEF FireEnd
  <2>5. Append(pages[o], page) \in Seq(Page)
    <3> HIDE DEF o, page
    <3> QED
      BY <1>0, <2>1, <2>2
  <2>6. pages' \in [Occ -> Seq(Page)]
    <3> HIDE DEF o, page
    <3> QED
      BY <1>0, <2>4, <2>5
  <2>7. ticket' = ticket \/ ticket' = [ticket EXCEPT !.updatedAt = now]
    BY <1>9 DEF FireEnd
  <2>8. ticket' \in TicketT
    BY <1>0, <2>7 DEF TicketT
  <2>9. Advanced(runs[o], pass[p].steps, pass[p].at) \in Run
    BY <2>1, <1>run, AdvancedType
  <2>10. runs' = [runs EXCEPT ![o] = Advanced(runs[o], pass[p].steps, pass[p].at)]
    BY <1>9 DEF FireEnd
  <2>11. runs' \in [Occ -> Run]
    <3> HIDE DEF o
    <3> QED
      BY <1>0, <2>9, <2>10
  <2>12. pass' \in [Passes -> APass]
    BY <1>9, <2>1, <1>due DEF FireEnd
  <2> QED
    BY <1>0, <1>9, <2>3, <2>6, <2>8, <2>11, <2>12 DEF FireEnd
<1>10. ASSUME NEW p \in Passes, FireAbort(p) PROVE Goal
  BY <1>0, <1>10, <1>due, <1>run DEF FireAbort
<1>11. ASSUME NEW p \in Passes, FireError(p) PROVE Goal
  BY <1>0, <1>11, <1>due, <1>run, <1>ev DEF FireError
<1>12. ASSUME NEW p \in Passes, Crash(p) PROVE Goal
  BY <1>0, <1>12, PassTypes, <1>ev DEF Crash
<1>13. CASE SettleEnd
  <2>1. desk.to \in {"open", "resolved", "closed"} /\ IdleDesk \in DeskT
    BY <1>0 DEF DeskT, IdleDesk, Settled
  <2>2. ticket' \in TicketT
    BY <1>13, <2>1, <1>tick DEF SettleEnd
  <2>3. runs' \in [Occ -> Run]
    BY <1>0, <1>13, CloseAllType DEF SettleEnd, ClosedStates
  <2> QED
    BY <1>0, <1>13, <2>1, <2>2, <2>3 DEF SettleEnd
<1>14. CASE SettleAbort
  <2>1. IdleDesk \in DeskT
    BY DEF DeskT, IdleDesk, Settled
  <2> QED
    BY <1>0, <1>14, <2>1 DEF SettleAbort
<1>15. ASSUME NEW urgency \in Urgencies, NEW stop \in BOOLEAN, Update(urgency, stop) PROVE Goal
  <2>1. ticket' \in TicketT
    BY <1>0, <1>15 DEF Update, TicketT
  <2>2. \/ UNCHANGED <<runs, escaped>>
        \/ runs' = Inserted(urgency, now) /\ NoteEscape(urgency)
    BY <1>15, Zenon DEF Update
  <2>3. runs' \in [Occ -> Run] /\ escaped' \in SUBSET Occ
    <3>1. urgency \in Occ
      BY Constants
    <3>2. Inserted(urgency, now) \in [Occ -> Run]
      BY <1>0, <3>1, InsertedType
    <3> QED
      BY <1>0, <2>2, <3>1, <3>2, <1>note
  <2> QED
    BY <1>0, <1>15, <1>ev, <2>1, <2>3 DEF Update
<1>16. ASSUME NEW to \in Settled, SettleBegin(to) PROVE Goal
  <2>1. [pc |-> "settling", to |-> to, armed |-> {o \in Occ : Armed(o)}] \in DeskT
    BY DEF DeskT
  <2> QED
    BY <1>0, <1>16, <1>ev, <2>1 DEF SettleBegin
<1>17. CASE Reopen
  BY <1>0, <1>17, <1>ev, <1>tick DEF Reopen
<1>18. CASE Remove
  BY <1>0, <1>18, <1>ev, <1>tick DEF Remove
<1>19. ASSUME NEW o \in Occ, CancelRead(o) PROVE Goal
  BY <1>0, <1>19, <1>ev DEF CancelRead
<1>20. ASSUME NEW o \in Occ, CancelWrite(o) PROVE Goal
  BY <1>0, <1>20, CloseAllType DEF CancelWrite, ClosedStates
<1>21. ASSUME NEW enabled \in BOOLEAN, NEW steps \in 1..MaxSteps, Republish(enabled, steps)
       PROVE  Goal
  <2>1. [ladder EXCEPT !.enabled = enabled, !.steps = steps] \in LadderT
    BY <1>0 DEF LadderT
  <2> QED
    BY <1>0, <1>21, <1>ev, <2>1 DEF Republish
<1>22. CASE AdvanceClock
  <2>1. now' \in 0..MaxNow
    BY <1>0, <1>22, BoundsAssumption DEF AdvanceClock
  <2> QED
    BY <1>0, <1>22, <2>1 DEF AdvanceClock
<1>23. CASE UNCHANGED vars
  BY <1>0, <1>23 DEF vars
<1>24. Goal
  BY <1>1, <1>2, <1>3, <1>4, <1>5, <1>6, <1>7, <1>8, <1>9, <1>10, <1>11, <1>12, <1>13,
     <1>14, <1>15, <1>16, <1>17, <1>18, <1>19, <1>20, <1>21, <1>22, <1>23
  DEF Next, PassStep, DeskStep
<1> QED
  BY <1>24

-----------------------------------------------------------------------------
(* What arming, closing and firing do to one occurrence.                    *)

\* Where an advanced run goes: the next repeat, the next step, or its end.
LEMMA AdvancedFields ==
    ASSUME NEW run \in Run, NEW steps \in 0..MaxSteps, NEW at \in 0..MaxNow
    PROVE  LET new == Advanced(run, steps, at)
           IN  /\ new.anchor = run.anchor
               /\ \/ /\ run.rep + 1 < Repeats[run.step]
                     /\ new.state = run.state /\ new.step = run.step /\ new.rep = run.rep + 1
                     /\ new.due = at + After[run.step]
                  \/ /\ ~(run.rep + 1 < Repeats[run.step])
                     /\ new.state = run.state /\ new.step = run.step + 1 /\ new.rep = 0
                     /\ run.step + 1 \in Steps
                     /\ new.due = run.anchor + After[run.step + 1]
                  \/ /\ new.state = "completed" /\ new.step = run.step /\ new.rep = run.rep
                     /\ new.due = NoDue
<1>0. /\ run.step \in Steps /\ run.rep \in Nat
  BY DEF Run
<1>1. CASE run.rep + 1 < Repeats[run.step]
  <2>1. Advanced(run, steps, at)
          = [run EXCEPT !.rep = run.rep + 1, !.due = at + After[run.step]]
    BY <1>1, Zenon DEF Advanced
  <2> QED
    BY <1>1, <2>1 DEF Run
<1>2. CASE ~(run.rep + 1 < Repeats[run.step]) /\ run.step + 1 < steps
  <2>1. Advanced(run, steps, at)
          = [run EXCEPT !.step = run.step + 1, !.rep = 0,
                        !.due = run.anchor + After[run.step + 1]]
    BY <1>2, Zenon DEF Advanced
  <2>2. run.step + 1 \in Steps
    BY <1>2, <1>0, BoundsAssumption DEF Steps
  <2> QED
    BY <1>2, <2>1, <2>2 DEF Run
<1>3. CASE ~(run.rep + 1 < Repeats[run.step]) /\ ~(run.step + 1 < steps)
  BY <1>3 DEF Advanced, Closed, Run
<1> QED
  BY <1>1, <1>2, <1>3

\* A run that is armed for the first time starts its climb.
LEMMA ArmKeeps ==
    ASSUME NEW o \in Occ, NEW run \in Run, NEW claims, NEW paged \in Seq(Page),
           NEW anchor \in Occ, run.state = "none", Climb(o, run, claims, paged)
    PROVE  Climb(o, [state |-> "armed", step |-> 0, rep |-> 0,
                     due |-> anchor + After[0], anchor |-> anchor], claims, paged)
<1>1. PICK new : new = [state |-> "armed", step |-> 0, rep |-> 0,
                        due |-> anchor + After[0], anchor |-> anchor]
  OBVIOUS
<1>2. /\ new.state = "armed" /\ new.step = 0 /\ new.rep = 0 /\ new.anchor = anchor
      /\ new.due = anchor + After[0]
  BY <1>1
<1>3. /\ run.step = 0 /\ run.rep = 0 /\ \A s \in Steps, r \in Nat : <<o, s, r>> \notin claims
  BY DEF Climb, FreshUntilArmed
<1>4. 0 \in Steps /\ anchor \in Nat /\ Repeats[0] \in Nat \ {0} /\ After[0] \in Nat
  BY Constants
<1>5. DOMAIN paged = {}
  <2>1. \A i \in DOMAIN paged : paged[i] \in Page
    OBVIOUS
  <2> QED
    BY <2>1, <1>3 DEF Climb, PagesFollow, Page
<1>6. ClaimsFollow(o, new, claims)
  <2>1. ASSUME NEW s \in Steps, NEW r \in Nat PROVE ~Earlier(s, r, new)
    BY <1>2, Constants DEF Earlier
  <2> QED
    BY <2>1, <1>2, <1>3, <1>4 DEF ClaimsFollow
<1>7. FreshUntilArmed(o, new, claims)
  BY <1>2 DEF FreshUntilArmed
<1>8. new.due # NoDue
  BY <1>2, <1>4, NoDueAssumption
<1>9. DueInTime(new, paged) /\ OnTime(new, paged) /\ PagesFollow(o, claims, paged)
  BY <1>2, <1>4, <1>5 DEF DueInTime, OnTime, PagesFollow
<1>10. Climb(o, new, claims, paged)
  BY <1>2, <1>6, <1>7, <1>8, <1>9 DEF Climb
<1> QED
  BY <1>1, <1>10

\* A run that is closed keeps its climb.
LEMMA CloseKeeps ==
    ASSUME NEW o \in Occ, NEW run \in Run, NEW claims, NEW paged \in Seq(Page),
           NEW state \in ClosedStates, run.state # "none", Climb(o, run, claims, paged)
    PROVE  Climb(o, Closed(run, state), claims, paged)
<1>1. PICK new : new = Closed(run, state)
  OBVIOUS
<1>2. /\ new.state = state /\ new.step = run.step /\ new.rep = run.rep
      /\ new.due = NoDue /\ new.anchor = run.anchor
  BY <1>1 DEF Closed, Run
<1>3. state # "none" /\ state # "armed"
  BY DEF ClosedStates
<1>4. ClaimsFollow(o, new, claims)
  BY <1>2, <1>3 DEF Climb, ClaimsFollow, Earlier
<1>5. FreshUntilArmed(o, new, claims) /\ DueInTime(new, paged)
  BY <1>2, <1>3 DEF FreshUntilArmed, DueInTime
<1>6. OnTime(new, paged) /\ PagesFollow(o, claims, paged)
  BY <1>2 DEF Climb, OnTime
<1> QED
  BY <1>1, <1>2, <1>3, <1>4, <1>5, <1>6 DEF Climb

\* A fire of another run leaves this one alone.
LEMMA OtherKeeps ==
    ASSUME NEW o \in Occ, NEW run \in Run, NEW claims, NEW paged \in Seq(Page),
           NEW x \in Occ, x # o, NEW s, NEW r, Climb(o, run, claims, paged)
    PROVE  Climb(o, run, claims \union {<<x, s, r>>}, paged)
<1>1. \A a, b : <<o, a, b>> \in claims \union {<<x, s, r>>} <=> <<o, a, b>> \in claims
  OBVIOUS
<1>2. PICK more : more = claims \union {<<x, s, r>>}
  OBVIOUS
<1>3. \A a, b : <<o, a, b>> \in more <=> <<o, a, b>> \in claims
  BY <1>1, <1>2
<1>4. ClaimsFollow(o, run, more)
  BY <1>3 DEF Climb, ClaimsFollow
<1>5. FreshUntilArmed(o, run, more) /\ PagesFollow(o, more, paged)
  BY <1>3 DEF Climb, FreshUntilArmed, PagesFollow
<1>6. Climb(o, run, more, paged)
  BY <1>4, <1>5 DEF Climb
<1> QED
  BY <1>2, <1>6

\* A fire takes the climb of its run one rung further.
LEMMA FireKeeps ==
    ASSUME NEW o \in Occ, NEW run \in Run, NEW claims, NEW paged \in Seq(Page),
           NEW steps \in 0..MaxSteps, NEW at \in 0..MaxNow, NEW then,
           run.state = "armed", run.due <= at, Climb(o, run, claims, paged),
           then = paged \/ then = Append(paged, [step |-> run.step, rep |-> run.rep, at |-> at])
    PROVE  Climb(o, Advanced(run, steps, at), claims \union {<<o, run.step, run.rep>>}, then)
<1>1. PICK new : new = Advanced(run, steps, at)
  OBVIOUS
<1>2. PICK more : more = claims \union {<<o, run.step, run.rep>>}
  OBVIOUS
<1>3. \A a, b : <<o, a, b>> \in more <=> <<o, a, b>> \in claims \/ (a = run.step /\ b = run.rep)
  BY <1>2
<1>4. /\ run.step \in Steps /\ run.step \in Nat /\ run.rep \in Nat /\ run.anchor \in Nat
      /\ at \in Nat /\ Repeats[run.step] \in Nat \ {0} /\ After[run.step] \in Nat
  <2>1. run.step \in Steps /\ run.rep \in Nat /\ run.anchor \in Nat /\ at \in Nat
    BY BoundsAssumption DEF Run
  <2> QED
    BY <2>1, Constants
<1>5. run.due \in Nat
  BY DEF Climb, Run
<1>6. /\ run.rep < Repeats[run.step]
      /\ run.due >= run.anchor + After[run.step]
      /\ \A i \in DOMAIN paged :
            paged[i].step = run.step => run.due >= paged[i].at + After[run.step]
  BY DEF Climb, ClaimsFollow, DueInTime
<1>7. \A i \in DOMAIN paged : paged[i] \in Page
  OBVIOUS
<1>8. \A i \in DOMAIN paged :
         /\ paged[i].step \in Steps /\ paged[i].step \in Nat /\ paged[i].rep \in Nat
         /\ paged[i].at \in Nat /\ paged[i].step <= run.step
  <2> TAKE i \in DOMAIN paged
  <2>1. paged[i].step \in Steps /\ paged[i].rep \in Nat /\ paged[i].at \in Nat
    BY <1>7, BoundsAssumption DEF Page
  <2>2. <<o, paged[i].step, paged[i].rep>> \in claims
    BY DEF Climb, PagesFollow
  <2>3. Earlier(paged[i].step, paged[i].rep, run) \/ paged[i].step = run.step
    BY <2>1, <2>2 DEF Climb, ClaimsFollow
  <2>4. paged[i].step \in Nat
    BY <2>1, Constants, Zenon
  <2> QED
    BY <2>1, <2>3, <2>4, <1>4 DEF Earlier
<1>9. /\ new.anchor = run.anchor
      /\ \/ /\ run.rep + 1 < Repeats[run.step]
            /\ new.state = run.state /\ new.step = run.step /\ new.rep = run.rep + 1
            /\ new.due = at + After[run.step]
         \/ /\ ~(run.rep + 1 < Repeats[run.step])
            /\ new.state = run.state /\ new.step = run.step + 1 /\ new.rep = 0
            /\ run.step + 1 \in Steps
            /\ new.due = run.anchor + After[run.step + 1]
         \/ /\ new.state = "completed" /\ new.step = run.step /\ new.rep = run.rep
            /\ new.due = NoDue
  BY <1>1, AdvancedFields
<1>nx. run.step + 1 \in Steps =>
          Repeats[run.step + 1] \in Nat \ {0} /\ After[run.step + 1] \in Nat
  BY Constants, Zenon
<1>10. ClaimsFollow(o, new, more)
  <2>1. new.rep < Repeats[new.step]
    BY <1>nx, <1>4, <1>6, <1>9
  <2>2. ASSUME NEW s \in Steps, NEW r \in Nat, r < Repeats[s], Earlier(s, r, new)
        PROVE  <<o, s, r>> \in more
    <3>1. s \in Nat /\ Repeats[s] \in Nat
      BY Constants
    <3>n. /\ run.step \in Nat /\ run.rep \in Nat /\ Repeats[run.step] \in Nat
          /\ run.rep < Repeats[run.step]
      BY <1>4, <1>6
    <3>e. s < new.step \/ (s = new.step /\ r < new.rep)
      BY <2>2 DEF Earlier
    <3>a. ASSUME new.step = run.step, new.rep = run.rep + 1
          PROVE  Earlier(s, r, run) \/ (s = run.step /\ r = run.rep)
      <4>1. s < run.step \/ (s = run.step /\ (r < run.rep \/ r = run.rep))
        BY <3>a, <3>e, <3>n
      <4> QED
        BY <4>1 DEF Earlier
    <3>b. ASSUME ~(run.rep + 1 < Repeats[run.step]), new.step = run.step + 1, new.rep = 0
          PROVE  Earlier(s, r, run) \/ (s = run.step /\ r = run.rep)
      <4>1. s < run.step \/ s = run.step
        BY <3>b, <3>e, <3>n, <3>1
      <4>2. s = run.step => r < run.rep \/ r = run.rep
        BY <2>2, <3>b, <3>n
      <4> QED
        BY <4>1, <4>2 DEF Earlier
    <3>c. ASSUME new.step = run.step, new.rep = run.rep
          PROVE  Earlier(s, r, run) \/ (s = run.step /\ r = run.rep)
      BY <3>c, <3>e DEF Earlier
    <3>2. Earlier(s, r, run) \/ (s = run.step /\ r = run.rep)
      BY <1>9, <3>a, <3>b, <3>c
    <3>3. Earlier(s, r, run) => <<o, s, r>> \in claims
      BY <2>2 DEF Climb, ClaimsFollow
    <3> QED
      BY <3>2, <3>3, <1>3
  <2>3. ASSUME NEW s \in Steps, NEW r \in Nat, <<o, s, r>> \in more
        PROVE  \/ r < Repeats[s] /\ Earlier(s, r, new)
               \/ s = new.step /\ r = new.rep
    <3>1. s \in Nat /\ Repeats[s] \in Nat
      BY Constants
    <3>2. \/ r < Repeats[s] /\ Earlier(s, r, run)
          \/ s = run.step /\ r = run.rep
      BY <2>3, <1>3 DEF Climb, ClaimsFollow
    <3> QED
      BY <3>1, <3>2, <1>4, <1>6, <1>9, SMTT(30) DEF Earlier
  <2>4. new.state = "armed" => <<o, new.step, new.rep>> \notin more
    <3> SUFFICES ASSUME new.state = "armed", <<o, new.step, new.rep>> \in more PROVE FALSE
      OBVIOUS
    <3>1. new.step \in Steps /\ new.rep \in Nat
      BY <1>4, <1>9
    <3>2. \/ Earlier(new.step, new.rep, run)
          \/ new.step = run.step /\ new.rep = run.rep
      BY <3>1, <1>3 DEF Climb, ClaimsFollow
    <3> QED
      BY <3>2, <1>4, <1>9 DEF Earlier
  <2> QED
    BY <2>1, <2>2, <2>3, <2>4 DEF ClaimsFollow
<1>11. FreshUntilArmed(o, new, more)
  BY <1>9 DEF FreshUntilArmed
<1>12. (new.due # NoDue) <=> new.state = "armed"
  BY <1>nx, <1>4, <1>9, NoDueAssumption
<1>13. \/ then = paged
       \/ /\ DOMAIN then = 1..(Len(paged) + 1) /\ DOMAIN paged = 1..Len(paged) /\ Len(paged) \in Nat
          /\ \A i \in DOMAIN paged : then[i] = paged[i]
          /\ then[Len(paged) + 1] = [step |-> run.step, rep |-> run.rep, at |-> at]
  OBVIOUS
<1>14. PagesFollow(o, more, then)
  <2>1. \A i \in DOMAIN paged : <<o, paged[i].step, paged[i].rep>> \in more
    BY <1>3 DEF Climb, PagesFollow
  <2>2. <<o, run.step, run.rep>> \in more
    BY <1>2
  <2>3. ASSUME NEW i \in DOMAIN then
        PROVE  <<o, then[i].step, then[i].rep>> \in more
    <3>1. CASE i \in DOMAIN paged /\ then[i] = paged[i]
      BY <3>1, <2>1
    <3>2. CASE then[i] = [step |-> run.step, rep |-> run.rep, at |-> at]
      <4>1. then[i].step = run.step /\ then[i].rep = run.rep
        BY <3>2
      <4> QED
        BY <4>1, <2>2
    <3> QED
      BY <1>13, <3>1, <3>2
  <2> QED
    BY <2>3 DEF PagesFollow
<1>15. DueInTime(new, then)
  <2> SUFFICES ASSUME new.state = "armed"
      PROVE  /\ new.due >= new.anchor + After[new.step]
             /\ \A i \in DOMAIN then :
                   then[i].step = new.step => new.due >= then[i].at + After[new.step]
    BY DEF DueInTime
  <2>1. new.due >= new.anchor + After[new.step]
    BY <1>nx, <1>4, <1>5, <1>6, <1>9
  <2>2. ASSUME NEW i \in DOMAIN then, then[i].step = new.step
        PROVE  new.due >= then[i].at + After[new.step]
    <3>1. CASE i \in DOMAIN paged /\ then[i] = paged[i]
      <4>1. paged[i].step = new.step /\ paged[i].at \in Nat /\ paged[i].step <= run.step
        BY <3>1, <2>2, <1>8
      <4>2. new.step = run.step /\ new.due = at + After[run.step]
        BY <4>1, <2>2, <1>4, <1>9
      <4>3. run.due >= paged[i].at + After[run.step]
        BY <3>1, <4>1, <4>2, <1>6
      <4> QED
        BY <3>1, <4>1, <4>2, <4>3, <1>4, <1>5
    <3>2. CASE then[i] = [step |-> run.step, rep |-> run.rep, at |-> at]
      BY <3>2, <2>2, <1>4, <1>9
    <3> QED
      BY <3>1, <3>2, <1>13
  <2> QED
    BY <2>1, <2>2
<1>16. OnTime(new, then)
  <2>1. ASSUME NEW i \in DOMAIN paged
        PROVE  /\ paged[i].at >= new.anchor + After[paged[i].step]
               /\ i > 1 /\ paged[i - 1].step = paged[i].step
                    => paged[i].at >= paged[i - 1].at + After[paged[i].step]
    BY <1>9 DEF Climb, OnTime
  <2>2. CASE then = paged
    BY <2>1, <2>2 DEF OnTime
  <2>3. CASE /\ DOMAIN then = 1..(Len(paged) + 1) /\ DOMAIN paged = 1..Len(paged)
             /\ Len(paged) \in Nat
             /\ \A i \in DOMAIN paged : then[i] = paged[i]
             /\ then[Len(paged) + 1] = [step |-> run.step, rep |-> run.rep, at |-> at]
    <3> SUFFICES ASSUME NEW i \in DOMAIN then
        PROVE  /\ then[i].at >= new.anchor + After[then[i].step]
               /\ i > 1 /\ then[i - 1].step = then[i].step
                    => then[i].at >= then[i - 1].at + After[then[i].step]
      BY DEF OnTime
    <3>1. CASE i \in DOMAIN paged
      <4>1. i > 1 => i - 1 \in DOMAIN paged
        BY <2>3, <3>1
      <4> QED
        BY <2>1, <2>3, <3>1, <4>1
    <3>2. CASE i = Len(paged) + 1
      <4>1. i > 1 => i - 1 \in DOMAIN paged
        BY <2>3, <3>2
      <4>2. then[i].at = at /\ then[i].step = run.step
        BY <2>3, <3>2
      <4>3. at >= new.anchor + After[run.step]
        BY <1>4, <1>5, <1>6, <1>9
      <4>4. ASSUME i > 1, then[i - 1].step = run.step
            PROVE  at >= then[i - 1].at + After[run.step]
        <5>1. paged[i - 1].step = run.step /\ i - 1 \in DOMAIN paged
              /\ then[i - 1].at = paged[i - 1].at
          BY <2>3, <4>1, <4>4
        <5> QED
          BY <5>1, <1>4, <1>5, <1>6, <1>8, SMTT(30)
      <4> QED
        BY <4>1, <4>2, <4>3, <4>4
    <3> QED
      BY <2>3, <3>1, <3>2
  <2> QED
    BY <1>13, <2>2, <2>3
<1>17. Climb(o, new, more, then)
  BY <1>10, <1>11, <1>12, <1>14, <1>15, <1>16 DEF Climb
<1> QED
  BY <1>1, <1>2, <1>17

-----------------------------------------------------------------------------
(* The steps.  Every one of them arms, closes or fires runs, or leaves them  *)
(* alone, and only a fire claims and pages.                                  *)

Rest == UNCHANGED <<runs, fires, pages>>

Arming(o, anchor) == /\ runs' = Inserted(o, anchor)
                     /\ NoteEscape(o)
                     /\ UNCHANGED <<fires, pages>>

Closing(set, state) == /\ \A o \in set : runs[o].state # "none" /\ RunFree(o)
                       /\ runs' = CloseAll(set, state)
                       /\ UNCHANGED <<fires, pages>>

\* The shape of every step, as far as runs, claims and pages go.
LEMMA StepOfRuns ==
    ASSUME TypeOK, IdsAreKnown, [Next]_vars
    PROVE  \/ Rest
           \/ \E o \in Occ, anchor \in Occ : Arming(o, anchor)
           \/ \E set \in SUBSET Occ, state \in ClosedStates : Closing(set, state)
           \/ \E p \in Passes, tell \in BOOLEAN : FireEnd(p, tell)
<1>0. /\ now \in Occ /\ pass \in [Passes -> APass] /\ cancelling \in SUBSET Occ
      /\ desk.armed \in SUBSET Occ
  BY TypesNamed DEF Occ
<1> DEFINE Goal == \/ Rest
                   \/ \E o \in Occ, anchor \in Occ : Arming(o, anchor)
                   \/ \E set \in SUBSET Occ, state \in ClosedStates : Closing(set, state)
                   \/ \E p \in Passes, tell \in BOOLEAN : FireEnd(p, tell)
<1>1. ASSUME NEW p \in Passes, SweepRead(p) \/ ArmRead(p) \/ ListDue(p) \/ FireAbort(p)
                               \/ FireError(p) \/ Crash(p) PROVE Goal
  BY <1>1 DEF SweepRead, ArmRead, ListDue, FireAbort, FireError, Crash, Rest
<1>2. ASSUME NEW p \in Passes, NEW o \in Occ, FireSkip(p, o) \/ FireBegin(p, o) PROVE Goal
  BY <1>2 DEF FireSkip, FireBegin, Rest
<1>3. ASSUME NEW p \in Passes, Supersede(p) PROVE Goal
  <2> DEFINE others == {o \in Occ \ {pass[p].ref} : Armed(o)}
  <2>1. CASE pass[p].stale
    <3>1. Closing(others, "cancelled")
      BY <1>3, <2>1 DEF Supersede, Closing, Armed
    <3> QED
      BY <3>1 DEF ClosedStates
  <2>2. CASE ~pass[p].stale
    BY <1>3, <2>2 DEF Supersede, Rest
  <2> QED
    BY <2>1, <2>2
<1>4. ASSUME NEW p \in Passes, ArmInsert(p) PROVE Goal
  <2>1. pass[p].ref \in Occ
    BY <1>0 DEF APass
  <2>2. Arming(pass[p].ref, pass[p].ref)
    BY <1>4 DEF ArmInsert, Arming
  <2> QED
    BY <2>1, <2>2
<1>5. ASSUME NEW p \in Passes, NEW o \in Occ, FireClose(p, o) PROVE Goal
  <2>1. ClosingState(o) \in ClosedStates
    BY <1>5 DEF FireClose, ClosingState, ClosedStates
  <2>2. Closing({o}, ClosingState(o))
    BY <1>5 DEF FireClose, Closing, StillDue, Armed
  <2> QED
    BY <2>1, <2>2
<1>6. ASSUME NEW p \in Passes, NEW tell \in BOOLEAN, FireEnd(p, tell) PROVE Goal
  BY <1>6
<1>7. CASE SettleEnd
  <2>1. Closing(desk.armed, "cancelled")
    BY <1>7 DEF SettleEnd, Closing, IdsAreKnown
  <2> QED
    BY <1>0, <2>1 DEF ClosedStates
<1>8. CASE SettleAbort \/ Reopen \/ Remove \/ AdvanceClock
  BY <1>8 DEF SettleAbort, Reopen, Remove, AdvanceClock, Rest
<1>9. ASSUME NEW urgency \in Urgencies, NEW stop \in BOOLEAN, Update(urgency, stop) PROVE Goal
  <2>1. \/ UNCHANGED <<runs, escaped>>
        \/ runs' = Inserted(urgency, now) /\ NoteEscape(urgency)
    BY <1>9, Zenon DEF Update
  <2>2. CASE UNCHANGED <<runs, escaped>>
    BY <1>9, <2>2 DEF Update, Rest
  <2>3. CASE runs' = Inserted(urgency, now) /\ NoteEscape(urgency)
    <3>1. Arming(urgency, now)
      BY <1>9, <2>3 DEF Update, Arming
    <3> QED
      BY <3>1, <1>0, Constants
  <2> QED
    BY <2>1, <2>2, <2>3
<1>10. ASSUME NEW to \in Settled, SettleBegin(to) PROVE Goal
  BY <1>10 DEF SettleBegin, Rest
<1>11. ASSUME NEW o \in Occ, CancelRead(o) PROVE Goal
  BY <1>11 DEF CancelRead, Rest
<1>12. ASSUME NEW o \in Occ, CancelWrite(o) PROVE Goal
  <2>1. Closing({o}, "cancelled")
    BY <1>12 DEF CancelWrite, Closing, IdsAreKnown
  <2> QED
    BY <2>1 DEF ClosedStates
<1>13. ASSUME NEW enabled \in BOOLEAN, NEW steps \in 1..MaxSteps, Republish(enabled, steps)
       PROVE  Goal
  BY <1>13 DEF Republish, Rest
<1>14. CASE UNCHANGED vars
  BY <1>14 DEF vars, Rest
<1> QED
  BY <1>1, <1>2, <1>3, <1>4, <1>5, <1>6, <1>7, <1>8, <1>9, <1>10, <1>11, <1>12, <1>13, <1>14
  DEF Next, PassStep, DeskStep

\* How the runs change: not at all, by one arming, or by closing.
LEMMA RunsAfter ==
    ASSUME TypeOK, NEW x \in Occ
    PROVE  /\ Rest => runs'[x] = runs[x]
           /\ \A o \in Occ, anchor \in Occ : Arming(o, anchor) =>
                 \/ runs'[x] = runs[x]
                 \/ /\ x = o /\ runs[x].state = "none"
                    /\ runs'[x] = [state |-> "armed", step |-> 0, rep |-> 0,
                                   due |-> anchor + After[0], anchor |-> anchor]
           /\ \A set \in SUBSET Occ, state \in ClosedStates : Closing(set, state) =>
                 \/ runs'[x] = runs[x] /\ x \notin set
                 \/ runs'[x] = Closed(runs[x], state) /\ x \in set
           /\ \A p \in Passes, tell \in BOOLEAN : FireEnd(p, tell) =>
                 runs'[x] = IF x = pass[p].run
                              THEN Advanced(runs[x], pass[p].steps, pass[p].at)
                              ELSE runs[x]
<1>0. runs \in [Occ -> Run]
  BY TypesNamed
<1>1. Rest => runs'[x] = runs[x]
  BY DEF Rest
<1>2. ASSUME NEW o \in Occ, NEW anchor \in Occ, Arming(o, anchor)
      PROVE  \/ runs'[x] = runs[x]
             \/ /\ x = o /\ runs[x].state = "none"
                /\ runs'[x] = [state |-> "armed", step |-> 0, rep |-> 0,
                               due |-> anchor + After[0], anchor |-> anchor]
  <2>1. PICK new : new = [state |-> "armed", step |-> 0, rep |-> 0,
                          due |-> anchor + After[0], anchor |-> anchor]
    OBVIOUS
  <2>2. runs' = IF runs[o].state = "none" THEN [runs EXCEPT ![o] = new] ELSE runs
    BY <1>2, <2>1 DEF Arming, Inserted
  <2>3. runs'[x] = runs[x] \/ (x = o /\ runs[x].state = "none" /\ runs'[x] = new)
    BY <1>0, <2>2
  <2> QED
    BY <2>1, <2>3
<1>3. ASSUME NEW set \in SUBSET Occ, NEW state \in ClosedStates, Closing(set, state)
      PROVE  \/ runs'[x] = runs[x] /\ x \notin set
             \/ runs'[x] = Closed(runs[x], state) /\ x \in set
  BY <1>3 DEF Closing, CloseAll
<1>4. ASSUME NEW p \in Passes, NEW tell \in BOOLEAN, FireEnd(p, tell)
      PROVE  runs'[x] = IF x = pass[p].run
                          THEN Advanced(runs[x], pass[p].steps, pass[p].at)
                          ELSE runs[x]
  <2>1. runs' = [runs EXCEPT ![pass[p].run]
                   = Advanced(runs[pass[p].run], pass[p].steps, pass[p].at)]
    BY <1>4 DEF FireEnd
  <2> QED
    BY <1>0, <2>1
<1> QED
  BY <1>1, <1>2, <1>3, <1>4

\* Every step keeps the climb of every occurrence.
LEMMA StepClimb ==
    ASSUME IInv, [Next]_vars, NEW x \in Occ
    PROVE  Climb(x, runs'[x], fires', pages'[x])
<1>0. /\ TypeOK /\ IdsAreKnown /\ Climb(x, runs[x], fires, pages[x]) /\ runs[x] \in Run
      /\ pages[x] \in Seq(Page) /\ pass \in [Passes -> APass] /\ runs \in [Occ -> Run]
      /\ pages \in [Occ -> Seq(Page)]
  BY TypesNamed DEF IInv
<1>1. CASE Rest
  BY <1>0, <1>1 DEF Rest
<1>2. ASSUME NEW o \in Occ, NEW anchor \in Occ, Arming(o, anchor)
      PROVE  Climb(x, runs'[x], fires', pages'[x])
  <2>1. fires' = fires /\ pages'[x] = pages[x]
    BY <1>2 DEF Arming
  <2>2. \/ runs'[x] = runs[x]
        \/ /\ runs[x].state = "none"
           /\ runs'[x] = [state |-> "armed", step |-> 0, rep |-> 0,
                          due |-> anchor + After[0], anchor |-> anchor]
    BY <1>0, <1>2, RunsAfter
  <2>3. CASE runs'[x] = runs[x]
    BY <1>0, <2>1, <2>3
  <2>4. CASE /\ runs[x].state = "none"
             /\ runs'[x] = [state |-> "armed", step |-> 0, rep |-> 0,
                            due |-> anchor + After[0], anchor |-> anchor]
    <3>1. Climb(x, [state |-> "armed", step |-> 0, rep |-> 0,
                    due |-> anchor + After[0], anchor |-> anchor], fires, pages[x])
      BY <1>0, <2>4, ArmKeeps
    <3> QED
      BY <2>1, <2>4, <3>1
  <2> QED
    BY <2>2, <2>3, <2>4
<1>3. ASSUME NEW set \in SUBSET Occ, NEW state \in ClosedStates, Closing(set, state)
      PROVE  Climb(x, runs'[x], fires', pages'[x])
  <2>1. fires' = fires /\ pages'[x] = pages[x]
    BY <1>3 DEF Closing
  <2>2. CASE runs'[x] = runs[x]
    BY <1>0, <2>1, <2>2
  <2>3. CASE runs'[x] = Closed(runs[x], state) /\ x \in set
    <3>1. runs[x].state # "none"
      BY <1>3, <2>3 DEF Closing
    <3>2. Climb(x, Closed(runs[x], state), fires, pages[x])
      BY <1>0, <3>1, CloseKeeps
    <3> QED
      BY <2>1, <2>3, <3>2
  <2> QED
    BY <1>0, <1>3, <2>2, <2>3, RunsAfter
<1>4. ASSUME NEW p \in Passes, NEW tell \in BOOLEAN, FireEnd(p, tell)
      PROVE  Climb(x, runs'[x], fires', pages'[x])
  <2> DEFINE o == pass[p].run
             page == [step |-> runs[o].step, rep |-> runs[o].rep, at |-> pass[p].at]
  <2>1. /\ o \in Occ /\ pass[p].steps \in 0..MaxSteps /\ pass[p].at \in 0..MaxNow
        /\ runs[o] \in Run /\ pages[o] \in Seq(Page) /\ Climb(o, runs[o], fires, pages[o])
    BY <1>0 DEF APass, IInv
  <2>2. pass[p].pc = "firing"
    BY <1>4 DEF FireEnd
  <2>3. runs[o].state = "armed" /\ runs[o].due <= pass[p].at
    BY <2>2 DEF IInv, FiringHoldsRow, Armed
  <2>4. fires' = fires \union {<<o, runs[o].step, runs[o].rep>>}
    BY <1>4 DEF FireEnd
  <2>5. pages' = pages \/ pages' = [pages EXCEPT ![o] = Append(pages[o], page)]
    BY <1>4 DEF FireEnd
  <2>6. runs'[x] = IF x = o THEN Advanced(runs[x], pass[p].steps, pass[p].at) ELSE runs[x]
    BY <1>0, <1>4, RunsAfter
  <2>7. CASE x = o
    <3>1. pages'[o] = pages[o] \/ pages'[o] = Append(pages[o], page)
      <4> HIDE DEF o, page
      <4> QED
        BY <1>0, <2>1, <2>5
    <3>2. Climb(o, Advanced(runs[o], pass[p].steps, pass[p].at),
                fires \union {<<o, runs[o].step, runs[o].rep>>}, pages'[o])
      <4> HIDE DEF o
      <4> QED
        BY <2>1, <2>3, <3>1, FireKeeps
    <3> QED
      BY <2>4, <2>6, <2>7, <3>2
  <2>8. CASE x # o
    <3>1. pages'[x] = pages[x]
      <4> HIDE DEF o, page
      <4> QED
        BY <1>0, <2>5, <2>8
    <3>2. Climb(x, runs[x], fires \union {<<o, runs[o].step, runs[o].rep>>}, pages[x])
      <4> HIDE DEF o
      <4> QED
        BY <1>0, <2>1, <2>8, OtherKeeps
    <3> QED
      BY <2>4, <2>6, <2>8, <3>1, <3>2
  <2> QED
    BY <2>7, <2>8
<1> QED
  BY <1>0, <1>1, <1>2, <1>3, <1>4, StepOfRuns

\* A listing leaves its pass idle or with something due.
LEMMA ListingStage ==
    ASSUME NEW at, NEW listed
    PROVE  Listing(at, listed).pc \in {"idle", "due"}
BY DEF Listing, IdlePass

\* What a step makes of the passes.
LEMMA PassAfter ==
    ASSUME TypeOK, [Next]_vars, NEW q \in Passes, pass'[q].pc = "firing"
    PROVE  \/ pass'[q] = pass[q] /\ \A tell \in BOOLEAN : ~FireEnd(q, tell)
           \/ \E o \in Occ : FireBegin(q, o)
<1>0. pass \in [Passes -> APass]
  BY TypesNamed
<1>un. ASSUME NEW p \in Passes, NEW o, Unlist(p, o)
       PROVE  pass'[q] = pass[q] /\ p # q
  <2>1. pass' = [pass EXCEPT ![p] = Listing(pass[p].at, pass[p].listed \ {o})]
    BY <1>un DEF Unlist
  <2> QED
    BY <1>0, <2>1, ListingStage
<1>end. ASSUME NEW tell \in BOOLEAN, FireEnd(q, tell) PROVE FALSE
  BY <1>end, <1>un DEF FireEnd
<1>same. ASSUME pass'[q] = pass[q]
         PROVE  pass'[q] = pass[q] /\ \A tell \in BOOLEAN : ~FireEnd(q, tell)
  BY <1>same, <1>end
<1>goto. ASSUME NEW p \in Passes, NEW pc \in Stages \ {"firing"}, Goto(p, pc)
         PROVE  pass'[q] = pass[q]
  <2>1. pass' = [pass EXCEPT ![p] = [pass[p] EXCEPT !.pc = pc]]
    BY <1>0, <1>goto DEF Goto
  <2>2. [pass[p] EXCEPT !.pc = pc].pc = pc
    BY <1>0 DEF APass
  <2> QED
    BY <1>0, <2>1, <2>2
<1>1. ASSUME NEW p \in Passes, SweepRead(p) PROVE pass'[q] = pass[q]
  <2>1. PICK new : pass' = [pass EXCEPT ![p] = new] /\ new.pc = "silent"
    <3> DEFINE new == [IdlePass EXCEPT !.pc = "silent", !.at = now, !.ref = ticket.updatedAt,
                                       !.known = Known, !.stale = StaleArmed]
    <3>1. pass' = [pass EXCEPT ![p] = new]
      BY <1>1, Zenon DEF SweepRead
    <3>2. new.pc = "silent"
      BY DEF IdlePass
    <3> QED
      BY <3>1, <3>2
  <2> QED
    BY <1>0, <2>1
<1>2. ASSUME NEW p \in Passes, Supersede(p) \/ ArmRead(p) \/ ArmInsert(p) PROVE pass'[q] = pass[q]
  BY <1>2, <1>goto DEF Supersede, ArmRead, ArmInsert, Stages
<1>3. ASSUME NEW p \in Passes, ListDue(p) PROVE pass'[q] = pass[q]
  <2>1. PICK at, listed : pass' = [pass EXCEPT ![p] = Listing(at, listed)]
    BY <1>3 DEF ListDue
  <2> QED
    BY <1>0, <2>1, ListingStage
<1>4. ASSUME NEW p \in Passes, NEW o \in Occ, FireSkip(p, o) \/ FireClose(p, o)
      PROVE  pass'[q] = pass[q]
  BY <1>4, <1>un DEF FireSkip, FireClose
<1>5. ASSUME NEW p \in Passes, NEW o \in Occ, FireBegin(p, o)
      PROVE  pass'[q] = pass[q] \/ FireBegin(q, o)
  <2>1. CASE p = q
    BY <1>5, <2>1
  <2>2. CASE p # q
    BY <1>0, <1>5, <2>2 DEF FireBegin
  <2> QED
    BY <2>1, <2>2
<1>6. ASSUME NEW p \in Passes, NEW tell \in BOOLEAN, FireEnd(p, tell) PROVE pass'[q] = pass[q]
  BY <1>6, <1>un DEF FireEnd
<1>7. ASSUME NEW p \in Passes, FireAbort(p) \/ FireError(p) PROVE pass'[q] = pass[q]
  BY <1>7, <1>un DEF FireAbort, FireError
<1>8. ASSUME NEW p \in Passes, Crash(p) PROVE pass'[q] = pass[q]
  <2>1. pass' = [pass EXCEPT ![p] = IdlePass] /\ IdlePass.pc = "idle"
    BY <1>8 DEF Crash, IdlePass
  <2> QED
    BY <1>0, <2>1
<1>9. CASE SettleEnd \/ SettleAbort \/ Reopen \/ Remove \/ AdvanceClock \/ UNCHANGED vars
  BY <1>9, <1>same DEF SettleEnd, SettleAbort, Reopen, Remove, AdvanceClock, vars
<1>10. ASSUME NEW o \in Occ, CancelRead(o) \/ CancelWrite(o) PROVE pass'[q] = pass[q]
  BY <1>10 DEF CancelRead, CancelWrite
<1>11. ASSUME NEW urgency, NEW stop, Update(urgency, stop) PROVE pass'[q] = pass[q]
  BY <1>11 DEF Update
<1>12. ASSUME NEW to, SettleBegin(to) PROVE pass'[q] = pass[q]
  BY <1>12 DEF SettleBegin
<1>13. ASSUME NEW enabled, NEW steps, Republish(enabled, steps) PROVE pass'[q] = pass[q]
  BY <1>13 DEF Republish
<1> QED
  BY <1>same, <1>1, <1>2, <1>3, <1>4, <1>5, <1>6, <1>7, <1>8, <1>9, <1>10, <1>11, <1>12, <1>13
  DEF Next, PassStep, DeskStep

\* Every step leaves whoever is firing alone on an armed row that is due.
LEMMA StepFiring ==
    ASSUME IInv, [Next]_vars
    PROVE  FiringHoldsRow'
<1>0. TypeOK /\ IdsAreKnown /\ pass \in [Passes -> APass] /\ runs \in [Occ -> Run]
  BY TypesNamed DEF IInv
<1>1. ASSUME NEW p \in Passes, NEW q \in Passes, pass'[p].pc = "firing", pass'[q].pc = "firing",
             pass'[p].run = pass'[q].run, p # q
      PROVE  FALSE
  <2>1. ASSUME NEW u \in Passes, NEW v \in Passes, u # v, NEW o \in Occ, FireBegin(u, o),
               pass'[v].pc = "firing", pass'[u].run = pass'[v].run
        PROVE  FALSE
    <3>1. pass'[v] = pass[v] /\ pass'[u].run = o
      BY <1>0, <2>1 DEF FireBegin, APass
    <3> QED
      BY <2>1, <3>1 DEF FireBegin, RunFree
  <2>2. CASE pass'[p] = pass[p] /\ pass'[q] = pass[q]
    BY <1>1, <2>2 DEF IInv, FiringHoldsRow
  <2> QED
    BY <1>0, <1>1, <2>1, <2>2, PassAfter
<1>2. ASSUME NEW p \in Passes, pass'[p].pc = "firing"
      PROVE  Armed(pass[p].run)' /\ runs'[pass'[p].run].due <= pass'[p].at
  <2>1. CASE pass'[p] = pass[p] /\ \A tell \in BOOLEAN : ~FireEnd(p, tell)
    <3>0. PICK x \in Occ : x = pass[p].run
      BY <1>0 DEF APass
    <3>1. /\ pass[p].pc = "firing" /\ runs[x].state = "armed" /\ runs[x].due <= pass[p].at
          /\ \A q \in Passes : pass[q].pc = "firing" /\ pass[q].run = x => q = p
      BY <1>2, <2>1, <3>0 DEF IInv, FiringHoldsRow, Armed
    <3>2. runs'[x] = runs[x]
      <4>1. CASE Rest
        BY <1>0, <4>1, RunsAfter
      <4>2. ASSUME NEW o \in Occ, NEW anchor \in Occ, Arming(o, anchor)
            PROVE  runs'[x] = runs[x]
        BY <1>0, <4>2, <3>1, RunsAfter
      <4>3. ASSUME NEW set \in SUBSET Occ, NEW state \in ClosedStates, Closing(set, state)
            PROVE  runs'[x] = runs[x]
        <5>1. x \notin set
          BY <4>3, <3>0, <3>1 DEF Closing, RunFree
        <5> QED
          BY <1>0, <4>3, <5>1, RunsAfter
      <4>4. ASSUME NEW q \in Passes, NEW tell \in BOOLEAN, FireEnd(q, tell)
            PROVE  runs'[x] = runs[x]
        <5>1. pass[q].pc = "firing" /\ q # p
          BY <4>4, <2>1 DEF FireEnd
        <5>2. pass[q].run # x
          BY <3>1, <5>1
        <5> QED
          BY <1>0, <4>4, <5>2, RunsAfter
      <4> QED
        BY <1>0, <4>1, <4>2, <4>3, <4>4, StepOfRuns
    <3> QED
      BY <2>1, <3>0, <3>1, <3>2 DEF Armed
  <2>2. ASSUME NEW o \in Occ, FireBegin(p, o)
        PROVE  Armed(pass[p].run)' /\ runs'[pass'[p].run].due <= pass'[p].at
    <3>1. pass'[p].run = o /\ pass'[p].at = pass[p].at
      BY <1>0, <2>2 DEF FireBegin, APass
    <3> QED
      BY <2>2, <3>1 DEF FireBegin, StillDue, Armed
  <2> QED
    BY <1>0, <1>2, <2>1, <2>2, PassAfter
<1> QED
  BY <1>1, <1>2 DEF FiringHoldsRow

\* What is cancelled by id exists after every step.
LEMMA StepIds ==
    ASSUME IInv, [Next]_vars
    PROVE  IdsAreKnown'
<1>0. /\ TypeOK /\ IdsAreKnown /\ cancelling \in SUBSET Occ /\ desk.armed \in SUBSET Occ
      /\ cancelling' \in SUBSET Occ /\ desk'.armed \in SUBSET Occ
      /\ pass \in [Passes -> APass] /\ runs \in [Occ -> Run]
  BY TypesNamed, StepType DEF IInv, TypeOK
<1>1. ASSUME NEW x \in Occ, runs[x].state # "none"
      PROVE  runs'[x].state # "none"
  <2>1. ASSUME NEW state \in ClosedStates PROVE Closed(runs[x], state).state # "none"
    BY <1>0 DEF Closed, Run, ClosedStates
  <2>2. ASSUME NEW p \in Passes
        PROVE  Advanced(runs[x], pass[p].steps, pass[p].at).state # "none"
    <3>1. pass[p].steps \in 0..MaxSteps /\ pass[p].at \in 0..MaxNow /\ runs[x] \in Run
      BY <1>0 DEF APass
    <3> QED
      BY <1>1, <3>1, AdvancedFields
  <2> QED
    BY <1>0, <1>1, <2>1, <2>2, StepOfRuns, RunsAfter, ZenonT(30)
<1>2. \A x \in cancelling' \union desk'.armed :
         x \in cancelling \union desk.armed \/ runs[x].state # "none"
  <2>1. CASE UNCHANGED <<cancelling, desk>>
    BY <2>1
  <2>2. CASE SettleEnd \/ SettleAbort
    BY <2>2 DEF SettleEnd, SettleAbort, IdleDesk
  <2>3. ASSUME NEW to \in Settled, SettleBegin(to)
        PROVE  desk'.armed = {o \in Occ : Armed(o)} /\ cancelling' = cancelling
    BY <2>3 DEF SettleBegin
  <2>4. ASSUME NEW o \in Occ, CancelRead(o) \/ CancelWrite(o)
        PROVE  /\ desk' = desk
               /\ \A x \in cancelling' : x \in cancelling \/ runs[x].state # "none"
    BY <2>4 DEF CancelRead, CancelWrite, Armed
  <2>5. \/ UNCHANGED <<cancelling, desk>> \/ SettleEnd \/ SettleAbort
        \/ \E to \in Settled : SettleBegin(to)
        \/ \E o \in Occ : CancelRead(o) \/ CancelWrite(o)
    <3>1. ASSUME NEW p \in Passes, PassStep(p) \/ FireError(p) \/ Crash(p)
          PROVE  UNCHANGED <<cancelling, desk>>
      BY <3>1 DEF PassStep, SweepRead, Supersede, ArmRead, ArmInsert, ListDue, FireSkip,
         FireClose, FireBegin, FireEnd, FireAbort, FireError, Crash
    <3>2. ASSUME NEW urgency \in Urgencies, NEW stop \in BOOLEAN, Update(urgency, stop)
          PROVE  UNCHANGED <<cancelling, desk>>
      BY <3>2 DEF Update
    <3>3. ASSUME Reopen \/ Remove \/ AdvanceClock \/ UNCHANGED vars
          PROVE  UNCHANGED <<cancelling, desk>>
      BY <3>3 DEF Reopen, Remove, AdvanceClock, vars
    <3>4. ASSUME NEW enabled \in BOOLEAN, NEW steps \in 1..MaxSteps, Republish(enabled, steps)
          PROVE  UNCHANGED <<cancelling, desk>>
      BY <3>4 DEF Republish
    <3> QED
      BY <3>1, <3>2, <3>3, <3>4 DEF Next, DeskStep
  <2> QED
    BY <2>1, <2>2, <2>3, <2>4, <2>5 DEF Armed
<1> QED
  BY <1>0, <1>1, <1>2 DEF IdsAreKnown

\* The invariant holds at first, ...
LEMMA InitIInv == Init => IInv
<1> SUFFICES ASSUME Init PROVE IInv
  OBVIOUS
<1>1. NoRun \in Run /\ IdlePass \in APass /\ <<>> \in Seq(Page)
  BY Constants, BoundsAssumption DEF NoRun, Run, States, IdlePass, APass, Stages, Occ
<1>2. TypeOK
  <2>1. ladder \in [trigger : {"no_update", "priority"}, enabled : BOOLEAN,
                    steps : 1..MaxSteps, touches : BOOLEAN]
    <3>1. MaxSteps \in 1..MaxSteps
      BY BoundsAssumption
    <3>2. ladder \in [trigger : {"no_update", "priority"}, enabled : {TRUE},
                      steps : {MaxSteps}, touches : BOOLEAN]
      BY DEF Init
    <3> QED
      BY <3>1, <3>2, Zenon
  <2>2. ticket \in [cat : {"open", "resolved", "closed", "gone"}, updatedAt : 0..MaxNow,
                    urgency : Urgencies, stop : BOOLEAN]
    <3>1. 0 \in 0..MaxNow /\ 0 \in Urgencies
      BY BoundsAssumption DEF Urgencies
    <3>2. ticket = [cat |-> "open", updatedAt |-> 0, urgency |-> 0, stop |-> FALSE]
      BY DEF Init
    <3> QED
      BY <3>1, <3>2
  <2>3. desk \in [pc : {"idle", "settling"}, to : {"open"} \union Settled, armed : SUBSET Occ]
    BY DEF Init, IdleDesk
  <2> QED
    BY <1>1, <2>1, <2>2, <2>3, BoundsAssumption, TypesNamed DEF Init
<1>3. ASSUME NEW o \in Occ PROVE Climb(o, runs[o], fires, pages[o])
  <2>1. /\ runs[o].state = "none" /\ runs[o].step = 0 /\ runs[o].rep = 0 /\ runs[o].due = NoDue
        /\ fires = {} /\ pages[o] = <<>> /\ DOMAIN pages[o] = {}
    BY DEF Init, NoRun
  <2>2. Repeats[0] \in Nat \ {0} /\ \A s \in Steps, r \in Nat : ~Earlier(s, r, runs[o])
    BY <2>1, Constants DEF Earlier
  <2> QED
    BY <2>1, <2>2 DEF Climb, ClaimsFollow, FreshUntilArmed, PagesFollow, DueInTime, OnTime
<1>4. FiringHoldsRow /\ IdsAreKnown
  BY DEF Init, IdlePass, IdleDesk, FiringHoldsRow, IdsAreKnown
<1> QED
  BY <1>2, <1>3, <1>4 DEF IInv

\* ... and every step keeps it.
LEMMA StepIInv == IInv /\ [Next]_vars => IInv'
<1> SUFFICES ASSUME IInv, [Next]_vars PROVE IInv'
  OBVIOUS
<1>1. TypeOK'
  BY StepType DEF IInv
<1>2. \A x \in Occ : Climb(x, runs'[x], fires', pages'[x])
  BY StepClimb
<1>3. FiringHoldsRow' /\ IdsAreKnown'
  BY StepFiring, StepIds
<1> QED
  BY <1>1, <1>2, <1>3 DEF IInv

-----------------------------------------------------------------------------
(* ClimbIsAccounted.                                                        *)

\* The rungs of the ladder.
LEMMA RungOf ==
    ASSUME NEW g
    PROVE  g \in Rungs <=> \E s \in Steps : \E r \in 0..(Repeats[s] - 1) :
                              g = [step |-> s, rep |-> r]
BY DEF Rungs

\* Spent, in terms of the claims.
LEMMA SpentOf ==
    ASSUME TypeOK, NEW o \in Occ, NEW s, NEW r
    PROVE  [step |-> s, rep |-> r] \in Spent(o) <=> <<o, s, r>> \in fires
<1>0. fires \in SUBSET (Occ \X Steps \X Nat)
  BY TypesNamed
<1>1. ASSUME <<o, s, r>> \in fires PROVE [step |-> s, rep |-> r] \in Spent(o)
  <2>1. <<o, s, r>> \in {f \in fires : f[1] = o}
    BY <1>1
  <2> QED
    BY <2>1 DEF Spent
<1>2. ASSUME [step |-> s, rep |-> r] \in Spent(o) PROVE <<o, s, r>> \in fires
  <2>1. PICK c \in fires : c[1] = o /\ [step |-> s, rep |-> r] = [step |-> c[2], rep |-> c[3]]
    BY <1>2 DEF Spent
  <2>2. c[2] = s /\ c[3] = r
    <3>1. [step |-> s, rep |-> r].step = [step |-> c[2], rep |-> c[3]].step
          /\ [step |-> s, rep |-> r].rep = [step |-> c[2], rep |-> c[3]].rep
      BY <2>1
    <3> QED
      BY <3>1
  <2>3. c = <<c[1], c[2], c[3]>>
    BY <1>0, <2>1
  <2> QED
    BY <2>1, <2>2, <2>3
<1> QED
  BY <1>1, <1>2

\* The property, from the invariant.
LEMMA IInvClimb == IInv => ClimbIsAccounted
<1> SUFFICES ASSUME IInv PROVE ClimbIsAccounted
  OBVIOUS
<1>0. TypeOK /\ runs \in [Occ -> Run] /\ pages \in [Occ -> Seq(Page)]
      /\ fires \in SUBSET (Occ \X Steps \X Nat)
  BY TypesNamed DEF IInv
<1>1. ASSUME NEW o \in Occ
      PROVE  /\ Passed(runs[o]) \subseteq Spent(o)
             /\ Spent(o) \subseteq Passed(runs[o]) \union {Cursor(runs[o])}
             /\ Armed(o) => Cursor(runs[o]) \notin Spent(o)
  <2>0. /\ ClaimsFollow(o, runs[o], fires) /\ runs[o].step \in Steps /\ runs[o].rep \in Nat
    BY <1>0 DEF IInv, Climb, Run
  <2>1. ASSUME NEW s \in Steps, NEW r \in Nat
        PROVE  [step |-> s, rep |-> r] \in Passed(runs[o])
                 <=> r < Repeats[s] /\ Earlier(s, r, runs[o])
    <3>1. [step |-> s, rep |-> r].step = s /\ [step |-> s, rep |-> r].rep = r
      OBVIOUS
    <3>2. [step |-> s, rep |-> r] \in Rungs <=> r < Repeats[s]
      <4>1. Repeats[s] \in Nat
        BY Constants
      <4>2. ASSUME NEW a \in Steps, NEW b \in 0..(Repeats[a] - 1),
                   [step |-> s, rep |-> r] = [step |-> a, rep |-> b]
            PROVE  r \in 0..(Repeats[s] - 1)
        <5>1. [step |-> s, rep |-> r].step = [step |-> a, rep |-> b].step
              /\ [step |-> s, rep |-> r].rep = [step |-> a, rep |-> b].rep
          BY <4>2
        <5>2. s = a /\ r = b
          BY <5>1
        <5> QED
          BY <5>2, <4>2
      <4>3. r \in 0..(Repeats[s] - 1) <=> r < Repeats[s]
        BY <4>1
      <4> QED
        BY <4>2, <4>3, RungOf
    <3>3. Promise!Before([step |-> s, rep |-> r], runs[o]) <=> Earlier(s, r, runs[o])
      BY <3>1 DEF Promise!Before, Earlier
    <3> QED
      BY <3>2, <3>3 DEF Passed
  <2>2. ASSUME NEW g \in Passed(runs[o]) PROVE g \in Spent(o)
    <3>1. PICK s \in Steps : \E r \in 0..(Repeats[s] - 1) : g = [step |-> s, rep |-> r]
      BY RungOf DEF Passed
    <3>2. PICK r \in Nat : g = [step |-> s, rep |-> r]
      BY <3>1
    <3>3. <<o, s, r>> \in fires
      BY <2>0, <2>1, <3>2, <2>2 DEF ClaimsFollow
    <3> QED
      BY <1>0, <3>2, <3>3, SpentOf
  <2>3. ASSUME NEW g \in Spent(o) PROVE g \in Passed(runs[o]) \union {Cursor(runs[o])}
    <3>1. PICK c \in fires : c[1] = o /\ g = [step |-> c[2], rep |-> c[3]]
      BY DEF Spent
    <3>2. c = <<o, c[2], c[3]>> /\ c[2] \in Steps /\ c[3] \in Nat
      BY <1>0, <3>1
    <3>3. \/ c[3] < Repeats[c[2]] /\ Earlier(c[2], c[3], runs[o])
          \/ c[2] = runs[o].step /\ c[3] = runs[o].rep
      BY <2>0, <3>2 DEF ClaimsFollow
    <3> QED
      BY <2>1, <3>1, <3>2, <3>3 DEF Cursor
  <2>4. Armed(o) => Cursor(runs[o]) \notin Spent(o)
    BY <1>0, <2>0, SpentOf DEF Armed, Cursor, ClaimsFollow
  <2> QED
    BY <2>2, <2>3, <2>4
<1>2. PagesAreClaimed
  <2> SUFFICES ASSUME NEW o \in Occ, NEW i \in DOMAIN pages[o]
      PROVE Cursor(pages[o][i]) \in Spent(o)
    BY DEF PagesAreClaimed
  <2>1. <<o, pages[o][i].step, pages[o][i].rep>> \in fires
    BY DEF IInv, Climb, PagesFollow
  <2> QED
    BY <1>0, <2>1, SpentOf DEF Cursor
<1>3. DueWhileArmed
  BY DEF IInv, Climb, DueWhileArmed, Armed
<1>4. NeverEarly
  BY DEF IInv, Climb, OnTime, NeverEarly
<1> QED
  BY <1>0, <1>1, <1>2, <1>3, <1>4 DEF ClimbIsAccounted, CursorMatchesClaims

\* Around overlapping sweeps, cancellations, deadlocks, rolled back fires and
\* crashes, and for every ladder: the claims are the rungs the cursor has passed,
\* every page stands under a claim and comes no sooner than its offset, and a run
\* is due exactly while it is armed.
THEOREM EscalationClimbIsAccounted == Spec => []ClimbIsAccounted
<1> QED
  BY InitIInv, StepIInv, IInvClimb, PTL DEF Spec

-----------------------------------------------------------------------------
(* SettledIsCancelled.                                                      *)

\* Every step keeps EscapeIsNoted.
LEMMA StepEscape ==
    ASSUME IInv, EscapeIsNoted, [Next]_vars
    PROVE  EscapeIsNoted'
<1>0. /\ TypeOK /\ IdsAreKnown /\ pass \in [Passes -> APass] /\ runs \in [Occ -> Run]
      /\ desk.pc \in {"idle", "settling"} /\ desk.to \in {"open"} \union Settled
      /\ ticket.cat \in {"open", "resolved", "closed", "gone"}
      /\ ticket \in [cat : {"open", "resolved", "closed", "gone"}, updatedAt : 0..MaxNow,
                     urgency : Urgencies, stop : BOOLEAN]
  BY TypesNamed DEF IInv
<1>1. ASSUME NEW x \in Occ, Armed(x)', ~Armed(x)
      PROVE  ticket.cat \in Settled \/ desk.pc = "settling" => x \in escaped'
  <2>1. ASSUME NEW state \in ClosedStates PROVE Closed(runs[x], state).state # "armed"
    BY <1>0 DEF Closed, Run, ClosedStates
  <2>2. ASSUME NEW p \in Passes, Advanced(runs[x], pass[p].steps, pass[p].at).state = "armed"
        PROVE  FALSE
    <3>1. pass[p].steps \in 0..MaxSteps /\ pass[p].at \in 0..MaxNow /\ runs[x] \in Run
      BY <1>0 DEF APass
    <3> QED
      BY <1>1, <2>2, <3>1, AdvancedFields DEF Armed
  <2>3. runs'[x] # runs[x] /\ runs'[x].state = "armed"
    BY <1>1 DEF Armed
  <2>4. PICK o \in Occ, anchor \in Occ : Arming(o, anchor)
    <3>1. ~Rest
      BY <1>0, <2>3, RunsAfter
    <3>2. ASSUME NEW set \in SUBSET Occ, NEW state \in ClosedStates, Closing(set, state)
          PROVE  FALSE
      BY <1>0, <2>1, <2>3, <3>2, RunsAfter, SMTT(30)
    <3>3. ASSUME NEW p \in Passes, NEW tell \in BOOLEAN, FireEnd(p, tell) PROVE FALSE
      <4>1. runs'[x] = IF x = pass[p].run
                         THEN Advanced(runs[x], pass[p].steps, pass[p].at) ELSE runs[x]
        BY <1>0, <3>3, RunsAfter
      <4> QED
        BY <2>2, <2>3, <4>1
    <3> QED
      BY <1>0, <3>1, <3>2, <3>3, StepOfRuns
  <2>5. x = o /\ runs[x].state = "none"
    BY <1>0, <2>3, <2>4, RunsAfter
  <2> QED
    BY <2>4, <2>5 DEF Arming, NoteEscape
<1>2. escaped \subseteq escaped'
  <2>1. CASE UNCHANGED escaped
    BY <2>1
  <2>2. ASSUME NEW o, NoteEscape(o) PROVE escaped \subseteq escaped'
    BY <2>2 DEF NoteEscape
  <2>3. ASSUME NEW p \in Passes, PassStep(p) \/ FireError(p) \/ Crash(p)
        PROVE  escaped \subseteq escaped'
    BY <2>2, <2>3 DEF PassStep, SweepRead, Supersede, ArmRead, ArmInsert, ListDue, FireSkip,
       FireClose, FireBegin, FireEnd, FireAbort, FireError, Crash
  <2>4. ASSUME NEW urgency \in Urgencies, NEW stop \in BOOLEAN, Update(urgency, stop)
        PROVE  escaped \subseteq escaped'
    <3>1. \/ UNCHANGED <<runs, escaped>>
          \/ runs' = Inserted(urgency, now) /\ NoteEscape(urgency)
      BY <2>4, Zenon DEF Update
    <3> QED
      BY <2>2, <3>1
  <2>5. CASE SettleEnd \/ SettleAbort \/ Reopen \/ Remove \/ AdvanceClock \/ UNCHANGED vars
    BY <2>5 DEF SettleEnd, SettleAbort, Reopen, Remove, AdvanceClock, vars
  <2>6. ASSUME NEW o \in Occ, CancelRead(o) \/ CancelWrite(o) PROVE escaped \subseteq escaped'
    BY <2>6 DEF CancelRead, CancelWrite
  <2>7. ASSUME NEW to \in Settled, SettleBegin(to) PROVE escaped \subseteq escaped'
    BY <2>7 DEF SettleBegin
  <2>8. ASSUME NEW enabled, NEW steps, Republish(enabled, steps) PROVE escaped \subseteq escaped'
    BY <2>8 DEF Republish
  <2> QED
    BY <2>3, <2>4, <2>5, <2>6, <2>7, <2>8 DEF Next, DeskStep
<1>3. CASE SettleEnd
  <2>1. ticket'.cat = desk.to /\ desk'.pc = "idle" /\ desk.pc = "settling"
    BY <1>0, <1>3 DEF SettleEnd, IdleDesk
  <2>2. ASSUME NEW x \in Occ, Armed(x)' PROVE x \in escaped'
    <3>1. x \notin desk.armed
      BY <1>0, <1>3, <2>2 DEF SettleEnd, CloseAll, Closed, Armed, Run
    <3>2. runs'[x] = runs[x]
      BY <1>3, <3>1 DEF SettleEnd, CloseAll
    <3> QED
      BY <1>2, <2>1, <2>2, <3>1, <3>2 DEF EscapeIsNoted, Armed
  <2> QED
    BY <2>1, <2>2 DEF EscapeIsNoted
<1>4. ASSUME NEW to \in Settled, SettleBegin(to) PROVE EscapeIsNoted'
  <2>1. /\ ticket' = ticket /\ escaped' = escaped /\ runs' = runs
        /\ desk'.armed = {o \in Occ : Armed(o)}
    BY <1>4 DEF SettleBegin
  <2> QED
    BY <2>1 DEF EscapeIsNoted, Armed
<1>5. ASSUME ticket'.cat \in Settled => ticket.cat \in Settled,
             desk' = desk \/ desk'.pc = "idle"
      PROVE  EscapeIsNoted'
  <2>1. ASSUME ticket'.cat \in Settled, NEW x \in Occ, Armed(x)' PROVE x \in escaped'
    BY <1>1, <1>2, <1>5, <2>1 DEF EscapeIsNoted
  <2>2. ASSUME desk'.pc = "settling", NEW x \in Occ, Armed(x)'
        PROVE  x \in desk'.armed \union escaped'
    BY <1>1, <1>2, <1>5, <2>2 DEF EscapeIsNoted
  <2> QED
    BY <2>1, <2>2 DEF EscapeIsNoted
<1>6. CASE SettleAbort
  BY <1>5, <1>6 DEF SettleAbort, IdleDesk
<1>7. CASE Reopen \/ Remove
  <2>1. ticket'.cat \in {"open", "gone"} /\ desk' = desk
    BY <1>0, <1>7 DEF Reopen, Remove
  <2> QED
    BY <1>5, <2>1 DEF Settled
<1>8. ASSUME NEW p \in Passes, PassStep(p) \/ FireError(p) \/ Crash(p)
      PROVE  ticket'.cat = ticket.cat /\ desk' = desk
  <2>1. ASSUME NEW tell \in BOOLEAN, FireEnd(p, tell)
        PROVE  ticket'.cat = ticket.cat /\ desk' = desk
    <3>1. ticket' = ticket \/ ticket' = [ticket EXCEPT !.updatedAt = now]
      BY <2>1 DEF FireEnd
    <3> QED
      BY <1>0, <2>1, <3>1 DEF FireEnd
  <2> QED
    BY <1>8, <2>1 DEF PassStep, SweepRead, Supersede, ArmRead, ArmInsert, ListDue, FireSkip,
       FireClose, FireBegin, FireAbort, FireError, Crash
<1>9. ASSUME NEW urgency \in Urgencies, NEW stop \in BOOLEAN, Update(urgency, stop)
      PROVE  ticket'.cat = ticket.cat /\ desk' = desk
  BY <1>0, <1>9 DEF Update
<1>10. CASE AdvanceClock \/ UNCHANGED vars
  BY <1>5, <1>10 DEF AdvanceClock, vars
<1>11. ASSUME NEW o \in Occ, CancelRead(o) \/ CancelWrite(o) PROVE UNCHANGED <<ticket, desk>>
  BY <1>11 DEF CancelRead, CancelWrite
<1>12. ASSUME NEW enabled, NEW steps, Republish(enabled, steps) PROVE UNCHANGED <<ticket, desk>>
  BY <1>12 DEF Republish
<1> QED
  BY <1>3, <1>4, <1>5, <1>6, <1>7, <1>8, <1>9, <1>10, <1>11, <1>12 DEF Next, DeskStep

\* A settling transition cancels every run that was armed when it began: what is
\* armed on a settled ticket was armed while it settled, or afterwards.
THEOREM EscalationSettledIsCancelled == Spec => []SettledIsCancelled
<1>1. Init => EscapeIsNoted
  BY DEF Init, EscapeIsNoted, Settled, IdleDesk
<1>2. IInv /\ EscapeIsNoted /\ [Next]_vars => (IInv /\ EscapeIsNoted)'
  BY StepIInv, StepEscape
<1>3. EscapeIsNoted => SettledIsCancelled
  BY DEF EscapeIsNoted, SettledIsCancelled
<1> QED
  BY InitIInv, <1>1, <1>2, <1>3, PTL DEF Spec

-----------------------------------------------------------------------------
(* The ladder implements EscalationPromise.                                 *)

\* What the person paged knows of a run, now ...
LEMMA LifeAt ==
    ASSUME NEW x \in Occ
    PROVE  /\ Life[x] = "unarmed" <=> runs[x].state = "none"
           /\ Life[x] = "armed" <=> runs[x].state = "armed"
           /\ Life[x] = "closed" <=> runs[x].state \notin {"none", "armed"}
BY DEF Life

\* ... and next.
LEMMA LifeAtNext ==
    ASSUME NEW x \in Occ
    PROVE  /\ Life'[x] = "unarmed" <=> runs'[x].state = "none"
           /\ Life'[x] = "armed" <=> runs'[x].state = "armed"
           /\ Life'[x] = "closed" <=> runs'[x].state \notin {"none", "armed"}
BY DEF Life

LEMMA LifeSame ==
    /\ \A x \in Occ : runs'[x].state = runs[x].state => Life'[x] = Life[x]
    /\ DOMAIN Life = Occ /\ DOMAIN Life' = Occ
    /\ Life = [x \in Occ |-> Life[x]] /\ Life' = [x \in Occ |-> Life'[x]]
BY DEF Life

LEMMA ToldAt ==
    ASSUME NEW x \in Occ, pages[x] \in Seq(Page)
    PROVE  /\ Told[x] = [i \in DOMAIN pages[x] |-> Cursor(pages[x][i])]
           /\ Told[x] \in Seq([step : Steps, rep : Nat]) /\ Len(Told[x]) = Len(pages[x])
<1>1. Told[x] = [i \in DOMAIN pages[x] |-> Cursor(pages[x][i])]
  BY DEF Told, Cursor
<1>2. \A i \in DOMAIN pages[x] : pages[x][i] \in Page
  OBVIOUS
<1>3. \A i \in DOMAIN pages[x] : Cursor(pages[x][i]) \in [step : Steps, rep : Nat]
  BY <1>2 DEF Cursor, Page
<1>4. DOMAIN pages[x] = 1..Len(pages[x]) /\ Len(pages[x]) \in Nat
  OBVIOUS
<1> QED
  BY <1>1, <1>3, <1>4

LEMMA StepPromise ==
    ASSUME IInv, IInv', [Next]_vars
    PROVE  [Promise!Next]_<<Life, Told>>
<1>0. /\ TypeOK /\ IdsAreKnown /\ pass \in [Passes -> APass] /\ runs \in [Occ -> Run]
      /\ pages \in [Occ -> Seq(Page)] /\ pages' \in [Occ -> Seq(Page)]
      /\ runs' \in [Occ -> Run]
  BY TypesNamed, StepType DEF IInv, TypeOK, Run, Page, States
<1>told. UNCHANGED pages => UNCHANGED Told
  BY DEF Told
<1>life. ASSUME NEW set \in SUBSET Occ,
                \A x \in set : Armed(x) /\ Life'[x] = "closed",
                \A x \in Occ \ set : Life'[x] = Life[x],
                UNCHANGED pages
         PROVE  Promise!Next
  <2>1. Life' = [x \in Occ |-> IF x \in set THEN "closed" ELSE Life[x]]
    BY <1>life, LifeSame
  <2>2. \A x \in set : Life[x] = "armed"
    BY <1>life, LifeAt DEF Armed
  <2>3. Promise!Close(set)
    BY <2>1, <2>2, <1>life, <1>told DEF Promise!Close
  <2> QED
    BY <2>3 DEF Promise!Next
<1>1. CASE Rest
  <2>1. UNCHANGED Life
    BY <1>1 DEF Rest, Life
  <2> QED
    BY <1>1, <1>told, <2>1 DEF Rest
<1>2. ASSUME NEW o \in Occ, NEW anchor \in Occ, Arming(o, anchor)
      PROVE  [Promise!Next]_<<Life, Told>>
  <2>1. UNCHANGED Told
    BY <1>2, <1>told DEF Arming
  <2>2. CASE runs[o].state = "none"
    <3>1. runs'[o].state = "armed"
      BY <1>0, <1>2, <2>2 DEF Arming, Inserted
    <3>2. \A x \in Occ \ {o} : runs'[x] = runs[x]
      BY <1>0, <1>2, RunsAfter
    <3>3. Life[o] = "unarmed" /\ Life'[o] = "armed"
      BY <2>2, <3>1, LifeAt, LifeAtNext
    <3>4. \A x \in Occ \ {o} : Life'[x] = Life[x]
      BY <3>2, LifeSame
    <3>5. Life' = [Life EXCEPT ![o] = "armed"]
      BY <3>3, <3>4, LifeSame
    <3>6. Promise!Arm(o)
      BY <2>1, <3>3, <3>5 DEF Promise!Arm
    <3> QED
      BY <3>6 DEF Promise!Next
  <2>3. CASE runs[o].state # "none"
    <3>1. runs' = runs
      BY <1>2, <2>3 DEF Arming, Inserted
    <3> QED
      BY <2>1, <3>1 DEF Life
  <2> QED
    BY <2>2, <2>3
<1>3. ASSUME NEW set \in SUBSET Occ, NEW state \in ClosedStates, Closing(set, state)
      PROVE  [Promise!Next]_<<Life, Told>>
  <2> DEFINE live == {x \in set : Armed(x)}
  <2>1. ASSUME NEW x \in set PROVE Life'[x] = "closed"
    <3>1. runs'[x] = Closed(runs[x], state)
      BY <1>3 DEF Closing, CloseAll
    <3>2. runs'[x].state = state
      BY <1>0, <3>1 DEF Closed, Run
    <3> QED
      BY <3>2, LifeAtNext DEF ClosedStates
  <2>2. ASSUME NEW x \in Occ \ live PROVE Life'[x] = Life[x]
    <3>1. CASE x \in set
      <4>1. runs[x].state # "none" /\ runs[x].state # "armed"
        BY <1>3, <3>1, <2>2 DEF Closing, Armed
      <4> QED
        BY <4>1, <2>1, <3>1, LifeAt
    <3>2. CASE x \notin set
      <4>1. runs'[x] = runs[x]
        BY <1>0, <1>3, <3>2, RunsAfter
      <4> QED
        BY <4>1, LifeSame
    <3> QED
      BY <3>1, <3>2
  <2>3. UNCHANGED pages
    BY <1>3 DEF Closing
  <2>4. live \in SUBSET Occ /\ \A x \in live : Armed(x) /\ Life'[x] = "closed"
    BY <2>1
  <2>5. \A x \in Occ \ live : Life'[x] = Life[x]
    BY <2>2
  <2> HIDE DEF live
  <2>6. Promise!Next
    BY <1>life, <2>3, <2>4, <2>5
  <2> QED
    BY <2>6
<1>4. ASSUME NEW p \in Passes, NEW tell \in BOOLEAN, FireEnd(p, tell)
      PROVE  [Promise!Next]_<<Life, Told>>
  <2>1. PICK o \in Occ : o = pass[p].run
    BY <1>0 DEF APass
  <2>2. PICK page \in Page : page = [step |-> runs[o].step, rep |-> runs[o].rep, at |-> pass[p].at]
    BY <1>0 DEF APass, Page, Run
  <2>3. /\ runs[o].state = "armed" /\ Climb(o, runs[o], fires, pages[o])
        /\ runs[o] \in Run /\ pages[o] \in Seq(Page)
    BY <1>0, <1>4, <2>1 DEF IInv, FiringHoldsRow, Armed, FireEnd
  <2>4. pages' = pages \/ pages' = [pages EXCEPT ![o] = Append(pages[o], page)]
    BY <1>4, <2>1, <2>2 DEF FireEnd
  <2>5. \A x \in Occ \ {o} : Life'[x] = Life[x]
    <3>1. \A x \in Occ \ {o} : runs'[x] = runs[x]
      BY <1>0, <1>4, <2>1, RunsAfter
    <3> QED
      BY <3>1, LifeSame
  <2>6. Life'[o] = Life[o] \/ Life'[o] = "closed"
    <3>1. runs'[o] = Advanced(runs[o], pass[p].steps, pass[p].at)
      BY <1>0, <1>4, <2>1, RunsAfter
    <3>2. pass[p].steps \in 0..MaxSteps /\ pass[p].at \in 0..MaxNow
      BY <1>0 DEF APass
    <3>3. runs'[o].state = "armed" \/ runs'[o].state = "completed"
      BY <2>3, <3>1, <3>2, AdvancedFields
    <3> QED
      BY <2>3, <3>3, LifeSame, LifeAtNext
  <2>7. Armed(o) /\ Life[o] = "armed"
    BY <2>3, LifeAt DEF Armed
  <2>8. CASE pages' = pages
    <3>1. CASE Life'[o] = Life[o]
      <4>1. Life' = Life
        BY <2>5, <3>1, LifeSame
      <4> QED
        BY <2>8, <4>1, <1>told
    <3>2. CASE Life'[o] = "closed"
      <4> DEFINE set == {o}
      <4>1. set \in SUBSET Occ /\ \A x \in set : Armed(x) /\ Life'[x] = "closed"
        BY <2>7, <3>2
      <4>2. \A x \in Occ \ set : Life'[x] = Life[x]
        BY <2>5
      <4> HIDE DEF set
      <4> QED
        BY <1>life, <2>8, <4>1, <4>2
    <3> QED
      BY <2>6, <3>1, <3>2
  <2>9. CASE pages' = [pages EXCEPT ![o] = Append(pages[o], page)]
    <3>1. PICK rung : rung = [step |-> runs[o].step, rep |-> runs[o].rep]
      OBVIOUS
    <3>2. rung \in Rungs
      <4>1. runs[o].step \in Steps /\ runs[o].rep \in Nat
            /\ runs[o].rep < Repeats[runs[o].step]
        BY <2>3 DEF Climb, ClaimsFollow, Run
      <4>2. Repeats[runs[o].step] \in Nat
        BY <4>1, Constants
      <4>3. runs[o].rep \in 0..(Repeats[runs[o].step] - 1)
        BY <4>1, <4>2
      <4> QED
        BY <3>1, <4>1, <4>3, RungOf
    <3>3. Told[o] # <<>> => Promise!Before(Told[o][Len(Told[o])], rung)
      <4> SUFFICES ASSUME Told[o] # <<>>
          PROVE Promise!Before(Told[o][Len(Told[o])], rung)
        OBVIOUS
      <4>1. PICK n : n = Len(pages[o])
        OBVIOUS
      <4>2. Len(Told[o]) = n /\ n \in DOMAIN pages[o]
        <5>1. Told[o] = [i \in DOMAIN pages[o] |-> Cursor(pages[o][i])]
              /\ Told[o] \in Seq([step : Steps, rep : Nat]) /\ Len(Told[o]) = n
          BY <2>3, <4>1, ToldAt
        <5>2. DOMAIN Told[o] = DOMAIN pages[o]
          BY <5>1
        <5>3. DOMAIN pages[o] = 1..n /\ n \in Nat
          BY <2>3, <4>1
        <5>4. n # 0
          BY <5>1
        <5> QED
          BY <5>1, <5>3, <5>4
      <4>3. Told[o][n] = Cursor(pages[o][n]) /\ pages[o][n] \in Page
        <5>1. Told[o] = [i \in DOMAIN pages[o] |-> Cursor(pages[o][i])]
          BY <2>3, ToldAt
        <5> QED
          BY <5>1, <4>2, <2>3
      <4>4. <<o, pages[o][n].step, pages[o][n].rep>> \in fires
        BY <2>3, <4>2 DEF Climb, PagesFollow
      <4>5. pages[o][n].step \in Steps /\ pages[o][n].rep \in Nat
        BY <4>3 DEF Page
      <4>6. Earlier(pages[o][n].step, pages[o][n].rep, runs[o])
        BY <2>3, <4>4, <4>5 DEF Climb, ClaimsFollow
      <4>7. /\ rung.step = runs[o].step /\ rung.rep = runs[o].rep
            /\ Told[o][n].step = pages[o][n].step /\ Told[o][n].rep = pages[o][n].rep
        BY <3>1, <4>3 DEF Cursor
      <4> QED
        BY <4>2, <4>6, <4>7 DEF Promise!Before, Earlier
    <3>4. Told' = [Told EXCEPT ![o] = Append(Told[o], rung)]
      <4>1. ASSUME NEW x \in Occ \ {o} PROVE Told'[x] = Told[x]
        <5>1. pages'[x] = pages[x]
          BY <1>0, <2>9
        <5> QED
          BY <5>1 DEF Told
      <4>2. Told'[o] = Append(Told[o], rung)
        <5>1. pages'[o] = Append(pages[o], page)
          BY <1>0, <2>9
        <5>2. Told'[o] = [i \in DOMAIN pages'[o] |-> Cursor(pages'[o][i])]
          BY DEF Told, Cursor
        <5>3. PICK n \in Nat : n = Len(pages[o])
          BY <2>3
        <5>4. DOMAIN pages'[o] = 1..(n + 1) /\ DOMAIN pages[o] = 1..n
          BY <2>3, <5>1, <5>3
        <5>5. \A i \in 1..n : pages'[o][i] = pages[o][i]
          BY <2>3, <5>1, <5>3
        <5>6. pages'[o][n + 1] = page
          BY <2>3, <5>1, <5>3
        <5>7. Cursor(page) = rung
          BY <2>2, <3>1 DEF Cursor
        <5>8. Len(Told[o]) = n /\ Told[o] \in Seq([step : Steps, rep : Nat])
              /\ \A i \in 1..n : Told[o][i] = Cursor(pages[o][i])
          BY <2>3, <5>3, <5>4, ToldAt
        <5>9. PICK old \in Seq([step : Steps, rep : Nat]) : old = Told[o]
          BY <5>8
        <5>10. PICK new : new = Told'[o]
          OBVIOUS
        <5>11. new = [i \in 1..(n + 1) |-> Cursor(pages'[o][i])]
          BY <5>2, <5>4, <5>10
        <5>12. \A i \in 1..n : new[i] = old[i]
          BY <5>5, <5>8, <5>9, <5>11
        <5>13. new[n + 1] = rung /\ DOMAIN new = 1..(n + 1)
          BY <5>6, <5>7, <5>11
        <5>14. /\ DOMAIN Append(old, rung) = 1..(n + 1) /\ Append(old, rung)[n + 1] = rung
               /\ \A i \in 1..n : Append(old, rung)[i] = old[i]
          <6>1. Len(old) = n
            BY <5>8, <5>9
          <6> QED
            BY <6>1
        <5>15. new = [i \in 1..(n + 1) |-> new[i]]
          BY <5>11
        <5>16. Append(old, rung) = [i \in 1..(n + 1) |-> Append(old, rung)[i]]
          BY <5>14, <5>8, <5>9
        <5>17. \A i \in 1..(n + 1) : new[i] = Append(old, rung)[i]
          BY <5>12, <5>13, <5>14
        <5> QED
          BY <5>9, <5>10, <5>15, <5>16, <5>17
      <4>3. Told = [x \in Occ |-> Told[x]] /\ Told' = [x \in Occ |-> Told'[x]]
        BY DEF Told
      <4> QED
        BY <4>1, <4>2, <4>3
    <3>5. Life' = Life \/ Life' = [Life EXCEPT ![o] = "closed"]
      BY <2>5, <2>6, LifeSame
    <3>6. Promise!Tell(o, rung)
      BY <2>7, <3>3, <3>4, <3>5 DEF Promise!Tell
    <3> QED
      BY <3>2, <3>6 DEF Promise!Next
  <2> QED
    BY <2>4, <2>8, <2>9
<1> QED
  BY <1>0, <1>1, <1>2, <1>3, <1>4, StepOfRuns

\* Every step of the ladder, for any number of overlapping passes, is a step of
\* the promise or leaves it alone: an occurrence is armed once, its rungs are
\* announced in order and once each, and a closed run is never heard of again.
THEOREM EscalationImplementsPromise == Spec => PromiseKept
<1>1. Init => Promise!Init
  <2> SUFFICES ASSUME Init PROVE Promise!Init
    OBVIOUS
  <2>1. Life = [o \in Occ |-> "unarmed"]
    BY DEF Init, NoRun, Life
  <2>2. Told = [o \in Occ |-> <<>>]
    <3>1. \A o \in Occ : Told[o] = <<>>
      BY DEF Init, Told
    <3> QED
      BY <3>1 DEF Told
  <2> QED
    BY <2>1, <2>2 DEF Promise!Init
<1>2. IInv /\ IInv' /\ [Next]_vars => [Promise!Next]_<<Life, Told>>
  BY StepPromise
<1> QED
  BY <1>1, <1>2, InitIInv, StepIInv, PTL DEF Spec, PromiseKept, Promise!Spec, Promise!pvars

-----------------------------------------------------------------------------
(* The leader lock.                                                          *)

\* A connection is cut in the current life of its process.
CutIsLost == \A r \in Replicas : client[r] = "cut" => r \in lost

\* Workers are started under the lock, and a replica in good standing keeps it.
WorksUnderLock ==
    \A r \in Replicas : InGoodStanding(r) /\ (running[r] # {} \/ next[r] > 0) => r \in held

\* A process that is down holds nothing.
DownIsEmpty ==
    \A r \in Replicas : proc[r] = "down" =>
        /\ client[r] = "null" /\ next[r] = 0 /\ running[r] = {}
        /\ r \notin held /\ r \notin retry

LeaderInv == LeaderTypeOK /\ BeliefIsTrue /\ CutIsLost /\ WorksUnderLock /\ DownIsEmpty

\* The invariant holds at first.
LEMMA InitLeaderInv ==
    ASSUME LeaderInit
    PROVE  LeaderInv
BY LeaderAssumption
   DEF LeaderInit, LeaderInv, LeaderTypeOK, Lives, Kinds, BeliefIsTrue, CutIsLost,
       WorksUnderLock, InGoodStanding, DownIsEmpty

\* Every step keeps the types.
LEMMA StepLeaderTypes ==
    ASSUME LeaderTypeOK, [LeaderNext]_leaderVars
    PROVE  LeaderTypeOK'
<1> USE LeaderAssumption DEF LeaderTypeOK, Lives, Kinds, lockVars, counters
<1>1. ASSUME NEW r \in Replicas, Boot(r) PROVE LeaderTypeOK'
  BY <1>1 DEF Boot
<1>2. ASSUME NEW r \in Replicas, StartElected(r) PROVE LeaderTypeOK'
  BY <1>2 DEF StartElected, Win, Queries
<1>3. ASSUME NEW r \in Replicas, StartStandby(r) PROVE LeaderTypeOK'
  BY <1>3 DEF StartStandby, Fails, Lose, Refused, Unusable, Queries
<1>4. ASSUME NEW r \in Replicas, RetryWins(r) PROVE LeaderTypeOK'
  BY <1>4 DEF RetryWins, Win, Queries
<1>5. ASSUME NEW r \in Replicas, RetryFails(r) PROVE LeaderTypeOK'
  BY <1>5 DEF RetryFails, Fails, Lose, Refused, Unusable, Queries
<1>6. ASSUME NEW r \in Replicas, StartWorker(r) PROVE LeaderTypeOK'
  BY <1>6 DEF StartWorker
<1>7. ASSUME NEW r \in Replicas, Cut(r) PROVE LeaderTypeOK'
  BY <1>7 DEF Cut
<1>8. ASSUME NEW r \in Replicas, SessionEnds(r) PROVE LeaderTypeOK'
  BY <1>8 DEF SessionEnds
<1>9. ASSUME NEW r \in Replicas, ConnectionError(r) PROVE LeaderTypeOK'
  BY <1>9 DEF ConnectionError, Abandon
<1>10. ASSUME NEW r \in Replicas, Sigterm(r) PROVE LeaderTypeOK'
  BY <1>10 DEF Sigterm
<1>11. ASSUME NEW r \in Replicas, StopWorker(r) PROVE LeaderTypeOK'
  BY <1>11 DEF StopWorker
<1>12. ASSUME NEW r \in Replicas, EndStopLoop(r) PROVE LeaderTypeOK'
  BY <1>12 DEF EndStopLoop
<1>13. ASSUME NEW r \in Replicas, Release(r) PROVE LeaderTypeOK'
  BY <1>13 DEF Release
<1>14. ASSUME NEW r \in Replicas, Exit(r) PROVE LeaderTypeOK'
  BY <1>14 DEF Exit, Die, Abandon
<1>15. ASSUME NEW r \in Replicas, ProcessCrash(r) PROVE LeaderTypeOK'
  BY <1>15 DEF ProcessCrash, Die, Abandon
<1>16. ASSUME GhostEnds PROVE LeaderTypeOK'
  BY <1>16 DEF GhostEnds
<1>17. ASSUME UNCHANGED leaderVars PROVE LeaderTypeOK'
  BY <1>17 DEF leaderVars
<1> QED
  BY <1>1, <1>2, <1>3, <1>4, <1>5, <1>6, <1>7, <1>8, <1>9,
     <1>10, <1>11, <1>12, <1>13, <1>14, <1>15, <1>16, <1>17
  DEF LeaderNext, Start, Retry, Notice

\* Standing holds what a replica in good standing may believe about the lock.
Standing == BeliefIsTrue /\ CutIsLost /\ WorksUnderLock /\ DownIsEmpty

\* Every step keeps the standing of every replica.
LEMMA StepStanding ==
    ASSUME LeaderTypeOK, Standing, [LeaderNext]_leaderVars
    PROVE  Standing'
<1> USE LeaderAssumption DEF LeaderTypeOK, Lives, Kinds, Standing, BeliefIsTrue,
        CutIsLost, WorksUnderLock, DownIsEmpty, InGoodStanding, lockVars, counters
<1>1. ASSUME NEW r \in Replicas, Boot(r) PROVE Standing'
  BY <1>1 DEF Boot
<1>2. ASSUME NEW r \in Replicas, StartElected(r) PROVE Standing'
  BY <1>2 DEF StartElected, Win, Queries
<1>3. ASSUME NEW r \in Replicas, StartStandby(r) PROVE Standing'
  BY <1>3 DEF StartStandby, Fails, Lose, Refused, Unusable, Queries
<1>4. ASSUME NEW r \in Replicas, RetryWins(r) PROVE Standing'
  BY <1>4 DEF RetryWins, Win, Queries
<1>5. ASSUME NEW r \in Replicas, RetryFails(r) PROVE Standing'
  BY <1>5 DEF RetryFails, Fails, Lose, Refused, Unusable, Queries
<1>6. ASSUME NEW r \in Replicas, StartWorker(r) PROVE Standing'
  BY <1>6 DEF StartWorker
<1>7. ASSUME NEW r \in Replicas, Cut(r) PROVE Standing'
  BY <1>7 DEF Cut
<1>8. ASSUME NEW r \in Replicas, SessionEnds(r) PROVE Standing'
  BY <1>8 DEF SessionEnds
<1>9. ASSUME NEW r \in Replicas, ConnectionError(r) PROVE Standing'
  BY <1>9 DEF ConnectionError, Abandon
<1>10. ASSUME NEW r \in Replicas, Sigterm(r) PROVE Standing'
  BY <1>10 DEF Sigterm
<1>11. ASSUME NEW r \in Replicas, StopWorker(r) PROVE Standing'
  BY <1>11 DEF StopWorker
<1>12. ASSUME NEW r \in Replicas, EndStopLoop(r) PROVE Standing'
  BY <1>12 DEF EndStopLoop
<1>13. ASSUME NEW r \in Replicas, Release(r) PROVE Standing'
  BY <1>13 DEF Release
<1>14. ASSUME NEW r \in Replicas, Exit(r) PROVE Standing'
  BY <1>14 DEF Exit, Die, Abandon
<1>15. ASSUME NEW r \in Replicas, ProcessCrash(r) PROVE Standing'
  BY <1>15 DEF ProcessCrash, Die, Abandon
<1>16. ASSUME GhostEnds PROVE Standing'
  BY <1>16 DEF GhostEnds
<1>17. ASSUME UNCHANGED leaderVars PROVE Standing'
  BY <1>17 DEF leaderVars
<1> QED
  BY <1>1, <1>2, <1>3, <1>4, <1>5, <1>6, <1>7, <1>8, <1>9,
     <1>10, <1>11, <1>12, <1>13, <1>14, <1>15, <1>16, <1>17
  DEF LeaderNext, Start, Retry, Notice

\* Every step keeps the invariant.
LEMMA StepLeaderInv ==
    ASSUME LeaderInv, [LeaderNext]_leaderVars
    PROVE  LeaderInv'
BY StepLeaderTypes, StepStanding DEF LeaderInv, Standing

\* The variables of the election keep their types.
THEOREM LeaderTypeCorrect ==
    LeaderSpec => []LeaderTypeOK
<1>1. LeaderInv => LeaderTypeOK
  BY DEF LeaderInv
<1>2. LeaderInv /\ [LeaderNext]_leaderVars => LeaderInv'
  BY StepLeaderInv
<1> QED
  BY <1>1, <1>2, InitLeaderInv, PTL DEF LeaderSpec

\* A replica that believes it leads over a whole connection holds the lock, and
\* the workers of two replicas overlap only when one of them has been cut off
\* or is shutting down.
THEOREM LeaderExclusive ==
    LeaderSpec => []OneLeader
<1>1. LeaderInv => OneLeader
  BY DEF OneLeader, LeaderInv, BeliefIsTrue, CutIsLost, WorksUnderLock, InGoodStanding,
         OverlapNeedsCutOrShutdown
<1>2. LeaderInv /\ [LeaderNext]_leaderVars => LeaderInv'
  BY StepLeaderInv
<1> QED
  BY <1>1, <1>2, InitLeaderInv, PTL DEF LeaderSpec
=============================================================================
