--------------------------- MODULE Intake_proofs ---------------------------
(***************************************************************************)
(* What holds of the two ways in from outside, for every value of the      *)
(* constants: of the alerts of one dedupe key (module AlertIntake) that    *)
(* they add up, and that a cleared alert takes no beat; and of inbound     *)
(* mail (module MailIntake) that it is kept.                               *)
(*                                                                         *)
(* Alerts.  The properties are about rows; what makes them inductive is    *)
(* about transactions: whoever has read a row holds it alone and finds it  *)
(* as it was read (HoldsItsRow), and whoever has read none was crossed by  *)
(* an insert if there is one now (SeesUnlessCrossed).  Every action that   *)
(* writes a row is shown to be an instance of one shape, Write, from which *)
(* the preservation of all the conjuncts is proved once.                   *)
(*                                                                         *)
(* Mail.  A held claim is the only one of its message, which is not yet on *)
(* record (ClaimsAreExclusive); a door is done with a message only when it *)
(* is on record or has failed (DoneIsSettled); and nothing is flagged or   *)
(* gone from the folder before that (FolderIsBehind).                      *)
(***************************************************************************)
EXTENDS AlertIntake, MailIntake, FiniteSetTheorems, WellFoundedInduction, TLAPS

-----------------------------------------------------------------------------
(* The invariant of the alerts.                                             *)

OpType ==
    {Idle}
      \union [pc : {"waiting"}, body : Bodies, open : SUBSET Nat, crossed : BOOLEAN]
      \union [pc : {"held"}, body : Bodies, found : Nat, open : Seq(Alerts), crossed : BOOLEAN]

Types ==
    /\ alerts \in Seq(Alerts) /\ heard \in Seq(Nat) /\ opened \in Seq(Nat)
    /\ DOMAIN heard = DOMAIN alerts /\ DOMAIN opened = DOMAIN alerts
    /\ op \in [Requests -> OpType]
    /\ posts \in 0..MaxPosts /\ races \in Nat

\* Every open transaction was posted, and every race was one.
Busy == {p \in Requests : op[p] # Idle}
RacesWerePosted == IsFiniteSet(Busy) /\ races + Cardinality(Busy) <= posts

\* The row a transaction has read is the row it will write: nobody else holds
\* it, clears it, counts on it or gives it a ticket meanwhile.
HoldsItsRow ==
    \A p \in Requests : op[p].pc = "held" /\ op[p].found # 0 =>
        LET a   == op[p].found
            row == op[p].open[1]
        IN  /\ a \in OpenAlerts
            /\ row.count = alerts[a].count
            /\ row.ticket = "none" <=> alerts[a].ticket = "none"
            /\ \A q \in Requests : op[q].pc = "held" /\ op[q].found = a => q = p

\* A transaction that no insert has crossed has seen every open alert.
SeesUnlessCrossed ==
    \A p \in Requests :
        /\ op[p].pc = "waiting" /\ ~op[p].crossed => OpenAlerts \subseteq op[p].open
        /\ op[p].pc = "held" /\ op[p].found = 0 /\ ~op[p].crossed => OpenAlerts = {}

TicketsAreCounted ==
    \A a \in DOMAIN alerts : opened[a] = IF alerts[a].ticket = "none" THEN 0 ELSE 1

IInv ==
    /\ Types
    /\ RacesWerePosted
    /\ HoldsItsRow
    /\ SeesUnlessCrossed
    /\ TicketsAreCounted
    /\ BeatsAreCounted
    /\ SilenceHasReason
    /\ OneOpenUnlessRaced

-----------------------------------------------------------------------------
(* Helpers.                                                                 *)

LEMMA LeastNatural ==
    ASSUME NEW T \in SUBSET Nat, T # {}
    PROVE  \E m \in T : \A n \in T : m <= n
<1> DEFINE R == StrictSubsetOrdering(Nat)
           U == {1..n : n \in T}
<1>1. IsWellFoundedOn(R, FiniteSubsetsOf(Nat))
  BY FS_StrictSubsetOrderingWellFounded
<1>2. U \subseteq FiniteSubsetsOf(Nat) /\ U # {}
  <2>1. \A n \in T : IsFiniteSet(1..n) /\ 1..n \in SUBSET Nat
    BY FS_Interval
  <2> QED
    BY <2>1 DEF FiniteSubsetsOf
<1>3. PICK x \in U : \A y \in U : ~(<<y, x>> \in R)
  <2> HIDE DEF U, R
  <2> QED
    BY <1>1, <1>2, WFMin
<1>4. PICK m \in T : x = 1..m
  OBVIOUS
<1>5. ASSUME NEW n \in T, n < m PROVE FALSE
  <2>1. m \in 1..m /\ m \notin 1..n
    BY <1>5
  <2>2. 1..n \in SUBSET Nat /\ 1..m \in SUBSET Nat /\ 1..n \subseteq 1..m /\ 1..n # 1..m
    BY <1>5, <2>1
  <2>3. <<1..n, 1..m>> \in R
    BY <2>2 DEF StrictSubsetOrdering
  <2> QED
    BY <1>3, <1>4, <2>3
<1> QED
  BY <1>5

\* The newest of some alerts is one of them.
LEMMA NewestIsOne ==
    ASSUME alerts \in Seq(Alerts), NEW S \in SUBSET DOMAIN alerts, S # {}
    PROVE  Newest(S) \in S
<1>0. \A a \in S : alerts[a].first \in 1..MaxAt
  <2>1. \A a \in DOMAIN alerts : alerts[a] \in Alerts
    OBVIOUS
  <2> QED
    BY <2>1 DEF Alerts
<1> DEFINE T == {MaxAt - alerts[a].first : a \in S}
<1>1. T \in SUBSET Nat /\ T # {}
  BY <1>0, AlertAssumption
<1>2. PICK m \in T : \A n \in T : m <= n
  BY <1>1, LeastNatural
<1>3. PICK a \in S : m = MaxAt - alerts[a].first
  OBVIOUS
<1>4. \A b \in S : alerts[b].first <= alerts[a].first
  <2> TAKE b \in S
  <2>1. m <= MaxAt - alerts[b].first
    BY <1>2
  <2> QED
    BY <2>1, <1>0, <1>3, AlertAssumption
<1> QED
  BY <1>4 DEF Newest

LEMMA OpenIsFinite ==
    ASSUME alerts \in Seq(Alerts)
    PROVE  IsFiniteSet(OpenAlerts) /\ OpenAlerts \subseteq DOMAIN alerts
<1>1. DOMAIN alerts = 1..Len(alerts) /\ Len(alerts) \in Nat
  OBVIOUS
<1>2. IsFiniteSet(DOMAIN alerts)
  BY <1>1, FS_Interval
<1>3. OpenAlerts \subseteq DOMAIN alerts
  BY DEF OpenAlerts, OpenOf
<1> QED
  BY <1>2, <1>3, FS_Subset

LEMMA OpKinds ==
    ASSUME Types, NEW p \in Requests
    PROVE  /\ op[p].pc \in {"idle", "waiting", "held"}
           /\ op[p].pc = "idle" <=> op[p] = Idle
           /\ op[p].pc = "waiting" => op[p] \in [pc : {"waiting"}, body : Bodies,
                                                  open : SUBSET Nat, crossed : BOOLEAN]
           /\ op[p].pc = "held" => op[p] \in [pc : {"held"}, body : Bodies, found : Nat,
                                               open : Seq(Alerts), crossed : BOOLEAN]
<1>1. op[p] \in OpType
  BY DEF Types
<1>2. CASE op[p] = Idle
  BY <1>2 DEF Idle
<1>3. CASE op[p] \in [pc : {"waiting"}, body : Bodies, open : SUBSET Nat, crossed : BOOLEAN]
  <2>1. op[p].pc = "waiting"
    BY <1>3
  <2> QED
    BY <1>3, <2>1 DEF Idle
<1>4. CASE op[p] \in [pc : {"held"}, body : Bodies, found : Nat, open : Seq(Alerts),
                      crossed : BOOLEAN]
  <2>1. op[p].pc = "held"
    BY <1>4
  <2> QED
    BY <1>4, <2>1 DEF Idle
<1> QED
  BY <1>1, <1>2, <1>3, <1>4 DEF OpType

LEMMA BodyKinds ==
    ASSUME NEW body \in Bodies
    PROVE  /\ body.count \in Nat \ {0} /\ body.status \in {"firing", "resolved"}
           /\ body.status = "firing" => body.at \in 1..MaxAt /\ body.quiet \in BOOLEAN
<1>1. CASE body \in [status : {"firing"}, count : Counts, at : 1..MaxAt, quiet : BOOLEAN]
  BY <1>1, AlertAssumption
<1>2. CASE body \in [status : {"resolved"}, count : Counts]
  BY <1>2, AlertAssumption
<1> QED
  BY <1>1, <1>2 DEF Bodies

-----------------------------------------------------------------------------
(* The shapes of a step.                                                    *)

\* Every write of one alert's row, with the history that goes with it.
Write(a, new, tickets, beats) ==
    /\ a \in DOMAIN alerts /\ new \in Alerts /\ beats \in Nat
    /\ alerts' = [alerts EXCEPT ![a] = new]
    /\ opened' = [opened EXCEPT ![a] = tickets]
    /\ heard' = [heard EXCEPT ![a] = beats]
    /\ UNCHANGED <<posts, races>>
    /\ new.cleared = "no" => alerts[a].cleared = "no"
    /\ tickets = IF new.ticket = "none" THEN 0 ELSE 1
    /\ new.count >= beats
    /\ new.cleared = "no" /\ new.ticket = "none" =>
          \/ new.reason = "window"
          \/ new.reason = "few" /\ new.count < MinOccurrences
    /\ alerts[a].cleared # "no" => beats = heard[a]
    /\ \/ /\ op' = op
          /\ \/ a \notin Held
             \/ /\ new.cleared = alerts[a].cleared /\ new.count = alerts[a].count
                /\ new.ticket = "none" <=> alerts[a].ticket = "none"
       \/ \E p \in Requests : /\ op[p].pc = "held" /\ op[p].found = a
                              /\ op' = [op EXCEPT ![p] = Idle]

\* The steps that write no alert.
Aside == UNCHANGED <<alerts, opened, heard, races>>

End(p) == op[p] # Idle /\ Done(p) /\ UNCHANGED posts

LEMMA RowOf ==
    ASSUME Types, NEW a \in DOMAIN alerts
    PROVE  /\ alerts[a] \in Alerts /\ alerts[a].count \in Nat
           /\ alerts[a].ticket \in {"none", "open", "done"}
           /\ heard[a] \in Nat /\ opened[a] \in Nat
           /\ opened = [opened EXCEPT ![a] = opened[a]] /\ heard = [heard EXCEPT ![a] = heard[a]]
<1>1. alerts[a] \in Alerts /\ heard[a] \in Nat /\ opened[a] \in Nat
  BY DEF Types
<1> QED
  BY <1>1 DEF Types, Alerts

LEMMA RecoverShape ==
    ASSUME IInv, NEW p \in Requests, Recover(p)
    PROVE  \E a, new, tickets, beats : Write(a, new, tickets, beats)
<1> DEFINE a == op[p].found
           open == op[p].open[1]
<1>0. Types /\ op[p].pc = "held" /\ a # 0 /\ op[p].body \in Bodies /\ op[p].body.count \in Nat
  <2>1. Types /\ op[p].pc = "held" /\ a # 0
    BY DEF IInv, Recover, Ready
  <2> QED
    BY <2>1, OpKinds, BodyKinds
<1>1. /\ a \in OpenAlerts /\ open.count = alerts[a].count
      /\ open.ticket = "none" <=> alerts[a].ticket = "none"
  BY <1>0 DEF IInv, HoldsItsRow
<1>2. a \in DOMAIN alerts /\ alerts[a].cleared = "no"
  BY <1>1 DEF OpenAlerts, OpenOf
<1>3. /\ alerts[a] \in Alerts /\ alerts[a].count \in Nat
      /\ alerts[a].ticket \in {"none", "open", "done"}
      /\ heard[a] \in Nat /\ opened[a] \in Nat
      /\ opened = [opened EXCEPT ![a] = opened[a]] /\ heard = [heard EXCEPT ![a] = heard[a]]
  BY <1>0, <1>2, RowOf
<1>4. PICK touched \in BOOLEAN :
         alerts' = [alerts EXCEPT ![a] =
            [alerts[a] EXCEPT !.cleared = "recovered",
                              !.count = Larger(open.count, op[p].body.count),
                              !.ticket = AfterRecovery(alerts[a].ticket, touched)]]
  BY DEF Recover
<1>5. PICK count : count = Larger(open.count, op[p].body.count)
  OBVIOUS
<1>6. PICK ticket : ticket = AfterRecovery(alerts[a].ticket, touched)
  OBVIOUS
<1>7. count \in Nat /\ count >= alerts[a].count
  BY <1>0, <1>1, <1>3, <1>5 DEF Larger
<1>8. ticket \in {"none", "open", "done"} /\ (ticket = "none" <=> alerts[a].ticket = "none")
  BY <1>3, <1>6 DEF AfterRecovery
<1>9. PICK new : new = [alerts[a] EXCEPT !.cleared = "recovered", !.count = count,
                                        !.ticket = ticket]
  OBVIOUS
<1>10. /\ new \in Alerts /\ new.cleared = "recovered" /\ new.count = count
       /\ new.ticket = ticket
  BY <1>3, <1>7, <1>8, <1>9 DEF Alerts
<1>11. alerts' = [alerts EXCEPT ![a] = new]
  <2> HIDE DEF a, open
  <2> QED
    BY <1>4, <1>5, <1>6, <1>9
<1>12. UNCHANGED <<posts, history>> /\ op' = [op EXCEPT ![p] = Idle]
  BY DEF Recover, Done
<1>13. opened[a] = IF new.ticket = "none" THEN 0 ELSE 1
  BY <1>2, <1>8, <1>10 DEF IInv, TicketsAreCounted
<1>14. alerts[a].count >= heard[a]
  BY <1>2 DEF IInv, BeatsAreCounted
<1>15. Write(a, new, opened[a], heard[a])
  <2>1. \E q \in Requests : /\ op[q].pc = "held" /\ op[q].found = a
                            /\ op' = [op EXCEPT ![q] = Idle]
    BY <1>0, <1>12
  <2>2. UNCHANGED <<posts, races, opened, heard>>
    BY <1>12 DEF history
  <2>3. opened' = [opened EXCEPT ![a] = opened[a]] /\ heard' = [heard EXCEPT ![a] = heard[a]]
    BY <1>3, <2>2
  <2>4. new.count >= heard[a]
    BY <1>3, <1>7, <1>10, <1>14
  <2> HIDE DEF a, open
  <2> QED
    BY <2>1, <2>2, <2>3, <2>4, <1>2, <1>3, <1>10, <1>11, <1>13, Zenon DEF Write
<1> QED
  BY <1>15

LEMMA RepeatShape ==
    ASSUME IInv, NEW p \in Requests, Repeat(p)
    PROVE  \E a, new, tickets, beats : Write(a, new, tickets, beats)
<1> DEFINE a     == op[p].found
           open  == op[p].open[1]
           count == Larger(open.count + 1, op[p].body.count)
           gate  == Gate(op[p].body, count)
           opens == open.ticket = "none" /\ gate = "none"
<1>0. /\ Types /\ op[p].pc = "held" /\ a # 0 /\ op[p].body \in Bodies
      /\ op[p].body.count \in Nat /\ op[p].body.quiet \in BOOLEAN
  <2>1. Types /\ op[p].pc = "held" /\ a # 0 /\ op[p].body.status = "firing"
    BY DEF IInv, Repeat, Ready
  <2> QED
    BY <2>1, OpKinds, BodyKinds
<1>1. /\ a \in OpenAlerts /\ open.count = alerts[a].count
      /\ open.ticket = "none" <=> alerts[a].ticket = "none"
  BY <1>0 DEF IInv, HoldsItsRow
<1>2. a \in DOMAIN alerts /\ alerts[a].cleared = "no"
  BY <1>1 DEF OpenAlerts, OpenOf
<1>3. /\ alerts[a] \in Alerts /\ alerts[a].count \in Nat
      /\ alerts[a].ticket \in {"none", "open", "done"}
      /\ heard[a] \in Nat /\ opened[a] \in Nat
      /\ opened = [opened EXCEPT ![a] = opened[a]]
  BY <1>0, <1>2, RowOf
<1>4. /\ alerts' = [alerts EXCEPT ![a] =
            [alerts[a] EXCEPT !.count = count,
                              !.ticket = IF opens THEN "open" ELSE alerts[a].ticket,
                              !.reason = IF open.ticket = "none" THEN gate
                                         ELSE alerts[a].reason]]
      /\ opened' = IF opens THEN [opened EXCEPT ![a] = opened[a] + 1] ELSE opened
      /\ heard' = [heard EXCEPT ![a] = heard[a] + 1]
      /\ op' = [op EXCEPT ![p] = Idle] /\ UNCHANGED <<posts, races>>
  BY DEF Repeat, Done
<1>5. PICK n : n = count
  OBVIOUS
<1>6. n \in Nat /\ n >= alerts[a].count + 1
  BY <1>0, <1>1, <1>3, <1>5 DEF Larger
<1>7. gate \in {"none", "window", "few"} /\ (gate = "few" => n < MinOccurrences)
  BY <1>5 DEF Gate
<1>8. PICK ticket : ticket = IF opens THEN "open" ELSE alerts[a].ticket
  OBVIOUS
<1>9. PICK reason : reason = IF open.ticket = "none" THEN gate ELSE alerts[a].reason
  OBVIOUS
<1>10. /\ ticket \in {"none", "open", "done"}
       /\ opens => alerts[a].ticket = "none" /\ ticket # "none"
       /\ ~opens => ticket = alerts[a].ticket
       /\ ticket = "none" => open.ticket = "none" /\ reason = gate /\ gate # "none"
  BY <1>1, <1>3, <1>8, <1>9
<1>11. reason \in {"none", "window", "few", "agent"}
  BY <1>3, <1>7, <1>9 DEF Alerts
<1>12. PICK new : new = [alerts[a] EXCEPT !.count = n, !.ticket = ticket, !.reason = reason]
  OBVIOUS
<1>13. /\ new \in Alerts /\ new.cleared = "no" /\ new.count = n
       /\ new.ticket = ticket /\ new.reason = reason
  BY <1>2, <1>3, <1>6, <1>10, <1>11, <1>12 DEF Alerts
<1>14. alerts' = [alerts EXCEPT ![a] = new]
  BY <1>4, <1>5, <1>8, <1>9, <1>12
<1>15. PICK tickets : tickets = IF opens THEN opened[a] + 1 ELSE opened[a]
  OBVIOUS
<1>16. opened' = [opened EXCEPT ![a] = tickets]
  BY <1>3, <1>4, <1>15
<1>17. tickets = IF new.ticket = "none" THEN 0 ELSE 1
  <2>1. opened[a] = IF alerts[a].ticket = "none" THEN 0 ELSE 1
    BY <1>2 DEF IInv, TicketsAreCounted
  <2> QED
    BY <2>1, <1>10, <1>13, <1>15
<1>18. heard[a] + 1 \in Nat /\ new.count >= heard[a] + 1
  <2>1. alerts[a].count >= heard[a]
    BY <1>2 DEF IInv, BeatsAreCounted
  <2> QED
    BY <2>1, <1>3, <1>6, <1>13
<1>19. new.ticket = "none" =>
          \/ new.reason = "window"
          \/ new.reason = "few" /\ new.count < MinOccurrences
  BY <1>7, <1>10, <1>13
<1>20. \E q \in Requests : op[q].pc = "held" /\ op[q].found = a /\ op' = [op EXCEPT ![q] = Idle]
  BY <1>0, <1>4
<1>21. UNCHANGED <<posts, races>> /\ heard' = [heard EXCEPT ![a] = heard[a] + 1]
  BY <1>4
<1> HIDE DEF a, open, count, gate, opens
<1>22. Write(a, new, tickets, heard[a] + 1)
  BY <1>2, <1>13, <1>14, <1>16, <1>17, <1>18, <1>19, <1>20, <1>21, Zenon DEF Write
<1> QED
  BY <1>22

LEMMA ConvertShape ==
    ASSUME IInv, NEW a \in DOMAIN alerts, Convert(a)
    PROVE  \E new, tickets, beats : Write(a, new, tickets, beats)
<1>1. /\ alerts[a] \in Alerts /\ alerts[a].count \in Nat /\ heard[a] \in Nat /\ opened[a] \in Nat
      /\ heard = [heard EXCEPT ![a] = heard[a]]
  BY RowOf DEF IInv
<1>2. PICK new : new = [alerts[a] EXCEPT !.ticket = "open", !.reason = "none"]
  OBVIOUS
<1>3. /\ new \in Alerts /\ new.cleared = alerts[a].cleared /\ new.count = alerts[a].count
      /\ new.ticket = "open"
  BY <1>1, <1>2 DEF Alerts
<1>4. /\ alerts' = [alerts EXCEPT ![a] = new] /\ op' = op /\ a \notin Held
      /\ UNCHANGED <<posts, races, heard>>
      /\ opened' = [opened EXCEPT ![a] = opened[a] + 1] /\ alerts[a].ticket = "none"
  BY <1>2 DEF Convert
<1>5. opened[a] = 0 /\ alerts[a].count >= heard[a]
  BY <1>4 DEF IInv, TicketsAreCounted, BeatsAreCounted
<1>6. opened' = [opened EXCEPT ![a] = 1] /\ heard' = [heard EXCEPT ![a] = heard[a]]
  BY <1>1, <1>4, <1>5
<1>7. Write(a, new, 1, heard[a])
  BY <1>1, <1>3, <1>4, <1>5, <1>6, Zenon DEF Write
<1> QED
  BY <1>7

LEMMA DismissShape ==
    ASSUME IInv, NEW a \in DOMAIN alerts, Dismiss(a)
    PROVE  \E new, tickets, beats : Write(a, new, tickets, beats)
<1>1. /\ alerts[a] \in Alerts /\ alerts[a].count \in Nat /\ heard[a] \in Nat /\ opened[a] \in Nat
      /\ heard = [heard EXCEPT ![a] = heard[a]] /\ opened = [opened EXCEPT ![a] = opened[a]]
  BY RowOf DEF IInv
<1>2. PICK new : new = [alerts[a] EXCEPT !.cleared = "dismissed", !.reason = "agent"]
  OBVIOUS
<1>3. /\ new \in Alerts /\ new.cleared = "dismissed" /\ new.count = alerts[a].count
      /\ new.ticket = alerts[a].ticket
  BY <1>1, <1>2 DEF Alerts
<1>4. /\ alerts' = [alerts EXCEPT ![a] = new] /\ op' = op /\ a \notin Held
      /\ UNCHANGED <<posts, races, heard, opened>>
  BY <1>2 DEF Dismiss, history
<1>5. /\ opened[a] = IF alerts[a].ticket = "none" THEN 0 ELSE 1
      /\ alerts[a].count >= heard[a]
  BY DEF IInv, TicketsAreCounted, BeatsAreCounted
<1>6. opened' = [opened EXCEPT ![a] = opened[a]] /\ heard' = [heard EXCEPT ![a] = heard[a]]
  BY <1>1, <1>4
<1>7. Write(a, new, opened[a], heard[a])
  BY <1>1, <1>3, <1>4, <1>5, <1>6, Zenon DEF Write
<1> QED
  BY <1>7

LEMMA SettledShape ==
    ASSUME IInv, NEW a \in DOMAIN alerts, TicketSettled(a)
    PROVE  \E new, tickets, beats : Write(a, new, tickets, beats)
<1>1. /\ alerts[a] \in Alerts /\ alerts[a].count \in Nat /\ heard[a] \in Nat /\ opened[a] \in Nat
      /\ heard = [heard EXCEPT ![a] = heard[a]] /\ opened = [opened EXCEPT ![a] = opened[a]]
  BY RowOf DEF IInv
<1>2. PICK new : new = [alerts[a] EXCEPT !.ticket = "done"]
  OBVIOUS
<1>3. /\ new \in Alerts /\ new.cleared = alerts[a].cleared /\ new.count = alerts[a].count
      /\ new.ticket = "done"
  BY <1>1, <1>2 DEF Alerts
<1>4. /\ alerts' = [alerts EXCEPT ![a] = new] /\ op' = op /\ alerts[a].ticket = "open"
      /\ UNCHANGED <<posts, races, heard, opened>>
  BY <1>2 DEF TicketSettled, history
<1>5. opened[a] = 1 /\ alerts[a].count >= heard[a]
  BY <1>4 DEF IInv, TicketsAreCounted, BeatsAreCounted
<1>6. opened' = [opened EXCEPT ![a] = opened[a]] /\ heard' = [heard EXCEPT ![a] = heard[a]]
  BY <1>1, <1>4
<1>7. Write(a, new, opened[a], heard[a])
  BY <1>1, <1>3, <1>4, <1>5, <1>6, Zenon DEF Write
<1> QED
  BY <1>7

LEMMA StepShape ==
    ASSUME IInv, [Next]_vars
    PROVE  \/ \E a, new, tickets, beats : Write(a, new, tickets, beats)
           \/ \E p \in Requests : FirstBeat(p)
           \/ \E p \in Requests : Aside /\ (Arrive(p) \/ Find(p) \/ End(p))
           \/ UNCHANGED vars
<1>1. ASSUME NEW p \in Requests, Arrive(p) \/ Find(p)
      PROVE  Aside
  BY <1>1 DEF Arrive, Find, history, Aside
<1>2. ASSUME NEW p \in Requests, Fail(p) \/ IgnoreRecovery(p) \/ Clash(p)
      PROVE  Aside /\ End(p)
  <2>1. op[p] # Idle
    BY <1>2 DEF Fail, IgnoreRecovery, Clash, Ready, Idle
  <2>2. Done(p) /\ UNCHANGED posts /\ UNCHANGED <<alerts, heard, opened, races>>
    BY <1>2 DEF Fail, IgnoreRecovery, Clash, history
  <2> QED
    BY <2>1, <2>2 DEF Aside, End
<1>3. ASSUME NEW p \in Requests, Recover(p) \/ Repeat(p)
      PROVE  \E a, new, tickets, beats : Write(a, new, tickets, beats)
  BY <1>3, RecoverShape, RepeatShape
<1>4. ASSUME NEW a \in DOMAIN alerts, Convert(a) \/ Dismiss(a) \/ TicketSettled(a)
      PROVE  \E new, tickets, beats : Write(a, new, tickets, beats)
  BY <1>4, ConvertShape, DismissShape, SettledShape
<1> QED
  BY <1>1, <1>2, <1>3, <1>4 DEF Next

\* What a write leaves of the alerts.
LEMMA WriteEffect ==
    ASSUME Types, NEW a, NEW new, NEW tickets, NEW beats, Write(a, new, tickets, beats)
    PROVE  /\ alerts' \in Seq(Alerts) /\ DOMAIN alerts' = DOMAIN alerts
           /\ heard' \in Seq(Nat) /\ DOMAIN heard' = DOMAIN alerts
           /\ opened' \in Seq(Nat) /\ DOMAIN opened' = DOMAIN alerts
           /\ alerts'[a] = new /\ heard'[a] = beats /\ opened'[a] = tickets
           /\ \A b \in DOMAIN alerts \ {a} :
                 alerts'[b] = alerts[b] /\ heard'[b] = heard[b] /\ opened'[b] = opened[b]
           /\ OpenAlerts' \subseteq OpenAlerts
<1>1. /\ a \in DOMAIN alerts /\ new \in Alerts /\ beats \in Nat /\ tickets \in Nat
      /\ alerts' = [alerts EXCEPT ![a] = new]
      /\ opened' = [opened EXCEPT ![a] = tickets]
      /\ heard' = [heard EXCEPT ![a] = beats]
      /\ new.cleared = "no" => alerts[a].cleared = "no"
  BY DEF Write
<1>2. /\ alerts' \in Seq(Alerts) /\ DOMAIN alerts' = DOMAIN alerts
      /\ heard' \in Seq(Nat) /\ DOMAIN heard' = DOMAIN alerts
      /\ opened' \in Seq(Nat) /\ DOMAIN opened' = DOMAIN alerts
  BY <1>1 DEF Types
<1>3. alerts'[a] = new /\ heard'[a] = beats /\ opened'[a] = tickets
  BY <1>1 DEF Types
<1>4. \A b \in DOMAIN alerts \ {a} :
         alerts'[b] = alerts[b] /\ heard'[b] = heard[b] /\ opened'[b] = opened[b]
  BY <1>1 DEF Types
<1>5. OpenAlerts' \subseteq OpenAlerts
  <2>1. \A b \in DOMAIN alerts : alerts'[b].cleared = "no" => alerts[b].cleared = "no"
    BY <1>1, <1>3, <1>4
  <2> QED
    BY <1>2, <2>1 DEF OpenAlerts, OpenOf
<1> QED
  BY <1>2, <1>3, <1>4, <1>5

\* What a first beat adds.
LEMMA FirstBeatEffect ==
    ASSUME IInv, NEW p \in Requests, FirstBeat(p)
    PROVE  \E n \in Nat :
           /\ DOMAIN alerts = 1..n /\ DOMAIN alerts' = 1..(n + 1)
           /\ DOMAIN heard' = 1..(n + 1) /\ DOMAIN opened' = 1..(n + 1)
           /\ alerts' \in Seq(Alerts) /\ heard' \in Seq(Nat) /\ opened' \in Seq(Nat)
           /\ \A b \in 1..n :
                 alerts'[b] = alerts[b] /\ heard'[b] = heard[b] /\ opened'[b] = opened[b]
           /\ OpenAlerts' = OpenAlerts \union {n + 1}
           /\ alerts'[n + 1].count >= heard'[n + 1]
           /\ opened'[n + 1] = IF alerts'[n + 1].ticket = "none" THEN 0 ELSE 1
           /\ alerts'[n + 1].ticket = "none" =>
                 \/ alerts'[n + 1].reason = "window"
                 \/ alerts'[n + 1].reason = "few" /\ alerts'[n + 1].count < MinOccurrences
<1> DEFINE body == op[p].body
           gate == Gate(body, body.count)
<1>0. /\ Types /\ op[p].pc = "held" /\ op[p].found = 0 /\ body \in Bodies
      /\ body.count \in Nat \ {0} /\ body.quiet \in BOOLEAN /\ body.at \in 1..MaxAt
  <2>1. Types /\ op[p].pc = "held" /\ op[p].found = 0 /\ body.status = "firing"
    BY DEF IInv, FirstBeat, Ready
  <2> QED
    BY <2>1, OpKinds, BodyKinds
<1>1. gate \in {"none", "window", "few"} /\ (gate = "few" => body.count < MinOccurrences)
  BY DEF Gate
<1>2. PICK new : new = [first |-> body.at, count |-> body.count, cleared |-> "no",
                        reason |-> gate, ticket |-> IF gate = "none" THEN "open" ELSE "none"]
  OBVIOUS
<1>3. PICK tickets : tickets = IF gate = "none" THEN 1 ELSE 0
  OBVIOUS
<1>4. /\ alerts' = Append(alerts, new) /\ opened' = Append(opened, tickets)
      /\ heard' = Append(heard, 1)
  BY <1>2, <1>3 DEF FirstBeat
<1>5. /\ new.first = body.at /\ new.count = body.count /\ new.cleared = "no"
      /\ new.reason = gate /\ new.ticket = IF gate = "none" THEN "open" ELSE "none"
  BY <1>2
<1>6. new \in Alerts /\ tickets \in Nat
  <2>1. new = [first |-> new.first, count |-> new.count, cleared |-> new.cleared,
               reason |-> new.reason, ticket |-> new.ticket]
    BY <1>2
  <2>2. /\ new.first \in 1..MaxAt /\ new.count \in Nat
        /\ new.reason \in {"none", "window", "few", "agent"} /\ new.ticket \in {"none", "open"}
    BY <1>0, <1>1, <1>5
  <2> HIDE DEF gate, body
  <2> QED
    BY <2>1, <2>2, <1>3, <1>5 DEF Alerts
<1> HIDE DEF gate, body
<1>7. PICK n \in Nat : /\ n = Len(alerts) /\ n = Len(heard) /\ n = Len(opened)
                       /\ DOMAIN alerts = 1..n /\ DOMAIN heard = 1..n /\ DOMAIN opened = 1..n
  <2>1. /\ Len(alerts) \in Nat /\ Len(heard) \in Nat /\ Len(opened) \in Nat
        /\ DOMAIN alerts = 1..Len(alerts) /\ DOMAIN heard = 1..Len(heard)
        /\ DOMAIN opened = 1..Len(opened) /\ DOMAIN heard = DOMAIN alerts
        /\ DOMAIN opened = DOMAIN alerts
    BY <1>0 DEF Types
  <2>2. ASSUME NEW i \in Nat, NEW j \in Nat, 1..i = 1..j PROVE i = j
    <3>1. ~(i < j)
      <4> SUFFICES ASSUME i < j PROVE FALSE
        OBVIOUS
      <4>1. j \in 1..j /\ j \notin 1..i
        OBVIOUS
      <4> QED
        BY <4>1, <2>2
    <3>2. ~(j < i)
      <4> SUFFICES ASSUME j < i PROVE FALSE
        OBVIOUS
      <4>1. i \in 1..i /\ i \notin 1..j
        OBVIOUS
      <4> QED
        BY <4>1, <2>2
    <3> QED
      BY <3>1, <3>2
  <2>3. Len(heard) = Len(alerts) /\ Len(opened) = Len(alerts)
    BY <2>1, <2>2
  <2> QED
    BY <2>1, <2>3
<1>8. /\ DOMAIN alerts' = 1..(n + 1) /\ alerts' \in Seq(Alerts) /\ alerts'[n + 1] = new
      /\ \A b \in 1..n : alerts'[b] = alerts[b]
  BY <1>0, <1>4, <1>6, <1>7 DEF Types
<1>9. /\ DOMAIN heard' = 1..(n + 1) /\ heard' \in Seq(Nat) /\ heard'[n + 1] = 1
      /\ \A b \in 1..n : heard'[b] = heard[b]
  BY <1>0, <1>4, <1>7 DEF Types
<1>10. /\ DOMAIN opened' = 1..(n + 1) /\ opened' \in Seq(Nat) /\ opened'[n + 1] = tickets
       /\ \A b \in 1..n : opened'[b] = opened[b]
  BY <1>0, <1>4, <1>6, <1>7 DEF Types
<1>11. OpenAlerts' = OpenAlerts \union {n + 1}
  <2>1. OpenAlerts = {a \in 1..n : alerts[a].cleared = "no"}
    BY <1>7 DEF OpenAlerts, OpenOf
  <2>2. OpenAlerts' = {a \in 1..(n + 1) : alerts'[a].cleared = "no"}
    BY <1>8 DEF OpenAlerts, OpenOf
  <2>3. \A a : a \in 1..(n + 1) <=> a \in 1..n \/ a = n + 1
    OBVIOUS
  <2> QED
    BY <2>1, <2>2, <2>3, <1>5, <1>8
<1>12. /\ new.count >= 1
       /\ tickets = IF new.ticket = "none" THEN 0 ELSE 1
       /\ new.ticket = "none" =>
             \/ new.reason = "window"
             \/ new.reason = "few" /\ new.count < MinOccurrences
  <2>1. new.count >= 1
    BY <1>0, <1>5
  <2>2. tickets = IF new.ticket = "none" THEN 0 ELSE 1
    BY <1>3, <1>5
  <2>3. ASSUME new.ticket = "none"
        PROVE  \/ new.reason = "window"
               \/ new.reason = "few" /\ new.count < MinOccurrences
    <3>1. gate # "none"
      BY <1>5, <2>3
    <3>2. CASE gate = "window"
      BY <1>5, <3>2
    <3>3. CASE gate = "few"
      BY <1>1, <1>5, <3>3
    <3> QED
      BY <1>1, <3>1, <3>2, <3>3
  <2> QED
    BY <2>1, <2>2, <2>3
<1> QED
  BY <1>7, <1>8, <1>9, <1>10, <1>11, <1>12

-----------------------------------------------------------------------------
(* The invariant.                                                           *)

LEMMA StepTypes ==
    ASSUME IInv, [Next]_vars
    PROVE  Types'
<1>0. Types
  BY DEF IInv
<1>1. ASSUME NEW a, NEW new, NEW tickets, NEW beats, Write(a, new, tickets, beats) PROVE Types'
  <2>1. op' \in [Requests -> OpType]
    BY <1>0, <1>1 DEF Write, Types, OpType
  <2>2. posts' = posts /\ races' = races
    BY <1>1 DEF Write
  <2> QED
    BY <1>0, <1>1, <2>1, <2>2, WriteEffect DEF Types
<1>2. ASSUME NEW p \in Requests, FirstBeat(p) PROVE Types'
  <2>1. op' \in [Requests -> OpType]
    <3>1. op' = [q \in Requests |-> IF q = p \/ op[q] = Idle THEN Idle
                                    ELSE [op[q] EXCEPT !.crossed = TRUE]]
      BY <1>2 DEF FirstBeat
    <3>2. ASSUME NEW q \in Requests, op[q] # Idle
          PROVE  [op[q] EXCEPT !.crossed = TRUE] \in OpType
      <4>1. op[q].pc \in {"waiting", "held"}
        BY <1>0, <3>2, OpKinds
      <4>2. CASE op[q].pc = "waiting"
        <5>1. op[q] \in [pc : {"waiting"}, body : Bodies, open : SUBSET Nat, crossed : BOOLEAN]
          BY <1>0, <4>2, OpKinds
        <5>2. [op[q] EXCEPT !.crossed = TRUE]
                \in [pc : {"waiting"}, body : Bodies, open : SUBSET Nat, crossed : BOOLEAN]
          BY <5>1
        <5> QED
          BY <5>2 DEF OpType
      <4>3. CASE op[q].pc = "held"
        <5>1. op[q] \in [pc : {"held"}, body : Bodies, found : Nat, open : Seq(Alerts),
                         crossed : BOOLEAN]
          BY <1>0, <4>3, OpKinds
        <5>2. [op[q] EXCEPT !.crossed = TRUE]
                \in [pc : {"held"}, body : Bodies, found : Nat, open : Seq(Alerts),
                     crossed : BOOLEAN]
          BY <5>1
        <5> QED
          BY <5>2 DEF OpType
      <4> QED
        BY <4>1, <4>2, <4>3
    <3> QED
      BY <3>1, <3>2 DEF OpType
  <2>2. posts' = posts /\ races' \in Nat
    BY <1>0, <1>2 DEF FirstBeat, Types
  <2>3. /\ alerts' \in Seq(Alerts) /\ heard' \in Seq(Nat) /\ opened' \in Seq(Nat)
        /\ DOMAIN heard' = DOMAIN alerts' /\ DOMAIN opened' = DOMAIN alerts'
    BY <1>2, FirstBeatEffect
  <2> QED
    BY <1>0, <2>1, <2>2, <2>3 DEF Types
<1>3. ASSUME NEW p \in Requests, Aside, Arrive(p) PROVE Types'
  <2>1. PICK body \in Bodies :
           op' = [op EXCEPT ![p] = [pc |-> "waiting", body |-> body, open |-> OpenAlerts,
                                    crossed |-> FALSE]]
    BY <1>3 DEF Arrive
  <2>2. OpenAlerts \in SUBSET Nat
    BY <1>0 DEF Types, OpenAlerts, OpenOf
  <2>3. [pc |-> "waiting", body |-> body, open |-> OpenAlerts, crossed |-> FALSE] \in OpType
    BY <2>2 DEF OpType
  <2>4. op' \in [Requests -> OpType]
    BY <1>0, <2>1, <2>3 DEF Types
  <2>5. posts' \in 0..MaxPosts
    BY <1>0, <1>3, AlertAssumption DEF Arrive, Types
  <2> QED
    BY <1>0, <1>3, <2>4, <2>5 DEF Aside, Types
<1>4. ASSUME NEW p \in Requests, Aside, Find(p) PROVE Types'
  <2>0. op[p] \in [pc : {"waiting"}, body : Bodies, open : SUBSET Nat, crossed : BOOLEAN]
    BY <1>0, <1>4, OpKinds DEF Find
  <2>1. \E a, row : /\ a \in Nat /\ row \in Seq(Alerts) /\ HeldWith(p, a, row)
    <3> DEFINE still == op[p].open \intersect OpenAlerts
    <3>1. CASE still = {}
      <4>1. HeldWith(p, 0, <<>>) /\ 0 \in Nat /\ <<>> \in Seq(Alerts)
        BY <1>4, <3>1 DEF Find
      <4> QED
        BY <4>1, Zenon
    <3>2. CASE still # {}
      <4>1. still \in SUBSET DOMAIN alerts
        BY DEF OpenAlerts, OpenOf
      <4>2. Newest(still) \in DOMAIN alerts
        BY <1>0, <3>2, <4>1, NewestIsOne DEF Types
      <4>3. Newest(still) \in Nat /\ <<alerts[Newest(still)]>> \in Seq(Alerts)
        BY <1>0, <4>2 DEF Types
      <4>4. HeldWith(p, Newest(still), <<alerts[Newest(still)]>>)
        BY <1>4, <3>2 DEF Find
      <4> QED
        BY <4>3, <4>4
    <3> QED
      BY <3>1, <3>2
  <2>2. PICK a \in Nat, row \in Seq(Alerts) : HeldWith(p, a, row)
    BY <2>1
  <2>3. [pc |-> "held", body |-> op[p].body, found |-> a, open |-> row,
         crossed |-> op[p].crossed] \in OpType
    BY <2>0 DEF OpType
  <2>4. op' \in [Requests -> OpType]
    BY <1>0, <2>2, <2>3 DEF Types, HeldWith
  <2> QED
    BY <1>0, <1>4, <2>4 DEF Aside, Find, Types
<1>5. ASSUME NEW p \in Requests, Aside, End(p) PROVE Types'
  BY <1>0, <1>5 DEF Aside, End, Done, Types, OpType
<1>6. CASE UNCHANGED vars
  BY <1>0, <1>6 DEF vars, Types
<1> QED
  BY <1>1, <1>2, <1>3, <1>4, <1>5, <1>6, StepShape

LEMMA StepRaces ==
    ASSUME IInv, [Next]_vars
    PROVE  RacesWerePosted'
<1>0. Types /\ IsFiniteSet(Busy) /\ races + Cardinality(Busy) <= posts /\ Cardinality(Busy) \in Nat
      /\ op \in [Requests -> OpType] /\ races \in Nat /\ posts \in Nat
  BY FS_CardinalityType, AlertAssumption DEF IInv, RacesWerePosted, Types
<1>1. ASSUME Busy' \subseteq Busy, UNCHANGED <<races, posts>> PROVE RacesWerePosted'
  <2>1. IsFiniteSet(Busy') /\ Cardinality(Busy') <= Cardinality(Busy) /\ Cardinality(Busy') \in Nat
    BY <1>0, <1>1, FS_Subset, FS_CardinalityType
  <2> QED
    BY <1>0, <1>1, <2>1 DEF RacesWerePosted
<1>2. ASSUME NEW p \in Requests, op' = [op EXCEPT ![p] = Idle] PROVE Busy' \subseteq Busy
  BY <1>0, <1>2 DEF Busy
<1>3. ASSUME NEW a, NEW new, NEW tickets, NEW beats, Write(a, new, tickets, beats)
      PROVE  RacesWerePosted'
  <2>1. UNCHANGED <<races, posts>>
    BY <1>3 DEF Write
  <2>2. op' = op => Busy' \subseteq Busy
    BY DEF Busy
  <2>3. op' = op \/ \E p \in Requests : op' = [op EXCEPT ![p] = Idle]
    BY <1>3 DEF Write
  <2> QED
    BY <1>1, <1>2, <2>1, <2>2, <2>3
<1>4. ASSUME NEW p \in Requests, FirstBeat(p) PROVE RacesWerePosted'
  <2>1. p \in Busy
    BY <1>4 DEF FirstBeat, Ready, Busy, Idle
  <2>2. Busy' = Busy \ {p}
    <3>1. op' = [q \in Requests |-> IF q = p \/ op[q] = Idle THEN Idle
                                    ELSE [op[q] EXCEPT !.crossed = TRUE]]
      BY <1>4 DEF FirstBeat
    <3>2. ASSUME NEW q \in Requests, op[q] # Idle PROVE [op[q] EXCEPT !.crossed = TRUE] # Idle
      <4>1. op[q].pc \in {"waiting", "held"}
        BY <1>0, <3>2, OpKinds
      <4>2. CASE op[q].pc = "waiting"
        <5>1. op[q] \in [pc : {"waiting"}, body : Bodies, open : SUBSET Nat, crossed : BOOLEAN]
          BY <1>0, <4>2, OpKinds
        <5>2. [op[q] EXCEPT !.crossed = TRUE].pc = "waiting"
          BY <5>1
        <5> QED
          BY <5>2 DEF Idle
      <4>3. CASE op[q].pc = "held"
        <5>1. op[q] \in [pc : {"held"}, body : Bodies, found : Nat, open : Seq(Alerts),
                         crossed : BOOLEAN]
          BY <1>0, <4>3, OpKinds
        <5>2. [op[q] EXCEPT !.crossed = TRUE].pc = "held"
          BY <5>1
        <5> QED
          BY <5>2 DEF Idle
      <4> QED
        BY <4>1, <4>2, <4>3
    <3> QED
      BY <3>1, <3>2 DEF Busy
  <2>3. IsFiniteSet(Busy') /\ Cardinality(Busy') = Cardinality(Busy) - 1
    BY <1>0, <2>1, <2>2, FS_RemoveElement
  <2>4. posts' = posts /\ (races' = races \/ races' = races + 1)
    BY <1>4 DEF FirstBeat
  <2> QED
    BY <1>0, <2>3, <2>4 DEF RacesWerePosted
<1>5. ASSUME NEW p \in Requests, Aside, Arrive(p) PROVE RacesWerePosted'
  <2>1. Busy' = Busy \union {p} /\ p \notin Busy
    <3>1. PICK new : op' = [op EXCEPT ![p] = new] /\ new.pc = "waiting" /\ op[p] = Idle
      BY <1>5 DEF Arrive
    <3>2. new # Idle
      BY <3>1 DEF Idle
    <3> QED
      BY <1>0, <3>1, <3>2 DEF Busy
  <2>2. IsFiniteSet(Busy') /\ Cardinality(Busy') = Cardinality(Busy) + 1
    BY <1>0, <2>1, FS_AddElement
  <2>3. posts' = posts + 1 /\ races' = races
    BY <1>5 DEF Arrive, Aside
  <2> QED
    BY <1>0, <2>2, <2>3 DEF RacesWerePosted
<1>6. ASSUME NEW p \in Requests, Aside, Find(p) PROVE RacesWerePosted'
  <2>1. PICK new : op' = [op EXCEPT ![p] = new]
    BY <1>6 DEF Find, HeldWith
  <2>2. p \in Busy
    BY <1>6 DEF Find, Busy, Idle
  <2>3. Busy' \subseteq Busy
    BY <1>0, <2>1, <2>2 DEF Busy
  <2> QED
    BY <1>1, <1>6, <2>3 DEF Aside, Find
<1>7. ASSUME NEW p \in Requests, Aside, End(p) PROVE RacesWerePosted'
  BY <1>1, <1>2, <1>7 DEF Aside, End, Done
<1>8. CASE UNCHANGED vars
  BY <1>1, <1>8 DEF vars, Busy
<1> QED
  BY <1>3, <1>4, <1>5, <1>6, <1>7, <1>8, StepShape

\* The three sums over the alerts, and the number of open ones.
LEMMA StepSums ==
    ASSUME IInv, [Next]_vars
    PROVE  TicketsAreCounted' /\ BeatsAreCounted' /\ SilenceHasReason' /\ OneOpenUnlessRaced'
<1>0. /\ Types /\ TicketsAreCounted /\ BeatsAreCounted /\ SilenceHasReason /\ OneOpenUnlessRaced
      /\ IsFiniteSet(OpenAlerts) /\ Cardinality(OpenAlerts) \in Nat /\ races \in Nat
  BY OpenIsFinite, FS_CardinalityType DEF IInv, Types
<1>1. ASSUME NEW a, NEW new, NEW tickets, NEW beats, Write(a, new, tickets, beats)
      PROVE  /\ TicketsAreCounted' /\ BeatsAreCounted' /\ SilenceHasReason'
             /\ OneOpenUnlessRaced'
  <2>0. /\ DOMAIN alerts' = DOMAIN alerts /\ a \in DOMAIN alerts
        /\ alerts'[a] = new /\ heard'[a] = beats /\ opened'[a] = tickets
        /\ \A b \in DOMAIN alerts \ {a} :
              alerts'[b] = alerts[b] /\ heard'[b] = heard[b] /\ opened'[b] = opened[b]
        /\ OpenAlerts' \subseteq OpenAlerts
    BY <1>0, <1>1, WriteEffect DEF Write
  <2>1. TicketsAreCounted'
    <3>1. tickets = IF new.ticket = "none" THEN 0 ELSE 1
      BY <1>1 DEF Write
    <3> QED
      BY <1>0, <2>0, <3>1 DEF TicketsAreCounted
  <2>2. BeatsAreCounted'
    <3>1. new.count >= beats
      BY <1>1 DEF Write
    <3> QED
      BY <1>0, <2>0, <3>1 DEF BeatsAreCounted
  <2>3. SilenceHasReason'
    <3>1. new.cleared = "no" /\ new.ticket = "none" =>
             \/ new.reason = "window"
             \/ new.reason = "few" /\ new.count < MinOccurrences
      BY <1>1 DEF Write
    <3> SUFFICES ASSUME NEW b \in DOMAIN alerts, alerts'[b].cleared = "no",
                        alerts'[b].ticket = "none"
        PROVE  \/ alerts'[b].reason = "window"
               \/ alerts'[b].reason = "few" /\ alerts'[b].count < MinOccurrences
      BY <2>0 DEF SilenceHasReason, OpenAlerts, OpenOf
    <3>2. CASE b = a
      BY <2>0, <3>1, <3>2
    <3>3. CASE b # a
      BY <1>0, <2>0, <3>3 DEF SilenceHasReason, OpenAlerts, OpenOf
    <3> QED
      BY <3>2, <3>3
  <2>4. OneOpenUnlessRaced'
    <3>1. Cardinality(OpenAlerts') <= Cardinality(OpenAlerts) /\ Cardinality(OpenAlerts') \in Nat
      BY <1>0, <2>0, FS_Subset, FS_CardinalityType
    <3>2. races' = races
      BY <1>1 DEF Write
    <3> QED
      BY <1>0, <3>1, <3>2 DEF OneOpenUnlessRaced
  <2> QED
    BY <2>1, <2>2, <2>3, <2>4
<1>2. ASSUME NEW p \in Requests, FirstBeat(p)
      PROVE  /\ TicketsAreCounted' /\ BeatsAreCounted' /\ SilenceHasReason'
             /\ OneOpenUnlessRaced'
  <2>0. PICK n \in Nat :
           /\ DOMAIN alerts = 1..n /\ DOMAIN alerts' = 1..(n + 1)
           /\ \A b \in 1..n :
                 alerts'[b] = alerts[b] /\ heard'[b] = heard[b] /\ opened'[b] = opened[b]
           /\ OpenAlerts' = OpenAlerts \union {n + 1}
           /\ alerts'[n + 1].count >= heard'[n + 1]
           /\ opened'[n + 1] = IF alerts'[n + 1].ticket = "none" THEN 0 ELSE 1
           /\ alerts'[n + 1].ticket = "none" =>
                 \/ alerts'[n + 1].reason = "window"
                 \/ alerts'[n + 1].reason = "few" /\ alerts'[n + 1].count < MinOccurrences
    BY <1>2, FirstBeatEffect
  <2>n. \A b : b \in 1..(n + 1) <=> b \in 1..n \/ b = n + 1
    OBVIOUS
  <2>1. TicketsAreCounted'
    BY <1>0, <2>0, <2>n DEF TicketsAreCounted
  <2>2. BeatsAreCounted'
    BY <1>0, <2>0, <2>n DEF BeatsAreCounted
  <2>3. SilenceHasReason'
    <3> SUFFICES ASSUME NEW b \in OpenAlerts', alerts'[b].ticket = "none"
        PROVE  \/ alerts'[b].reason = "window"
               \/ alerts'[b].reason = "few" /\ alerts'[b].count < MinOccurrences
      BY DEF SilenceHasReason
    <3>1. (b \in OpenAlerts /\ b \in 1..n) \/ b = n + 1
      BY <2>0 DEF OpenAlerts, OpenOf
    <3> QED
      BY <1>0, <2>0, <3>1 DEF SilenceHasReason
  <2>4. OneOpenUnlessRaced'
    <3>1. n + 1 \notin OpenAlerts
      BY <2>0 DEF OpenAlerts, OpenOf
    <3>2. Cardinality(OpenAlerts') = Cardinality(OpenAlerts) + 1
      BY <1>0, <2>0, <3>1, FS_AddElement
    <3>3. CASE op[p].crossed
      <4>1. races' = races + 1
        BY <1>2, <3>3 DEF FirstBeat
      <4> QED
        BY <1>0, <3>2, <4>1 DEF OneOpenUnlessRaced
    <3>4. CASE ~op[p].crossed
      <4>1. OpenAlerts = {}
        BY <1>2, <3>4 DEF IInv, SeesUnlessCrossed, FirstBeat, Ready
      <4>2. races' = races /\ Cardinality(OpenAlerts) = 0
        BY <1>2, <3>4, <4>1, FS_EmptySet DEF FirstBeat
      <4> QED
        BY <1>0, <3>2, <4>2 DEF OneOpenUnlessRaced
    <3> QED
      BY <3>3, <3>4
  <2> QED
    BY <2>1, <2>2, <2>3, <2>4
<1>3. ASSUME UNCHANGED <<alerts, opened, heard, races>>
      PROVE  /\ TicketsAreCounted' /\ BeatsAreCounted' /\ SilenceHasReason'
             /\ OneOpenUnlessRaced'
  BY <1>0, <1>3 DEF TicketsAreCounted, BeatsAreCounted, SilenceHasReason, OneOpenUnlessRaced,
     OpenAlerts
<1> QED
  BY <1>1, <1>2, <1>3, StepShape DEF Aside, vars

LEMMA StepSees ==
    ASSUME IInv, [Next]_vars
    PROVE  SeesUnlessCrossed'
<1>0. Types /\ SeesUnlessCrossed /\ op \in [Requests -> OpType]
  BY DEF IInv, Types
<1> DEFINE Sees(q) ==
        /\ op'[q].pc = "waiting" /\ ~op'[q].crossed => OpenAlerts' \subseteq op'[q].open
        /\ op'[q].pc = "held" /\ op'[q].found = 0 /\ ~op'[q].crossed => OpenAlerts' = {}
<1>1. ASSUME OpenAlerts' \subseteq OpenAlerts, NEW q \in Requests, op'[q] = op[q] \/ op'[q] = Idle
      PROVE  Sees(q)
  BY <1>0, <1>1 DEF SeesUnlessCrossed, Idle
<1>2. ASSUME NEW a, NEW new, NEW tickets, NEW beats, Write(a, new, tickets, beats),
             NEW q \in Requests
      PROVE  Sees(q)
  <2>1. OpenAlerts' \subseteq OpenAlerts
    BY <1>0, <1>2, WriteEffect
  <2>2. op'[q] = op[q] \/ op'[q] = Idle
    BY <1>0, <1>2 DEF Write
  <2> QED
    BY <1>1, <2>1, <2>2
<1>3. ASSUME NEW p \in Requests, FirstBeat(p), NEW q \in Requests PROVE Sees(q)
  <2>1. op'[q] = IF q = p \/ op[q] = Idle THEN Idle ELSE [op[q] EXCEPT !.crossed = TRUE]
    BY <1>3 DEF FirstBeat
  <2>2. CASE q = p \/ op[q] = Idle
    BY <2>1, <2>2 DEF Idle
  <2>3. CASE ~(q = p \/ op[q] = Idle)
    <3>1. op[q].pc \in {"waiting", "held"}
      BY <1>0, <2>3, OpKinds
    <3>2. op'[q].crossed
      <4>1. CASE op[q].pc = "waiting"
        <5>1. op[q] \in [pc : {"waiting"}, body : Bodies, open : SUBSET Nat, crossed : BOOLEAN]
          BY <1>0, <4>1, OpKinds
        <5> QED
          BY <2>1, <2>3, <5>1
      <4>2. CASE op[q].pc = "held"
        <5>1. op[q] \in [pc : {"held"}, body : Bodies, found : Nat, open : Seq(Alerts),
                         crossed : BOOLEAN]
          BY <1>0, <4>2, OpKinds
        <5> QED
          BY <2>1, <2>3, <5>1
      <4> QED
        BY <3>1, <4>1, <4>2
    <3> QED
      BY <3>2
  <2> QED
    BY <2>2, <2>3
<1>4. ASSUME NEW p \in Requests, Aside, Arrive(p), NEW q \in Requests PROVE Sees(q)
  <2>1. PICK body : op' = [op EXCEPT ![p] = [pc |-> "waiting", body |-> body,
                                             open |-> OpenAlerts, crossed |-> FALSE]]
    BY <1>4 DEF Arrive
  <2>2. OpenAlerts' = OpenAlerts
    BY <1>4 DEF Aside, OpenAlerts
  <2>3. CASE q = p
    <3>1. op'[q].pc = "waiting" /\ op'[q].open = OpenAlerts
      BY <1>0, <2>1, <2>3
    <3> QED
      BY <2>2, <3>1
  <2>4. CASE q # p
    BY <1>0, <1>1, <2>1, <2>2, <2>4
  <2> QED
    BY <2>3, <2>4
<1>5. ASSUME NEW p \in Requests, Aside, Find(p), NEW q \in Requests PROVE Sees(q)
  <2> DEFINE still == op[p].open \intersect OpenAlerts
  <2>1. OpenAlerts' = OpenAlerts
    BY <1>5 DEF Aside, OpenAlerts
  <2>2. CASE q # p
    <3>1. op'[q] = op[q]
      BY <1>0, <1>5, <2>2 DEF Find, HeldWith
    <3> QED
      BY <1>1, <2>1, <3>1
  <2>3. CASE q = p /\ still = {}
    <3>1. op'[q].pc = "held" /\ op'[q].crossed = op[q].crossed /\ op[q].pc = "waiting"
      BY <1>0, <1>5, <2>3 DEF Find, HeldWith
    <3>2. ~op[q].crossed => OpenAlerts = {}
      BY <1>0, <2>3, <3>1 DEF SeesUnlessCrossed
    <3> QED
      BY <2>1, <3>1, <3>2
  <2>4. CASE q = p /\ still # {}
    <3>1. still \in SUBSET DOMAIN alerts
      BY DEF OpenAlerts, OpenOf
    <3>2. Newest(still) \in DOMAIN alerts
      BY <1>0, <2>4, <3>1, NewestIsOne DEF Types
    <3>3. Newest(still) # 0
      BY <1>0, <3>2 DEF Types
    <3>4. op'[q].found = Newest(still) /\ op'[q].pc = "held"
      BY <1>0, <1>5, <2>4 DEF Find, HeldWith
    <3> QED
      BY <3>3, <3>4
  <2> QED
    BY <2>2, <2>3, <2>4
<1>6. ASSUME NEW p \in Requests, Aside, End(p), NEW q \in Requests PROVE Sees(q)
  <2>1. OpenAlerts' = OpenAlerts /\ (op'[q] = op[q] \/ op'[q] = Idle)
    BY <1>0, <1>6 DEF Aside, End, Done, OpenAlerts
  <2> QED
    BY <1>1, <2>1
<1>7. ASSUME UNCHANGED vars, NEW q \in Requests PROVE Sees(q)
  <2>1. OpenAlerts' = OpenAlerts /\ op'[q] = op[q]
    BY <1>7 DEF vars, OpenAlerts
  <2> QED
    BY <1>1, <2>1
<1>8. \A q \in Requests : Sees(q)
  BY <1>2, <1>3, <1>4, <1>5, <1>6, <1>7, StepShape
<1> QED
  BY <1>8 DEF SeesUnlessCrossed

\* Locks stay exclusive and rows stay as they were read when no lock is taken
\* and what is locked is left alone.
LEMMA RowsAreKept ==
    ASSUME HoldsItsRow,
           \A q \in Requests : op'[q].pc = "held" =>
              op[q].pc = "held" /\ op'[q].found = op[q].found /\ op'[q].open = op[q].open,
           \A q \in Requests : op[q].pc = "held" /\ op'[q].pc = "held" /\ op[q].found # 0 =>
              /\ op[q].found \in OpenAlerts'
              /\ alerts'[op[q].found].count = alerts[op[q].found].count
              /\ alerts'[op[q].found].ticket = "none" <=> alerts[op[q].found].ticket = "none"
    PROVE  HoldsItsRow'
<1> SUFFICES ASSUME NEW q \in Requests, op'[q].pc = "held", op'[q].found # 0
             PROVE  /\ op'[q].found \in OpenAlerts'
                    /\ op'[q].open[1].count = alerts'[op'[q].found].count
                    /\ op'[q].open[1].ticket = "none" <=> alerts'[op'[q].found].ticket = "none"
                    /\ \A r \in Requests :
                          op'[r].pc = "held" /\ op'[r].found = op'[q].found => r = q
  BY DEF HoldsItsRow
<1>1. op[q].pc = "held" /\ op'[q].found = op[q].found /\ op'[q].open = op[q].open
  OBVIOUS
<1>2. /\ op[q].open[1].count = alerts[op[q].found].count
      /\ op[q].open[1].ticket = "none" <=> alerts[op[q].found].ticket = "none"
      /\ \A r \in Requests : op[r].pc = "held" /\ op[r].found = op[q].found => r = q
  BY <1>1 DEF HoldsItsRow
<1>3. /\ op[q].found \in OpenAlerts'
      /\ alerts'[op[q].found].count = alerts[op[q].found].count
      /\ alerts'[op[q].found].ticket = "none" <=> alerts[op[q].found].ticket = "none"
  BY <1>1
<1> QED
  BY <1>1, <1>2, <1>3

LEMMA StepHolds ==
    ASSUME IInv, [Next]_vars
    PROVE  HoldsItsRow'
<1>0. Types /\ HoldsItsRow /\ op \in [Requests -> OpType]
  BY DEF IInv, Types
<1>u. ASSUME UNCHANGED alerts,
             \A q \in Requests : op'[q].pc = "held" =>
                op[q].pc = "held" /\ op'[q].found = op[q].found /\ op'[q].open = op[q].open
      PROVE  HoldsItsRow'
  <2>1. \A q \in Requests : op[q].pc = "held" /\ op[q].found # 0 => op[q].found \in OpenAlerts
    BY <1>0 DEF HoldsItsRow
  <2>2. OpenAlerts' = OpenAlerts
    BY <1>u DEF OpenAlerts
  <2> QED
    BY <1>0, <1>u, <2>1, <2>2, RowsAreKept
<1>1. ASSUME NEW a, NEW new, NEW tickets, NEW beats, Write(a, new, tickets, beats)
      PROVE  HoldsItsRow'
  <2>0. /\ DOMAIN alerts' = DOMAIN alerts /\ a \in DOMAIN alerts /\ alerts'[a] = new
        /\ \A b \in DOMAIN alerts \ {a} : alerts'[b] = alerts[b]
    BY <1>0, <1>1, WriteEffect DEF Write
  <2>1. \A q \in Requests : op'[q] = op[q] \/ op'[q] = Idle
    BY <1>0, <1>1 DEF Write
  <2>2. ASSUME NEW q \in Requests, op'[q].pc = "held"
        PROVE  op'[q] = op[q] /\ op[q].pc = "held"
    BY <2>1, <2>2 DEF Idle
  <2>3. ASSUME NEW q \in Requests, op[q].pc = "held", op'[q].pc = "held", op[q].found # 0
        PROVE  /\ op[q].found \in OpenAlerts'
               /\ alerts'[op[q].found].count = alerts[op[q].found].count
               /\ alerts'[op[q].found].ticket = "none"
                     <=> alerts[op[q].found].ticket = "none"
    <3>1. op[q].found \in DOMAIN alerts /\ alerts[op[q].found].cleared = "no"
      BY <1>0, <2>3 DEF HoldsItsRow, OpenAlerts, OpenOf
    <3>2. CASE op[q].found # a
      BY <2>0, <3>1, <3>2 DEF OpenAlerts, OpenOf
    <3>3. CASE op[q].found = a
      <4>1. a \in Held
        BY <2>3, <3>3 DEF Held
      <4>2. ASSUME NEW r \in Requests, op[r].pc = "held", op[r].found = a,
                   op' = [op EXCEPT ![r] = Idle]
            PROVE  FALSE
        <5>1. r = q
          BY <1>0, <2>3, <3>3, <4>2 DEF HoldsItsRow
        <5>2. op'[q] = Idle
          BY <1>0, <4>2, <5>1
        <5> QED
          BY <2>3, <5>2 DEF Idle
      <4>3. /\ new.cleared = alerts[a].cleared /\ new.count = alerts[a].count
            /\ new.ticket = "none" <=> alerts[a].ticket = "none"
        BY <1>1, <4>1, <4>2 DEF Write
      <4> QED
        BY <2>0, <3>1, <3>3, <4>3 DEF OpenAlerts, OpenOf
    <3> QED
      BY <3>2, <3>3
  <2> QED
    BY <1>0, <2>2, <2>3, RowsAreKept
<1>2. ASSUME NEW p \in Requests, FirstBeat(p) PROVE HoldsItsRow'
  <2>0. PICK n \in Nat :
           /\ DOMAIN alerts = 1..n /\ DOMAIN alerts' = 1..(n + 1)
           /\ \A b \in 1..n : alerts'[b] = alerts[b]
           /\ OpenAlerts' = OpenAlerts \union {n + 1}
    BY <1>2, FirstBeatEffect
  <2>1. op' = [q \in Requests |-> IF q = p \/ op[q] = Idle THEN Idle
                                  ELSE [op[q] EXCEPT !.crossed = TRUE]]
    BY <1>2 DEF FirstBeat
  <2>2. ASSUME NEW q \in Requests, op'[q].pc = "held"
        PROVE  op[q].pc = "held" /\ op'[q].found = op[q].found /\ op'[q].open = op[q].open
    <3>1. op'[q] # Idle
      BY <2>2 DEF Idle
    <3>2. op[q] # Idle /\ op'[q] = [op[q] EXCEPT !.crossed = TRUE]
      BY <2>1, <3>1
    <3>3. op[q].pc \in {"waiting", "held"}
      BY <1>0, <3>2, OpKinds
    <3>4. CASE op[q].pc = "waiting"
      <4>1. op[q] \in [pc : {"waiting"}, body : Bodies, open : SUBSET Nat, crossed : BOOLEAN]
        BY <1>0, <3>4, OpKinds
      <4>2. op'[q].pc = "waiting"
        BY <3>2, <4>1
      <4> QED
        BY <2>2, <4>2
    <3>5. CASE op[q].pc = "held"
      <4>1. op[q] \in [pc : {"held"}, body : Bodies, found : Nat, open : Seq(Alerts),
                       crossed : BOOLEAN]
        BY <1>0, <3>5, OpKinds
      <4> QED
        BY <3>2, <3>5, <4>1
    <3> QED
      BY <3>3, <3>4, <3>5
  <2>3. ASSUME NEW q \in Requests, op[q].pc = "held", op[q].found # 0
        PROVE  /\ op[q].found \in OpenAlerts'
               /\ alerts'[op[q].found] = alerts[op[q].found]
    <3>1. op[q].found \in OpenAlerts
      BY <1>0, <2>3 DEF HoldsItsRow
    <3> QED
      BY <2>0, <3>1 DEF OpenAlerts, OpenOf
  <2> QED
    BY <1>0, <2>2, <2>3, RowsAreKept
<1>3. ASSUME NEW p \in Requests, Aside, Arrive(p) PROVE HoldsItsRow'
  <2>1. PICK body : op' = [op EXCEPT ![p] = [pc |-> "waiting", body |-> body,
                                             open |-> OpenAlerts, crossed |-> FALSE]]
    BY <1>3 DEF Arrive
  <2>2. op'[p].pc = "waiting" /\ \A q \in Requests \ {p} : op'[q] = op[q]
    BY <1>0, <2>1
  <2>3. \A q \in Requests : op'[q].pc = "held" => op'[q] = op[q]
    BY <2>2
  <2> QED
    BY <1>u, <1>3, <2>3 DEF Aside
<1>4. ASSUME NEW p \in Requests, Aside, Find(p) PROVE HoldsItsRow'
  <2> DEFINE still == op[p].open \intersect OpenAlerts
             a     == Newest(still)
  <2>0. UNCHANGED alerts /\ OpenAlerts' = OpenAlerts
    BY <1>4 DEF Aside, OpenAlerts
  <2>1. CASE still = {}
    <3>1. HeldWith(p, 0, <<>>)
      BY <1>4, <2>1 DEF Find
    <3>2. op'[p].found = 0 /\ \A q \in Requests \ {p} : op'[q] = op[q]
      BY <1>0, <3>1 DEF HeldWith
    <3> QED
      BY <1>0, <2>0, <3>2 DEF HoldsItsRow
  <2>2. CASE still # {}
    <3>1. a \in still
      <4>1. still \in SUBSET DOMAIN alerts
        BY DEF OpenAlerts, OpenOf
      <4> QED
        BY <1>0, <2>2, <4>1, NewestIsOne DEF Types
    <3>2. a \notin Held /\ HeldWith(p, a, <<alerts[a]>>)
      BY <1>4, <2>2 DEF Find
    <3>3. /\ op'[p].pc = "held" /\ op'[p].found = a /\ op'[p].open = <<alerts[a]>>
          /\ \A q \in Requests \ {p} : op'[q] = op[q]
      BY <1>0, <3>2 DEF HeldWith
    <3>4. \A q \in Requests : op[q].pc = "held" => op[q].found # a
      BY <3>2 DEF Held
    <3>5. op'[p].open[1] = alerts[a] /\ a \in OpenAlerts
      BY <3>1, <3>3
    <3> HIDE DEF a, still
    <3>6. ASSUME NEW q \in Requests, op'[q].pc = "held", op'[q].found # 0
          PROVE  /\ op'[q].found \in OpenAlerts
                 /\ op'[q].open[1].count = alerts[op'[q].found].count
                 /\ op'[q].open[1].ticket = "none" <=> alerts[op'[q].found].ticket = "none"
                 /\ \A r \in Requests :
                       op'[r].pc = "held" /\ op'[r].found = op'[q].found => r = q
      <4>1. CASE q = p
        BY <3>3, <3>4, <3>5, <4>1
      <4>2. CASE q # p
        <5>1. op'[q] = op[q]
          BY <3>3, <4>2
        <5>2. /\ op[q].found \in OpenAlerts
              /\ op[q].open[1].count = alerts[op[q].found].count
              /\ op[q].open[1].ticket = "none" <=> alerts[op[q].found].ticket = "none"
              /\ \A r \in Requests : op[r].pc = "held" /\ op[r].found = op[q].found => r = q
          BY <1>0, <3>6, <5>1 DEF HoldsItsRow
        <5>3. op[q].found # a
          BY <3>4, <3>6, <5>1
        <5>4. \A r \in Requests : op'[r].pc = "held" /\ op'[r].found = op[q].found => r = q
          BY <3>3, <5>2, <5>3
        <5> QED
          BY <5>1, <5>2, <5>4
      <4> QED
        BY <4>1, <4>2
    <3> QED
      BY <2>0, <3>6 DEF HoldsItsRow
  <2> QED
    BY <2>1, <2>2
<1>5. ASSUME NEW p \in Requests, Aside, End(p) PROVE HoldsItsRow'
  <2>1. \A q \in Requests : op'[q].pc = "held" => op'[q] = op[q]
    BY <1>0, <1>5 DEF End, Done, Idle
  <2> QED
    BY <1>u, <1>5, <2>1 DEF Aside
<1>6. CASE UNCHANGED vars
  BY <1>u, <1>6 DEF vars
<1> QED
  BY <1>1, <1>2, <1>3, <1>4, <1>5, <1>6, StepShape

LEMMA InitIInv ==
    ASSUME Init
    PROVE  IInv
<1>1. /\ alerts = <<>> /\ heard = <<>> /\ opened = <<>> /\ posts = 0 /\ races = 0
      /\ \A p \in Requests : op[p] = Idle
  BY DEF Init
<1>2. OpenAlerts = {} /\ DOMAIN alerts = {}
  BY <1>1 DEF OpenAlerts, OpenOf
<1>3. Types
  <2>1. op \in [Requests -> OpType]
    BY DEF Init, OpType
  <2> QED
    BY <1>1, <2>1, AlertAssumption DEF Types
<1>4. RacesWerePosted
  <2>1. Busy = {}
    BY <1>1 DEF Busy
  <2> QED
    BY <1>1, <2>1, FS_EmptySet DEF RacesWerePosted
<1>5. HoldsItsRow /\ SeesUnlessCrossed
  BY <1>1 DEF HoldsItsRow, SeesUnlessCrossed, Idle
<1>6. TicketsAreCounted /\ BeatsAreCounted /\ SilenceHasReason
  BY <1>2 DEF TicketsAreCounted, BeatsAreCounted, SilenceHasReason
<1>7. OneOpenUnlessRaced
  BY <1>1, <1>2, FS_EmptySet DEF OneOpenUnlessRaced
<1> QED
  BY <1>3, <1>4, <1>5, <1>6, <1>7 DEF IInv

LEMMA StepIInv ==
    ASSUME IInv, [Next]_vars
    PROVE  IInv'
BY StepTypes, StepRaces, StepHolds, StepSees, StepSums DEF IInv

LEMMA InvariantAddsUp ==
    ASSUME IInv
    PROVE  AlertsAddUp
<1>0. /\ Types /\ races + Cardinality(Busy) <= posts /\ Cardinality(Busy) \in Nat
      /\ races \in Nat /\ posts \in 0..MaxPosts
  BY FS_CardinalityType DEF IInv, RacesWerePosted, Types
<1>1. TypeOK
  <2>1. \A p \in Requests : op[p].pc \in {"idle", "waiting", "held"}
    BY <1>0, OpKinds
  <2>2. races \in 0..MaxPosts
    BY <1>0, AlertAssumption
  <2> QED
    BY <1>0, <2>1, <2>2 DEF TypeOK, Types
<1>2. OneTicketPerAlert
  BY DEF IInv, TicketsAreCounted, OneTicketPerAlert
<1> QED
  BY <1>1, <1>2 DEF IInv, AlertsAddUp

-----------------------------------------------------------------------------
(* The theorems.                                                            *)

\* However beats, recoveries, conversions and dismissals of one condition
\* overlap, fail and repeat: an alert opens at most one ticket, counts every
\* beat it took, stays silent only for a reason that is still true, and is the
\* one open alert of its condition but for the inserts that crossed.
THEOREM AlertIntakeAddsUp == Spec => []AlertsAddUp
<1>1. IInv /\ UNCHANGED vars => IInv'
  BY StepIInv
<1>2. Spec => []IInv
  BY InitIInv, StepIInv, PTL DEF Spec
<1>3. IInv => AlertsAddUp
  BY InvariantAddsUp
<1> QED
  BY <1>2, <1>3, PTL

\* A beat that waited for the row of its alert, while a recovery or an agent
\* cleared that alert, never lands on it.
THEOREM AlertIntakeClearedStaysSo == Spec => ClearedTakesNoBeat
<1>1. ASSUME IInv, [Next]_vars, NEW a \in DOMAIN alerts, alerts[a].cleared # "no"
      PROVE  heard'[a] = heard[a]
  <2>1. ASSUME NEW b, NEW new, NEW tickets, NEW beats, Write(b, new, tickets, beats)
        PROVE  heard'[a] = heard[a]
    <3>1. /\ heard'[b] = beats
          /\ \A c \in DOMAIN alerts \ {b} : heard'[c] = heard[c]
      BY <1>1, <2>1, WriteEffect DEF IInv
    <3>2. alerts[b].cleared # "no" => beats = heard[b]
      BY <2>1 DEF Write
    <3> QED
      BY <1>1, <3>1, <3>2
  <2>2. ASSUME NEW p \in Requests, FirstBeat(p) PROVE heard'[a] = heard[a]
    <3>1. \E n \in Nat : DOMAIN alerts = 1..n /\ \A b \in 1..n : heard'[b] = heard[b]
      BY <1>1, <2>2, FirstBeatEffect
    <3> QED
      BY <1>1, <3>1
  <2> QED
    BY <1>1, <2>1, <2>2, StepShape DEF Aside, vars
<1>2. IInv /\ [Next]_vars
        => [\A a \in DOMAIN alerts : alerts[a].cleared # "no" => heard'[a] = heard[a]]_vars
  BY <1>1
<1>3. Spec => []IInv
  BY InitIInv, StepIInv, PTL DEF Spec
<1> QED
  BY <1>2, <1>3, PTL DEF Spec, ClearedTakesNoBeat

-----------------------------------------------------------------------------
(* Inbound mail.                                                            *)

\* A claim is held by one door, on a message that is not on record.
ClaimsAreExclusive ==
    \A d \in Doors : ing[d].pc = "held" =>
        /\ ing[d].msg \in Messages \ ledger
        /\ \A e \in Doors : ing[e].pc = "held" /\ ing[e].msg = ing[d].msg => e = d

\* A door that is through with a message has it on record, or has failed on it.
DoneIsSettled ==
    \A d \in Doors :
        /\ ing[d].pc = "stored" => ing[d].msg \in Messages \intersect ledger
        /\ ing[d].pc = "done" => ing[d].msg \in Messages /\ Settled(ing[d].msg)

\* What is flagged or gone from the folder has been dealt with, and the folder
\* has only what has arrived.
FolderIsBehind ==
    /\ IsFiniteSet(seen)
    /\ flagged \subseteq ledger \union failed
    /\ \A m \in seen : uid[m] = 0 => Settled(m)

MailInv ==
    /\ MailTypeOK
    /\ ClaimsAreExclusive
    /\ DoneIsSettled
    /\ FolderIsBehind
    /\ OneEntryPerMessage
    /\ RawBehindRecord

-----------------------------------------------------------------------------
(* Helpers.                                                                 *)

IngType == [pc : {"idle", "held", "stored", "done"}, msg : Messages \union {Absent}]

LEMMA IngIs ==
    ASSUME MailTypeOK, NEW d \in Doors, NEW m, NEW k
    PROVE  ing[d] = [pc |-> k, msg |-> m] <=> ing[d].pc = k /\ ing[d].msg = m
<1>1. ing[d] \in IngType
  BY DEF MailTypeOK, IngType
<1> QED
  BY <1>1 DEF IngType

\* The record of a message, its entry and its raw bytes, and what was cut off,
\* are behind one another as long as no door is.
LEMMA RawIs ==
    ASSUME MailTypeOK
    PROVE  RawBehindRecord <=>
              \A m \in Messages :
                 /\ m \in raw => m \in ledger
                 /\ m \in ledger =>
                       \/ m \in raw \/ m \in cut
                       \/ \E d \in Doors : ing[d].pc = "stored" /\ ing[d].msg = m
<1>1. \A m \in Messages : (\E d \in Doors : ing[d] = [pc |-> "stored", msg |-> m])
                          <=> \E d \in Doors : ing[d].pc = "stored" /\ ing[d].msg = m
  BY IngIs
<1> QED
  BY <1>1 DEF RawBehindRecord

LEMMA FetchOne ==
    ASSUME MailTypeOK, NEW p \in Processes, Fetch(p)
    PROVE  \E m \in Messages : Claim(p, m) /\ ing[p].pc = "idle"
BY DEF Fetch, MailTypeOK

LEMMA PostOne ==
    ASSUME MailTypeOK, NEW m \in Messages, Post(m)
    PROVE  Claim(Hook, m) /\ ing[Hook].pc = "idle"
BY DEF Post

-----------------------------------------------------------------------------
(* The steps of the doors.                                                  *)

\* What the folder, the administrators and the connections do to it.
Outside == UNCHANGED <<ledger, entries, raw, cut, ing, failed>>

\* A door is through with its message.
Release(d) ==
    /\ ing[d].pc = "done" /\ ing' = [ing EXCEPT ![d] = Resting]
    /\ UNCHANGED <<ledger, entries, raw, cut, failed>>

LEMMA DoorSteps ==
    ASSUME MailTypeOK, [MailNext]_mailVars
    PROVE  \/ Outside
           \/ \E d \in Doors : \/ \E m \in Messages : Claim(d, m) /\ ing[d].pc = "idle"
                              \/ Release(d) \/ Ingest(d) \/ StoreRaw(d) \/ IngestFails(d)
           \/ \E p \in Processes : Crash(p)
<1>1. ASSUME NEW m \in Messages, MailArrives(m) \/ Expunge(m) PROVE Outside
  BY <1>1 DEF Outside, MailArrives, Expunge, desk
<1>2. ASSUME NEW p \in Processes,
             \/ Toggle(p) \/ Reconcile(p) \/ Connect(p) \/ Drop(p)
             \/ SyncStart(p)
      PROVE  Outside
  BY <1>2 DEF Outside, Toggle, Reconcile, Connect, Drop, SyncStart,
     desk
<1>3. CASE UNCHANGED mailVars
  BY <1>3 DEF Outside, mailVars, desk
<1>4. ASSUME NEW p \in Processes, Advance(p) PROVE Release(p)
  BY <1>4 DEF Advance, Release, desk
<1>5. Answer => Release(Hook)
  BY DEF Answer, Release, desk
<1>6. Processes \subseteq Doors /\ Hook \in Doors
  BY DEF Doors
<1> QED
  BY <1>1, <1>2, <1>3, <1>4, <1>5, <1>6, FetchOne, PostOne DEF MailNext

-----------------------------------------------------------------------------
(* The types.                                                               *)

ConnType == [listed : BOOLEAN, alive : BOOLEAN, up : BOOLEAN, todo : SUBSET Messages]

LEMMA ArriveTypes ==
    ASSUME MailInv, NEW m \in Messages, MailArrives(m)
    PROVE  MailTypeOK' /\ IsFiniteSet(seen')
<1>0. MailTypeOK /\ IsFiniteSet(seen)
  BY DEF MailInv, FolderIsBehind
<1>1. seen' = seen \union {m} /\ m \notin seen
  BY DEF MailArrives
<1>2. IsFiniteSet(seen') /\ Cardinality(seen') = Cardinality(seen) + 1 /\ Cardinality(seen) \in Nat
  BY <1>0, <1>1, FS_AddElement, FS_CardinalityType
<1>3. uid' = [uid EXCEPT ![m] = Cardinality(seen) + 1]
  BY DEF MailArrives
<1> DEFINE n == Cardinality(seen)
<1>4. uid \in [Messages -> 0..n] /\ n \in Nat
  BY <1>0, <1>2 DEF MailTypeOK
<1>5. uid' = [uid EXCEPT ![m] = n + 1] /\ Cardinality(seen') = n + 1
  BY <1>2, <1>3
<1> HIDE DEF n
<1>6. uid' \in [Messages -> 0..(n + 1)]
  BY <1>4, <1>5
<1>7. uid' \in [Messages -> 0..Cardinality(seen')]
  BY <1>5, <1>6
<1>8. /\ push' \in SUBSET Pushed /\ seen' \in SUBSET Messages
      /\ UNCHANGED <<ledger, entries, raw, cut, flagged, active, cursor, conn, ing, patched,
                     failed>>
  BY <1>0, <1>1 DEF MailTypeOK, MailArrives, desk
<1> QED
  BY <1>0, <1>2, <1>7, <1>8 DEF MailTypeOK

LEMMA StepMailTypes ==
    ASSUME MailInv, [MailNext]_mailVars
    PROVE  MailTypeOK'
<1>0. MailTypeOK
  BY DEF MailInv
<1> DEFINE n == Cardinality(seen)
<1>1. CASE UNCHANGED mailVars
  BY <1>0, <1>1 DEF MailTypeOK, mailVars, desk, env
<1>2. ASSUME NEW m \in Messages, MailArrives(m) PROVE MailTypeOK'
  BY <1>2, ArriveTypes
<1>3. ASSUME NEW m \in Messages, Expunge(m) PROVE MailTypeOK'
  <2>1. uid' = [uid EXCEPT ![m] = 0] /\ seen' = seen /\ flagged' \in SUBSET Messages
    BY <1>0, <1>3 DEF Expunge, MailTypeOK
  <2>2. 0 \in 0..n
    <3>1. n \in Nat
      BY FS_CardinalityType DEF MailInv, FolderIsBehind
    <3> QED
      BY <3>1
  <2>3. uid' \in [Messages -> 0..n]
    BY <1>0, <2>1, <2>2 DEF MailTypeOK
  <2>4. UNCHANGED <<ledger, entries, raw, cut, push, active, cursor, conn, ing, patched, failed>>
    BY <1>3 DEF Expunge, desk
  <2> QED
    BY <1>0, <2>1, <2>3, <2>4 DEF MailTypeOK
<1>4. ASSUME NEW p \in Processes, Toggle(p) PROVE MailTypeOK'
  BY <1>0, <1>4 DEF Toggle, MailTypeOK, desk
<1>5. ASSUME NEW p \in Processes,
             Reconcile(p) \/ Connect(p) \/ Drop(p) \/ SyncStart(p)
      PROVE  MailTypeOK'
  <2>1. conn' \in [Processes -> ConnType]
    <3>0. conn \in [Processes -> ConnType]
      BY <1>0 DEF MailTypeOK, ConnType
    <3>1. CASE Reconcile(p)
      <4>1. /\ NoConn \in ConnType
            /\ [NoConn EXCEPT !.listed = TRUE, !.alive = TRUE] \in ConnType
        BY DEF ConnType, NoConn
      <4> HIDE DEF ConnType, NoConn
      <4> QED
        BY <3>0, <3>1, <4>1 DEF Reconcile
    <3>2. CASE Connect(p)
      BY <3>0, <3>2 DEF Connect, ConnType
    <3>3. CASE Drop(p)
      BY <3>0, <3>3 DEF Drop, ConnType
    <3>4. CASE SyncStart(p)
      BY <3>0, <3>4 DEF SyncStart, ConnType
    <3> QED
      BY <1>5, <3>1, <3>2, <3>3, <3>4
  <2>2. patched' \in SUBSET Processes
    BY <1>0, <1>5 DEF Reconcile, Connect, Drop, SyncStart, MailTypeOK
  <2>3. UNCHANGED <<ledger, entries, raw, cut, uid, flagged, push, active, seen, cursor, ing,
                    failed>>
    BY <1>5 DEF Reconcile, Connect, Drop, SyncStart, desk, env
  <2> QED
    BY <1>0, <2>1, <2>2, <2>3 DEF MailTypeOK, ConnType
<1>6. ASSUME NEW d \in Doors, NEW m \in Messages, Claim(d, m) PROVE MailTypeOK'
  <2>1. ing' \in [Doors -> IngType]
    BY <1>0, <1>6 DEF Claim, MailTypeOK, IngType
  <2>2. UNCHANGED <<ledger, entries, raw, cut, uid, flagged, push, active, seen, cursor, conn,
                    patched, failed>>
    BY <1>6 DEF Claim, desk, env
  <2> QED
    BY <1>0, <2>1, <2>2 DEF MailTypeOK, IngType
<1>7. ASSUME NEW p \in Processes, Advance(p) PROVE MailTypeOK'
  <2>0. p \in Doors /\ ing[p].pc = "done" /\ ing[p].msg \in Messages
    BY <1>7 DEF Advance, Doors, MailInv, DoneIsSettled
  <2>1. conn' \in [Processes -> ConnType]
    <3>1. conn \in [Processes -> ConnType] /\ conn' = [conn EXCEPT ![p].todo = @ \ {ing[p].msg}]
      BY <1>0, <1>7 DEF MailTypeOK, ConnType, Advance
    <3> QED
      BY <3>1 DEF ConnType
  <2>2. ing' \in [Doors -> IngType]
    BY <1>0, <1>7 DEF Advance, MailTypeOK, IngType, Resting
  <2>3. uid[ing[p].msg] \in Nat
    <3>1. n \in Nat
      BY FS_CardinalityType DEF MailInv, FolderIsBehind
    <3> QED
      BY <1>0, <2>0, <3>1 DEF MailTypeOK
  <2>4. cursor' \in Nat \union {Absent}
    BY <1>0, <1>7, <2>3 DEF Advance, JsonbSet, MailTypeOK
  <2>5. flagged' \in SUBSET Messages
    BY <1>0, <1>7, <2>0 DEF Advance, MailTypeOK
  <2>6. UNCHANGED <<ledger, entries, raw, cut, uid, push, active, seen, patched, failed>>
    BY <1>7 DEF Advance, desk
  <2> QED
    BY <1>0, <2>1, <2>2, <2>4, <2>5, <2>6 DEF MailTypeOK, ConnType, IngType
<1>8. CASE Answer
  <2>1. ing' \in [Doors -> IngType] /\ push' \in SUBSET Pushed
    BY <1>0, <1>8 DEF Answer, MailTypeOK, IngType, Resting
  <2>2. UNCHANGED <<ledger, entries, raw, cut, uid, flagged, active, seen, cursor, conn, patched,
                    failed>>
    BY <1>8 DEF Answer, desk
  <2> QED
    BY <1>0, <2>1, <2>2 DEF MailTypeOK, IngType
<1>9. ASSUME NEW d \in Doors, Ingest(d) PROVE MailTypeOK'
  <2>0. ing[d].msg \in Messages
    BY <1>9 DEF Ingest, MailInv, ClaimsAreExclusive
  <2>1. ing' \in [Doors -> IngType]
    BY <1>0, <1>9 DEF Ingest, MailTypeOK, IngType
  <2>2. ledger' \in SUBSET Messages
    BY <1>0, <1>9, <2>0 DEF Ingest, MailTypeOK
  <2>3. entries' \in [Messages -> Nat]
    BY <1>0, <1>9, <2>0 DEF Ingest, MailTypeOK
  <2>4. UNCHANGED <<raw, cut, uid, flagged, push, active, seen, cursor, conn, patched, failed>>
    BY <1>9 DEF Ingest, env
  <2> QED
    BY <1>0, <2>1, <2>2, <2>3, <2>4 DEF MailTypeOK, IngType
<1>10. ASSUME NEW d \in Doors, StoreRaw(d) PROVE MailTypeOK'
  <2>0. ing[d].msg \in Messages
    BY <1>10 DEF StoreRaw, MailInv, DoneIsSettled
  <2>1. ing' \in [Doors -> IngType]
    BY <1>0, <1>10 DEF StoreRaw, MailTypeOK, IngType
  <2>2. raw' \in SUBSET Messages
    BY <1>0, <1>10, <2>0 DEF StoreRaw, MailTypeOK
  <2>3. UNCHANGED <<ledger, entries, cut, uid, flagged, push, active, seen, cursor, conn, patched,
                    failed>>
    BY <1>10 DEF StoreRaw, env
  <2> QED
    BY <1>0, <2>1, <2>2, <2>3 DEF MailTypeOK, IngType
<1>11. ASSUME NEW d \in Doors, IngestFails(d) PROVE MailTypeOK'
  <2>0. ing[d].msg \in Messages
    BY <1>11 DEF IngestFails, MailInv, DoneIsSettled, ClaimsAreExclusive
  <2>1. ing' \in [Doors -> IngType]
    BY <1>0, <1>11 DEF IngestFails, MailTypeOK, IngType, Resting
  <2>2. failed' \in SUBSET Messages /\ cut' \in SUBSET Messages
    BY <1>0, <1>11, <2>0 DEF IngestFails, MailTypeOK
  <2>3. UNCHANGED <<ledger, entries, raw, uid, flagged, push, active, seen, cursor, conn, patched>>
    BY <1>11 DEF IngestFails, env
  <2> QED
    BY <1>0, <2>1, <2>2, <2>3 DEF MailTypeOK, IngType
<1>12. ASSUME NEW p \in Processes, Crash(p) PROVE MailTypeOK'
  <2>0. PICK gone \in {{p}, {p, Hook}} :
           /\ cut' = cut \union {ing[d].msg : d \in {e \in gone : ing[e].pc = "stored"}}
           /\ ing' = [d \in Doors |-> IF d \in gone THEN Resting ELSE ing[d]]
    BY <1>12 DEF Crash
  <2>1. ing' \in [Doors -> IngType]
    BY <1>0, <2>0 DEF MailTypeOK, IngType, Resting
  <2>2. cut' \in SUBSET Messages
    <3>1. gone \subseteq Doors
      BY <2>0 DEF Doors
    <3>2. \A d \in Doors : ing[d].pc = "stored" => ing[d].msg \in Messages
      BY DEF MailInv, DoneIsSettled
    <3> QED
      BY <1>0, <2>0, <3>1, <3>2 DEF MailTypeOK
  <2>3. conn' \in [Processes -> ConnType]
    BY <1>0, <1>12 DEF Crash, MailTypeOK, ConnType, NoConn
  <2>4. /\ patched' \in SUBSET Processes
        /\ UNCHANGED <<ledger, entries, raw, uid, flagged, push, active, seen, cursor, failed>>
    BY <1>0, <1>12 DEF Crash, MailTypeOK, env
  <2> QED
    BY <1>0, <2>1, <2>2, <2>3, <2>4 DEF MailTypeOK, IngType, ConnType
<1> HIDE DEF n
<1>13. ASSUME NEW p \in Processes, Fetch(p) PROVE MailTypeOK'
  BY <1>0, <1>6, <1>13, FetchOne DEF Doors
<1>14. ASSUME NEW m \in Messages, Post(m) PROVE MailTypeOK'
  BY <1>0, <1>6, <1>14, PostOne DEF Doors
<1> QED
  BY <1>1, <1>2, <1>3, <1>4, <1>5, <1>7, <1>8, <1>9, <1>10, <1>11, <1>12, <1>13, <1>14 DEF MailNext

-----------------------------------------------------------------------------
(* The invariant.                                                           *)

\* What a step does to the doors it is not about, and to a door that rests.
LEMMA DoorsAre ==
    ASSUME MailTypeOK, NEW d \in Doors, NEW new
    PROVE  /\ ing' = [ing EXCEPT ![d] = new] =>
                 ing'[d] = new /\ \A e \in Doors \ {d} : ing'[e] = ing[e]
           /\ ing' = [ing EXCEPT ![d].pc = new] =>
                 /\ ing'[d].pc = new /\ ing'[d].msg = ing[d].msg
                 /\ \A e \in Doors \ {d} : ing'[e] = ing[e]
<1>1. ing \in [Doors -> IngType]
  BY DEF MailTypeOK, IngType
<1> QED
  BY <1>1 DEF IngType

\* A claim that fails rests or is done with; its message counts as failed.
LEMMA FailEffect ==
    ASSUME MailTypeOK, NEW d \in Doors, IngestFails(d)
    PROVE  /\ \A e \in Doors \ {d} : ing'[e] = ing[e]
           /\ ing'[d].pc \in {"idle", "done"}
           /\ ing'[d].pc = "done" => ing'[d].msg = ing[d].msg
           /\ failed' = failed \union {ing[d].msg}
           /\ ing[d].pc \in {"held", "stored"}
           /\ cut' = IF ing[d].pc = "stored" THEN cut \union {ing[d].msg} ELSE cut
           /\ UNCHANGED <<ledger, entries, raw>>
<1>1. ing' = [ing EXCEPT ![d] = IF d = Hook THEN Resting ELSE [ing[d] EXCEPT !.pc = "done"]]
  BY DEF IngestFails
<1>2. ing[d] \in IngType /\ ing \in [Doors -> IngType]
  BY DEF MailTypeOK, IngType
<1>3. CASE d = Hook
  <2>1. ing'[d] = Resting /\ \A e \in Doors \ {d} : ing'[e] = ing[e]
    BY <1>1, <1>2, <1>3
  <2> QED
    BY <2>1 DEF Resting, IngestFails
<1>4. CASE d # Hook
  <2>1. ing'[d] = [ing[d] EXCEPT !.pc = "done"] /\ \A e \in Doors \ {d} : ing'[e] = ing[e]
    BY <1>1, <1>2, <1>4
  <2>2. ing'[d].pc = "done" /\ ing'[d].msg = ing[d].msg
    BY <1>2, <2>1 DEF IngType
  <2> QED
    BY <2>1, <2>2 DEF IngestFails
<1> QED
  BY <1>3, <1>4

\* A crash lets go of what its process and its webhook requests had in hand.
LEMMA CrashEffect ==
    ASSUME NEW p \in Processes, Crash(p)
    PROVE  /\ \A d \in Doors : ing'[d] = ing[d] \/ ing'[d].pc = "idle"
           /\ \A d \in Doors : ing[d].pc = "stored" =>
                                  ing[d].msg \in cut' \/ ing'[d] = ing[d]
           /\ cut \subseteq cut'
           /\ UNCHANGED <<ledger, entries, raw, failed>>
<1>1. PICK gone \in {{p}, {p, Hook}} :
         /\ cut' = cut \union {ing[d].msg : d \in {e \in gone : ing[e].pc = "stored"}}
         /\ ing' = [d \in Doors |-> IF d \in gone THEN Resting ELSE ing[d]]
  BY DEF Crash
<1>2. UNCHANGED <<ledger, entries, raw, failed>>
  BY DEF Crash
<1> QED
  BY <1>1, <1>2 DEF Resting

LEMMA StepClaims ==
    ASSUME MailInv, [MailNext]_mailVars
    PROVE  ClaimsAreExclusive'
<1>0. MailTypeOK /\ ClaimsAreExclusive
  BY DEF MailInv
<1>1. ASSUME UNCHANGED ledger,
             \A d \in Doors : ing'[d].pc = "held" => ing'[d] = ing[d]
      PROVE  ClaimsAreExclusive'
  BY <1>0, <1>1 DEF ClaimsAreExclusive
<1>2. CASE Outside
  BY <1>1, <1>2 DEF Outside
<1>3. ASSUME NEW d \in Doors, NEW m \in Messages, Claim(d, m) PROVE ClaimsAreExclusive'
  <2>1. /\ ing'[d] = [msg |-> m, pc |-> IF m \in ledger THEN "done" ELSE "held"]
        /\ \A e \in Doors \ {d} : ing'[e] = ing[e]
    BY <1>0, <1>3 DEF Claim, MailTypeOK
  <2>2. ledger' = ledger
    BY <1>3 DEF Claim, desk
  <2>3. \A e \in Doors : ~(ing[e].pc = "held" /\ ing[e].msg = m)
    BY <1>0, <1>3, IngIs DEF Claim
  <2>4. ing'[d].msg = m /\ (ing'[d].pc = "held" => m \notin ledger)
    BY <2>1
  <2> QED
    BY <1>0, <2>1, <2>2, <2>3, <2>4 DEF ClaimsAreExclusive
<1>4. ASSUME NEW d \in Doors, Release(d) PROVE ClaimsAreExclusive'
  <2>1. ing'[d].pc = "idle" /\ \A e \in Doors \ {d} : ing'[e] = ing[e]
    BY <1>0, <1>4 DEF Release, Resting, MailTypeOK
  <2> QED
    BY <1>1, <1>4, <2>1 DEF Release
<1>5. ASSUME NEW d \in Doors, Ingest(d) PROVE ClaimsAreExclusive'
  <2>1. ing'[d].pc = "stored" /\ \A e \in Doors \ {d} : ing'[e] = ing[e]
    BY <1>0, <1>5, DoorsAre DEF Ingest
  <2>2. ing[d].pc = "held" /\ ledger' = ledger \union {ing[d].msg}
    BY <1>5 DEF Ingest
  <2>3. ASSUME NEW e \in Doors, ing'[e].pc = "held" PROVE e # d /\ ing[e].msg # ing[d].msg
    BY <1>0, <2>1, <2>2, <2>3 DEF ClaimsAreExclusive
  <2> QED
    BY <1>0, <2>1, <2>2, <2>3 DEF ClaimsAreExclusive
<1>6. ASSUME NEW d \in Doors, StoreRaw(d) PROVE ClaimsAreExclusive'
  <2>1. ing'[d].pc = "done" /\ \A e \in Doors \ {d} : ing'[e] = ing[e]
    BY <1>0, <1>6, DoorsAre DEF StoreRaw
  <2> QED
    BY <1>1, <1>6, <2>1 DEF StoreRaw
<1>7. ASSUME NEW d \in Doors, IngestFails(d) PROVE ClaimsAreExclusive'
  BY <1>0, <1>1, <1>7, FailEffect
<1>8. ASSUME NEW p \in Processes, Crash(p) PROVE ClaimsAreExclusive'
  BY <1>1, <1>8, CrashEffect
<1> QED
  BY <1>0, <1>2, <1>3, <1>4, <1>5, <1>6, <1>7, <1>8, DoorSteps

LEMMA StepDone ==
    ASSUME MailInv, [MailNext]_mailVars
    PROVE  DoneIsSettled'
<1>0. MailTypeOK /\ ClaimsAreExclusive /\ DoneIsSettled
  BY DEF MailInv
<1>1. ASSUME ledger \subseteq ledger', failed \subseteq failed',
             \A d \in Doors : \/ ing'[d] = ing[d] \/ ing'[d].pc \in {"idle", "held"}
                              \/ /\ ing'[d].pc = "stored"
                                 /\ ing'[d].msg \in Messages \intersect ledger'
                              \/ /\ ing'[d].pc = "done"
                                 /\ ing'[d].msg \in Messages
                                 /\ ing'[d].msg \in ledger' \union failed'
      PROVE  DoneIsSettled'
  BY <1>0, <1>1 DEF DoneIsSettled, Settled
<1>2. CASE Outside
  BY <1>1, <1>2 DEF Outside
<1>3. ASSUME NEW d \in Doors, NEW m \in Messages, Claim(d, m) PROVE DoneIsSettled'
  <2>1. /\ ing'[d] = [msg |-> m, pc |-> IF m \in ledger THEN "done" ELSE "held"]
        /\ \A e \in Doors \ {d} : ing'[e] = ing[e]
    BY <1>0, <1>3 DEF Claim, MailTypeOK
  <2>2. ledger' = ledger /\ failed' = failed
    BY <1>3 DEF Claim, desk
  <2> QED
    BY <1>1, <2>1, <2>2
<1>4. ASSUME NEW d \in Doors, Release(d) PROVE DoneIsSettled'
  <2>1. ing'[d].pc = "idle" /\ \A e \in Doors \ {d} : ing'[e] = ing[e]
    BY <1>0, <1>4 DEF Release, Resting, MailTypeOK
  <2> QED
    BY <1>1, <1>4, <2>1 DEF Release
<1>5. ASSUME NEW d \in Doors, Ingest(d) PROVE DoneIsSettled'
  <2>1. /\ ing'[d].pc = "stored" /\ ing'[d].msg = ing[d].msg
        /\ \A e \in Doors \ {d} : ing'[e] = ing[e]
    BY <1>0, <1>5, DoorsAre DEF Ingest
  <2>2. ing[d].msg \in Messages /\ ledger' = ledger \union {ing[d].msg} /\ failed' = failed
    BY <1>0, <1>5 DEF Ingest, ClaimsAreExclusive
  <2> QED
    BY <1>1, <2>1, <2>2
<1>6. ASSUME NEW d \in Doors, StoreRaw(d) PROVE DoneIsSettled'
  <2>1. /\ ing'[d].pc = "done" /\ ing'[d].msg = ing[d].msg
        /\ \A e \in Doors \ {d} : ing'[e] = ing[e]
    BY <1>0, <1>6, DoorsAre DEF StoreRaw
  <2>2. ing[d].msg \in Messages \intersect ledger /\ UNCHANGED <<ledger, failed>>
    BY <1>0, <1>6 DEF StoreRaw, DoneIsSettled
  <2> QED
    BY <1>1, <2>1, <2>2
<1>7. ASSUME NEW d \in Doors, IngestFails(d) PROVE DoneIsSettled'
  <2>1. /\ \A e \in Doors \ {d} : ing'[e] = ing[e]
        /\ ing'[d].pc \in {"idle", "done"} /\ (ing'[d].pc = "done" => ing'[d].msg = ing[d].msg)
        /\ failed' = failed \union {ing[d].msg} /\ ledger' = ledger
        /\ ing[d].pc \in {"held", "stored"}
    BY <1>0, <1>7, FailEffect
  <2>2. ing[d].msg \in Messages
    BY <1>0, <2>1 DEF ClaimsAreExclusive, DoneIsSettled
  <2> QED
    BY <1>1, <2>1, <2>2
<1>8. ASSUME NEW p \in Processes, Crash(p) PROVE DoneIsSettled'
  BY <1>1, <1>8, CrashEffect
<1> QED
  BY <1>0, <1>2, <1>3, <1>4, <1>5, <1>6, <1>7, <1>8, DoorSteps

\* The folder and the record: what leaves the folder, or is to leave it, has
\* been dealt with.
LEMMA StepFolder ==
    ASSUME MailInv, [MailNext]_mailVars
    PROVE  FolderIsBehind'
<1>0. MailTypeOK /\ FolderIsBehind /\ IsFiniteSet(seen) /\ DoneIsSettled
  BY DEF MailInv, FolderIsBehind
<1>1. ASSUME UNCHANGED <<uid, flagged, seen>>, ledger \subseteq ledger', failed \subseteq failed'
      PROVE  FolderIsBehind'
  BY <1>0, <1>1 DEF FolderIsBehind, Settled
<1>2. ASSUME NEW m \in Messages, MailArrives(m) PROVE FolderIsBehind'
  <2>1. IsFiniteSet(seen')
    BY <1>2, ArriveTypes
  <2>2. UNCHANGED <<flagged, ledger, failed>> /\ seen' = seen \union {m}
    BY <1>2 DEF MailArrives, desk
  <2>3. uid'[m] # 0 /\ \A k \in Messages \ {m} : uid'[k] = uid[k]
    <3>1. uid' = [uid EXCEPT ![m] = Cardinality(seen) + 1]
      BY <1>2 DEF MailArrives
    <3>2. Cardinality(seen) \in Nat
      BY <1>0, FS_CardinalityType
    <3> QED
      BY <1>0, <3>1, <3>2 DEF MailTypeOK
  <2>4. seen \subseteq Messages
    BY <1>0 DEF MailTypeOK
  <2> QED
    BY <1>0, <2>1, <2>2, <2>3, <2>4 DEF FolderIsBehind, Settled
<1>3. ASSUME NEW m \in Messages, Expunge(m) PROVE FolderIsBehind'
  <2>1. m \in flagged /\ flagged' = flagged \ {m} /\ UNCHANGED <<seen, ledger, failed>>
    BY <1>3 DEF Expunge, desk
  <2>2. \A k \in Messages \ {m} : uid'[k] = uid[k]
    BY <1>0, <1>3 DEF Expunge, MailTypeOK
  <2>3. seen \subseteq Messages
    BY <1>0 DEF MailTypeOK
  <2> QED
    BY <1>0, <2>1, <2>2, <2>3 DEF FolderIsBehind, Settled
<1>4. ASSUME NEW p \in Processes, Advance(p) PROVE FolderIsBehind'
  <2>1. /\ p \in Doors /\ ing[p].pc = "done"
        /\ flagged' = flagged \/ flagged' = flagged \union {ing[p].msg}
        /\ UNCHANGED <<uid, seen, ledger, failed>>
    BY <1>4 DEF Advance, Doors, desk
  <2>2. ing[p].msg \in ledger \union failed
    BY <1>0, <2>1 DEF DoneIsSettled, Settled
  <2> QED
    BY <1>0, <2>1, <2>2 DEF FolderIsBehind, Settled
<1>5. ASSUME NEW p \in Processes,
             \/ Toggle(p) \/ Reconcile(p) \/ Connect(p) \/ Drop(p)
             \/ SyncStart(p) \/ Crash(p)
      PROVE  FolderIsBehind'
  BY <1>1, <1>5 DEF Toggle, Reconcile, Connect, Drop, SyncStart,
     Crash, desk, env
<1>6. ASSUME NEW d \in Doors, NEW m \in Messages, Claim(d, m) PROVE FolderIsBehind'
  BY <1>1, <1>6 DEF Claim, desk, env
<1>7. ASSUME NEW d \in Doors, Ingest(d) \/ StoreRaw(d) \/ IngestFails(d)
      PROVE  FolderIsBehind'
  BY <1>1, <1>7 DEF Ingest, StoreRaw, IngestFails, env
<1>8. ASSUME Answer \/ UNCHANGED mailVars PROVE FolderIsBehind'
  BY <1>1, <1>8 DEF Answer, mailVars, desk, env
<1>9. ASSUME NEW p \in Processes, Fetch(p) PROVE FolderIsBehind'
  BY <1>0, <1>6, <1>9, FetchOne DEF Doors
<1>10. ASSUME NEW m \in Messages, Post(m) PROVE FolderIsBehind'
  BY <1>0, <1>6, <1>10, PostOne DEF Doors
<1> QED
  BY <1>2, <1>3, <1>4, <1>5, <1>7, <1>8, <1>9, <1>10 DEF MailNext

LEMMA StepEntry ==
    ASSUME MailInv, [MailNext]_mailVars
    PROVE  OneEntryPerMessage'
<1>0. MailTypeOK /\ OneEntryPerMessage
  BY DEF MailInv
<1>1. ASSUME UNCHANGED <<ledger, entries>> PROVE OneEntryPerMessage'
  BY <1>0, <1>1 DEF OneEntryPerMessage
<1>2. ASSUME NEW d \in Doors, Ingest(d) PROVE OneEntryPerMessage'
  <2>1. ing[d].msg \in Messages \ ledger
    BY <1>2 DEF Ingest, MailInv, ClaimsAreExclusive
  <2>2. PICK m : m = ing[d].msg
    OBVIOUS
  <2>3. /\ m \in Messages \ ledger /\ ledger' = ledger \union {m}
        /\ entries' = IF m \in Letters THEN [entries EXCEPT ![m] = @ + 1] ELSE entries
    BY <1>2, <2>1, <2>2 DEF Ingest
  <2>4. entries[m] = 0 /\ entries \in [Messages -> Nat]
    BY <1>0, <2>3 DEF OneEntryPerMessage, MailTypeOK
  <2>5. /\ entries'[m] = IF m \in Letters THEN 1 ELSE 0
        /\ \A k \in Messages \ {m} : entries'[k] = entries[k]
    BY <2>3, <2>4
  <2> QED
    BY <1>0, <2>3, <2>5 DEF OneEntryPerMessage
<1>3. ASSUME NEW d \in Doors, StoreRaw(d) \/ IngestFails(d) \/ Release(d)
      PROVE  OneEntryPerMessage'
  BY <1>1, <1>3 DEF StoreRaw, IngestFails, Release
<1>4. ASSUME NEW d \in Doors, NEW m \in Messages, Claim(d, m)
      PROVE  OneEntryPerMessage'
  BY <1>1, <1>4 DEF Claim, desk
<1>5. ASSUME NEW p \in Processes, Crash(p) PROVE OneEntryPerMessage'
  BY <1>1, <1>5 DEF Crash
<1>6. CASE Outside
  BY <1>1, <1>6 DEF Outside
<1> QED
  BY <1>0, <1>2, <1>3, <1>4, <1>5, <1>6, DoorSteps

LEMMA StepRaw ==
    ASSUME MailInv, [MailNext]_mailVars
    PROVE  RawBehindRecord'
<1>0. MailTypeOK /\ MailTypeOK' /\ DoneIsSettled /\ DoneIsSettled'
  BY StepMailTypes, StepDone DEF MailInv
<1>1. \A m \in Messages :
         /\ m \in raw => m \in ledger
         /\ m \in ledger => \/ m \in raw \/ m \in cut
                            \/ \E d \in Doors : ing[d].pc = "stored" /\ ing[d].msg = m
  BY <1>0, RawIs DEF MailInv
<1> DEFINE Behind ==
       \A m \in Messages :
         /\ m \in raw' => m \in ledger'
         /\ m \in ledger' => \/ m \in raw' \/ m \in cut'
                             \/ \E d \in Doors : ing'[d].pc = "stored" /\ ing'[d].msg = m
<1>2. Behind => RawBehindRecord'
  <2>1. \A m \in Messages : (\E d \in Doors : ing'[d] = [pc |-> "stored", msg |-> m])
                            <=> \E d \in Doors : ing'[d].pc = "stored" /\ ing'[d].msg = m
    <3>1. \A d \in Doors : ing'[d] \in IngType
      BY <1>0 DEF MailTypeOK, IngType
    <3> QED
      BY <3>1 DEF IngType
  <2> QED
    BY <2>1 DEF RawBehindRecord
<1> SUFFICES Behind
  BY <1>2
<1>3. ASSUME UNCHANGED <<ledger, raw>>, cut \subseteq cut',
             \A d \in Doors : ing[d].pc = "stored" =>
                 ing[d].msg \in cut' \/ (ing'[d].pc = "stored" /\ ing'[d].msg = ing[d].msg)
      PROVE  Behind
  BY <1>1, <1>3
<1>4. CASE Outside
  BY <1>3, <1>4 DEF Outside
<1>5. ASSUME NEW d \in Doors, NEW m \in Messages, Claim(d, m), ing[d].pc = "idle"
      PROVE  Behind
  <2>1. \A e \in Doors \ {d} : ing'[e] = ing[e]
    BY <1>0, <1>5 DEF Claim, MailTypeOK
  <2>2. UNCHANGED <<ledger, raw, cut>>
    BY <1>5 DEF Claim, desk
  <2> QED
    BY <1>3, <1>5, <2>1, <2>2
<1>6. ASSUME NEW d \in Doors, Release(d) PROVE Behind
  <2>1. \A e \in Doors \ {d} : ing'[e] = ing[e]
    BY <1>0, <1>6 DEF Release, MailTypeOK
  <2>2. UNCHANGED <<ledger, raw, cut>>
    BY <1>6 DEF Release
  <2> QED
    BY <1>3, <1>6, <2>1, <2>2 DEF Release
<1>7. ASSUME NEW d \in Doors, Ingest(d) PROVE Behind
  <2>1. /\ ing'[d].pc = "stored" /\ ing'[d].msg = ing[d].msg
        /\ \A e \in Doors \ {d} : ing'[e] = ing[e]
    BY <1>0, <1>7, DoorsAre DEF Ingest
  <2>2. /\ ing[d].pc = "held" /\ ledger' = ledger \union {ing[d].msg}
        /\ raw' = raw /\ cut' = cut
    BY <1>7 DEF Ingest
  <2>3. ASSUME NEW m \in Messages, m \in ledger,
               NEW e \in Doors, ing[e].pc = "stored", ing[e].msg = m
        PROVE  ing'[e].pc = "stored" /\ ing'[e].msg = m
    BY <2>1, <2>2, <2>3
  <2> QED
    BY <1>1, <2>1, <2>2, <2>3
<1>8. ASSUME NEW d \in Doors, StoreRaw(d) PROVE Behind
  <2>1. \A e \in Doors \ {d} : ing'[e] = ing[e]
    BY <1>0, <1>8, DoorsAre DEF StoreRaw
  <2>2. /\ raw' = raw \union {ing[d].msg} /\ ledger' = ledger /\ cut' = cut
        /\ ing[d].msg \in ledger
    BY <1>0, <1>8 DEF StoreRaw, DoneIsSettled
  <2>3. ASSUME NEW m \in Messages, m \in ledger,
               NEW e \in Doors, ing[e].pc = "stored", ing[e].msg = m
        PROVE  m \in raw' \/ (ing'[e].pc = "stored" /\ ing'[e].msg = m)
    BY <2>1, <2>2, <2>3
  <2> QED
    BY <1>1, <2>2, <2>3
<1>9. ASSUME NEW d \in Doors, IngestFails(d) PROVE Behind
  <2>1. /\ \A e \in Doors \ {d} : ing'[e] = ing[e]
        /\ cut' = IF ing[d].pc = "stored" THEN cut \union {ing[d].msg} ELSE cut
        /\ UNCHANGED <<ledger, raw>>
    BY <1>0, <1>9, FailEffect
  <2>2. cut \subseteq cut' /\ (ing[d].pc = "stored" => ing[d].msg \in cut')
    BY <2>1
  <2> HIDE DEF Behind
  <2> QED
    BY <1>3, <2>1, <2>2
<1>10. ASSUME NEW p \in Processes, Crash(p) PROVE Behind
  <2>1. /\ \A d \in Doors : ing[d].pc = "stored" => ing[d].msg \in cut' \/ ing'[d] = ing[d]
        /\ cut \subseteq cut' /\ UNCHANGED <<ledger, raw>>
    BY <1>10, CrashEffect
  <2> HIDE DEF Behind
  <2> QED
    BY <1>3, <2>1
<1> HIDE DEF Behind
<1> QED
  BY <1>0, <1>4, <1>5, <1>6, <1>7, <1>8, <1>9, <1>10, DoorSteps

LEMMA InitMailInv ==
    ASSUME MailInit
    PROVE  MailInv
<1>1. /\ seen = {} /\ flagged = {} /\ ledger = {} /\ raw = {} /\ cut = {} /\ failed = {}
      /\ \A d \in Doors : ing[d].pc = "idle"
      /\ entries = [m \in Messages |-> 0]
  BY DEF MailInit, Resting
<1>2. MailTypeOK
  <2>1. Cardinality(seen) = 0
    BY <1>1, FS_EmptySet
  <2>2. uid \in [Messages -> 0..Cardinality(seen)]
    BY <2>1 DEF MailInit
  <2>3. conn \in [Processes -> ConnType] /\ ing \in [Doors -> IngType]
    BY DEF MailInit, ConnType, IngType, NoConn, Resting
  <2> QED
    BY <2>2, <2>3 DEF MailInit, MailTypeOK, ConnType, IngType
<1>3. ClaimsAreExclusive /\ DoneIsSettled /\ OneEntryPerMessage /\ RawBehindRecord
  BY <1>1 DEF ClaimsAreExclusive, DoneIsSettled, OneEntryPerMessage, RawBehindRecord
<1>4. FolderIsBehind
  BY <1>1, FS_EmptySet DEF FolderIsBehind
<1> QED
  BY <1>2, <1>3, <1>4 DEF MailInv

LEMMA StepMailInv ==
    ASSUME MailInv, [MailNext]_mailVars
    PROVE  MailInv'
BY StepMailTypes, StepClaims, StepDone, StepFolder, StepEntry, StepRaw DEF MailInv

-----------------------------------------------------------------------------
(* The theorem.                                                             *)

\* Inbound mail, whatever is fetched again, posted again, cut off or failed on:
\* a message on record has made its one entry, or none when it is no letter, it
\* has its raw bytes but for what was cut off, and no message leaves its folder
\* before it is on record or the desk has failed on it.
THEOREM MailIntakeKeepsMail == MailSpec => []MailIsKept
<1>1. MailInv => MailIsKept
  BY DEF MailInv, MailIsKept, FolderIsBehind, KeptUntilRecorded, Settled
<1>2. MailSpec => []MailInv
  BY InitMailInv, StepMailInv, PTL DEF MailSpec
<1> QED
  BY <1>1, <1>2, PTL
=============================================================================
