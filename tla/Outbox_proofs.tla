--------------------------- MODULE Outbox_proofs ---------------------------
(***************************************************************************)
(* The outbox worker alone in the deployment: its safety properties hold   *)
(* for every set of rows, batch size, attempt budget and number of faults. *)
(* The SLA clock under transactions that follow one another: an outcome is *)
(* final, the row is a cache of its ledger, and the time that counts is    *)
(* conserved over pauses, priority switches and restarts, for every set of *)
(* requests, policy, calendar and horizon.                                 *)
(***************************************************************************)
EXTENDS Outbox, SlaClock, FiniteSetTheorems, WellFoundedInduction, TLAPS

\* The deployment index.ts means to have: one process runs the loop.
Alone == \A v, w \in Workers : v = w

InHand(w) == phase[w] \in {"sending", "delivered", "threw"}

\* A row in hand is a row; there is none in the other phases.
HandOK ==
    \A w \in Workers : IF InHand(w) THEN current[w] \in Rows
                                    ELSE current[w] = NoRow

\* What the worker holds is still pending, and its copy of attempts is fresh.
HoldsPending ==
    \A w \in Workers : \A r \in Rows :
        r \in batch[w] \/ r = current[w] =>
            status[r] = "pending" /\ copy[w][r] = attempts[r]

HandNotInBatch == \A w \in Workers : current[w] \notin batch[w]

\* Only pending rows are due.
DuePending == \A r \in due : status[r] = "pending"

\* "delivered" is entered on evidence.
DeliveredOnEvidence ==
    \A w \in Workers : phase[w] = "delivered" =>
        deliveries[current[w]] > 0 \/ current[w] \in skipped

\* A row still owed has had no delivery the database could know of, unless
\* that delivery is the one in hand.
OwedIsExcused ==
    \A r \in Rows :
        \/ deliveries[r] =< excused[r]
        \/ status[r] \in {"sent", "pruned"} /\ deliveries[r] =< 1 + excused[r]
        \/ /\ \E w \in Workers : phase[w] = "delivered" /\ current[w] = r
           /\ deliveries[r] =< 1 + excused[r]

Hands == HoldsPending /\ HandNotInBatch /\ DuePending

Evidence == DeliveredOnEvidence /\ SentMeansHandled

IInv == TypeOK /\ HandOK /\ Hands /\ Evidence /\ OwedIsExcused /\ DeadLetterExhausted

-----------------------------------------------------------------------------
(* Types, for any number of workers.                                        *)

LEMMA StepTypeOK ==
    ASSUME TypeOK, HandOK, [Next]_vars
    PROVE  (TypeOK /\ HandOK)'
<1> USE DEF TypeOK, HandOK, InHand, Statuses, Phases
<1>1. ASSUME NEW r \in Rows, Enqueue(r) PROVE (TypeOK /\ HandOK)'
  BY <1>1 DEF Enqueue, workerVars, history
<1>2. ASSUME NEW r \in Rows, Lapse(r) PROVE (TypeOK /\ HandOK)'
  BY <1>2 DEF Lapse, workerVars, history
<1>3. ASSUME NEW r \in Rows, RetryFailed(r) PROVE (TypeOK /\ HandOK)'
  BY <1>3 DEF RetryFailed, workerVars, history
<1>4. ASSUME NEW r \in Rows, PruneSent(r) PROVE (TypeOK /\ HandOK)'
  BY <1>4 DEF PruneSent, workerVars, history
<1>5. ASSUME NEW w \in Workers, NEW r \in Rows, Take(w, r) PROVE (TypeOK /\ HandOK)'
  BY <1>5 DEF Take, queueVars, history
<1>6. ASSUME NEW w \in Workers, Start(w) PROVE (TypeOK /\ HandOK)'
  BY <1>6 DEF Start, queueVars, history
<1>7. ASSUME NEW w \in Workers, BeginTick(w) PROVE (TypeOK /\ HandOK)'
  BY <1>7 DEF BeginTick, queueVars, history
<1>8. ASSUME NEW w \in Workers, Claim(w) PROVE (TypeOK /\ HandOK)'
  BY <1>8 DEF Claim, Claimable, queueVars, history
<1>9. ASSUME NEW w \in Workers, EndTick(w) PROVE (TypeOK /\ HandOK)'
  BY <1>9 DEF EndTick, queueVars, history
<1>10. ASSUME NEW w \in Workers, Deliver(w) PROVE (TypeOK /\ HandOK)'
  BY <1>10 DEF Deliver, queueVars, history
<1>11. ASSUME NEW w \in Workers, Skip(w) PROVE (TypeOK /\ HandOK)'
  BY <1>11 DEF Skip, queueVars, history
<1>12. ASSUME NEW w \in Workers, SendFails(w) PROVE (TypeOK /\ HandOK)'
  BY <1>12 DEF SendFails, queueVars, history
<1>13. ASSUME NEW w \in Workers, MarkSent(w) PROVE (TypeOK /\ HandOK)'
  BY <1>13 DEF MarkSent, Write, queueVars, history
<1>14. ASSUME NEW w \in Workers, MarkThrew(w) PROVE (TypeOK /\ HandOK)'
  BY <1>14 DEF MarkThrew, Write, Verdict, queueVars, history
<1>15. ASSUME NEW w \in Workers, LateError(w) PROVE (TypeOK /\ HandOK)'
  BY <1>15 DEF LateError, Excuse, queueVars, history
<1>16. ASSUME NEW w \in Workers, AbortTick(w) PROVE (TypeOK /\ HandOK)'
  BY <1>16 DEF AbortTick, queueVars, history
<1>17. ASSUME NEW w \in Workers, Stop(w) PROVE (TypeOK /\ HandOK)'
  BY <1>17 DEF Stop, queueVars, history
<1>18. ASSUME NEW w \in Workers, Exit(w) PROVE (TypeOK /\ HandOK)'
  BY <1>18 DEF Exit, Lose, Excuse, queueVars, history
<1>19. ASSUME NEW w \in Workers, Crash(w) PROVE (TypeOK /\ HandOK)'
  BY <1>19 DEF Crash, Lose, Excuse, queueVars, history
<1>20. ASSUME UNCHANGED vars PROVE (TypeOK /\ HandOK)'
  BY <1>20 DEF vars, queueVars, workerVars, history
<1> QED
  BY <1>1, <1>2, <1>3, <1>4, <1>5, <1>6, <1>7, <1>8, <1>9, <1>10, <1>11,
     <1>12, <1>13, <1>14, <1>15, <1>16, <1>17, <1>18, <1>19, <1>20
  DEF Next, Loop, Fault, Attempt, Settle

\* Whatever the number of workers, their steps keep every variable in its type.
THEOREM OutboxTypeCorrect == Spec => []TypeOK
<1>1. Init => TypeOK /\ HandOK
  BY OutboxAssumption DEF Init, TypeOK, HandOK, InHand, Statuses, Phases
<1> QED
  BY <1>1, StepTypeOK, PTL DEF Spec

-----------------------------------------------------------------------------
(* What a lone worker holds is pending, owned and counted.                  *)

LEMMA StepHands ==
    ASSUME Alone, TypeOK, HandOK, Hands, [Next]_vars
    PROVE  Hands'
<1> USE OutboxAssumption DEF Alone, TypeOK, Phases, HandOK, InHand
<1>1. ASSUME NEW r \in Rows, Enqueue(r) PROVE Hands'
  BY <1>1 DEF Hands, HoldsPending,
     HandNotInBatch, DuePending, Enqueue, workerVars, history
<1>2. ASSUME NEW r \in Rows, Lapse(r) PROVE Hands'
  BY <1>2 DEF Hands, HoldsPending,
     HandNotInBatch, DuePending, Lapse, workerVars, history
<1>3. ASSUME NEW r \in Rows, RetryFailed(r) PROVE Hands'
  BY <1>3 DEF Hands, HoldsPending,
     HandNotInBatch, DuePending, RetryFailed, workerVars, history
<1>4. ASSUME NEW r \in Rows, PruneSent(r) PROVE Hands'
  BY <1>4 DEF Hands, HoldsPending,
     HandNotInBatch, DuePending, PruneSent, workerVars, history
<1>5. ASSUME NEW w \in Workers, NEW r \in Rows, Take(w, r) PROVE Hands'
  BY <1>5 DEF Hands, HoldsPending,
     HandNotInBatch, DuePending, Take, queueVars, history
<1>6. ASSUME NEW w \in Workers, Start(w) PROVE Hands'
  BY <1>6 DEF Hands, HoldsPending,
     HandNotInBatch, DuePending, Start, queueVars, history
<1>7. ASSUME NEW w \in Workers, BeginTick(w) PROVE Hands'
  BY <1>7 DEF Hands, HoldsPending,
     HandNotInBatch, DuePending, BeginTick, queueVars, history
<1>8. ASSUME NEW w \in Workers, Claim(w) PROVE Hands'
  BY <1>8 DEF Hands, HoldsPending,
     HandNotInBatch, DuePending, Claim, Claimable, queueVars, history
<1>9. ASSUME NEW w \in Workers, EndTick(w) PROVE Hands'
  BY <1>9 DEF Hands, HoldsPending,
     HandNotInBatch, DuePending, EndTick, queueVars, history
<1>10. ASSUME NEW w \in Workers, Deliver(w) PROVE Hands'
  BY <1>10 DEF Hands, HoldsPending,
     HandNotInBatch, DuePending, Deliver, queueVars, history
<1>11. ASSUME NEW w \in Workers, Skip(w) PROVE Hands'
  BY <1>11 DEF Hands, HoldsPending,
     HandNotInBatch, DuePending, Skip, queueVars, history
<1>12. ASSUME NEW w \in Workers, SendFails(w) PROVE Hands'
  BY <1>12 DEF Hands, HoldsPending,
     HandNotInBatch, DuePending, SendFails, queueVars, history
<1>13. ASSUME NEW w \in Workers, MarkSent(w) PROVE Hands'
  BY <1>13 DEF Hands, HoldsPending,
     HandNotInBatch, DuePending, MarkSent, Write, queueVars, history
<1>14. ASSUME NEW w \in Workers, MarkThrew(w) PROVE Hands'
  BY <1>14 DEF Hands, HoldsPending,
     HandNotInBatch, DuePending, MarkThrew, Write, Verdict, queueVars, history
<1>15. ASSUME NEW w \in Workers, LateError(w) PROVE Hands'
  BY <1>15 DEF Hands, HoldsPending,
     HandNotInBatch, DuePending, LateError, Excuse, queueVars, history
<1>16. ASSUME NEW w \in Workers, AbortTick(w) PROVE Hands'
  BY <1>16 DEF Hands, HoldsPending,
     HandNotInBatch, DuePending, AbortTick, queueVars, history
<1>17. ASSUME NEW w \in Workers, Stop(w) PROVE Hands'
  BY <1>17 DEF Hands, HoldsPending,
     HandNotInBatch, DuePending, Stop, queueVars, history
<1>18. ASSUME NEW w \in Workers, Exit(w) PROVE Hands'
  BY <1>18 DEF Hands, HoldsPending,
     HandNotInBatch, DuePending, Exit, Lose, Excuse, queueVars, history
<1>19. ASSUME NEW w \in Workers, Crash(w) PROVE Hands'
  BY <1>19 DEF Hands, HoldsPending,
     HandNotInBatch, DuePending, Crash, Lose, Excuse, queueVars, history
<1>20. ASSUME UNCHANGED vars PROVE Hands'
  BY <1>20 DEF Hands, HoldsPending,
     HandNotInBatch, DuePending, vars, queueVars, workerVars, history
<1> QED
  BY <1>1, <1>2, <1>3, <1>4, <1>5, <1>6, <1>7, <1>8, <1>9, <1>10, <1>11,
     <1>12, <1>13, <1>14, <1>15, <1>16, <1>17, <1>18, <1>19, <1>20
  DEF Next, Loop, Fault, Attempt, Settle

(* A row is closed, and a delivery is recorded, only on evidence.           *)

LEMMA StepEvidence ==
    ASSUME Alone, TypeOK, HandOK, Hands, Evidence, [Next]_vars
    PROVE  Evidence'
<1> USE OutboxAssumption DEF Alone, TypeOK, Phases, Hands, HandOK, HoldsPending,
        InHand
<1>1. ASSUME NEW r \in Rows, Enqueue(r) PROVE Evidence'
  BY <1>1 DEF Evidence, DeliveredOnEvidence,
     SentMeansHandled, Enqueue, workerVars, history
<1>2. ASSUME NEW r \in Rows, Lapse(r) PROVE Evidence'
  BY <1>2 DEF Evidence, DeliveredOnEvidence,
     SentMeansHandled, Lapse, workerVars, history
<1>3. ASSUME NEW r \in Rows, RetryFailed(r) PROVE Evidence'
  BY <1>3 DEF Evidence, DeliveredOnEvidence,
     SentMeansHandled, RetryFailed, workerVars, history
<1>4. ASSUME NEW r \in Rows, PruneSent(r) PROVE Evidence'
  BY <1>4 DEF Evidence, DeliveredOnEvidence,
     SentMeansHandled, PruneSent, workerVars, history
<1>5. ASSUME NEW w \in Workers, NEW r \in Rows, Take(w, r) PROVE Evidence'
  BY <1>5 DEF Evidence, DeliveredOnEvidence,
     SentMeansHandled, Take, queueVars, history
<1>6. ASSUME NEW w \in Workers, Start(w) PROVE Evidence'
  BY <1>6 DEF Evidence, DeliveredOnEvidence,
     SentMeansHandled, Start, queueVars, history
<1>7. ASSUME NEW w \in Workers, BeginTick(w) PROVE Evidence'
  BY <1>7 DEF Evidence, DeliveredOnEvidence,
     SentMeansHandled, BeginTick, queueVars, history
<1>8. ASSUME NEW w \in Workers, Claim(w) PROVE Evidence'
  BY <1>8 DEF Evidence, DeliveredOnEvidence,
     SentMeansHandled, Claim, queueVars, history
<1>9. ASSUME NEW w \in Workers, EndTick(w) PROVE Evidence'
  BY <1>9 DEF Evidence, DeliveredOnEvidence,
     SentMeansHandled, EndTick, queueVars, history
<1>10. ASSUME NEW w \in Workers, Deliver(w) PROVE Evidence'
  BY <1>10 DEF Evidence, DeliveredOnEvidence,
     SentMeansHandled, Deliver, queueVars, history
<1>11. ASSUME NEW w \in Workers, Skip(w) PROVE Evidence'
  BY <1>11 DEF Evidence, DeliveredOnEvidence,
     SentMeansHandled, Skip, queueVars, history
<1>12. ASSUME NEW w \in Workers, SendFails(w) PROVE Evidence'
  BY <1>12 DEF Evidence, DeliveredOnEvidence,
     SentMeansHandled, SendFails, queueVars, history
<1>13. ASSUME NEW w \in Workers, MarkSent(w) PROVE Evidence'
  BY <1>13 DEF Evidence, DeliveredOnEvidence,
     SentMeansHandled, MarkSent, Write, queueVars, history
<1>14. ASSUME NEW w \in Workers, MarkThrew(w) PROVE Evidence'
  BY <1>14 DEF Evidence, DeliveredOnEvidence,
     SentMeansHandled, MarkThrew, Write, Verdict, queueVars, history
<1>15. ASSUME NEW w \in Workers, LateError(w) PROVE Evidence'
  BY <1>15 DEF Evidence, DeliveredOnEvidence,
     SentMeansHandled, LateError, Excuse, queueVars, history
<1>16. ASSUME NEW w \in Workers, AbortTick(w) PROVE Evidence'
  BY <1>16 DEF Evidence, DeliveredOnEvidence,
     SentMeansHandled, AbortTick, queueVars, history
<1>17. ASSUME NEW w \in Workers, Stop(w) PROVE Evidence'
  BY <1>17 DEF Evidence, DeliveredOnEvidence,
     SentMeansHandled, Stop, queueVars, history
<1>18. ASSUME NEW w \in Workers, Exit(w) PROVE Evidence'
  BY <1>18 DEF Evidence, DeliveredOnEvidence,
     SentMeansHandled, Exit, Lose, Excuse, queueVars, history
<1>19. ASSUME NEW w \in Workers, Crash(w) PROVE Evidence'
  BY <1>19 DEF Evidence, DeliveredOnEvidence,
     SentMeansHandled, Crash, Lose, Excuse, queueVars, history
<1>20. ASSUME UNCHANGED vars PROVE Evidence'
  BY <1>20 DEF Evidence, DeliveredOnEvidence,
     SentMeansHandled, vars, queueVars, workerVars, history
<1> QED
  BY <1>1, <1>2, <1>3, <1>4, <1>5, <1>6, <1>7, <1>8, <1>9, <1>10, <1>11,
     <1>12, <1>13, <1>14, <1>15, <1>16, <1>17, <1>18, <1>19, <1>20
  DEF Next, Loop, Fault, Attempt, Settle

(* A second delivery needs an excuse.                                       *)

LEMMA StepOwedIsExcused ==
    ASSUME Alone, TypeOK, HandOK, Hands, OwedIsExcused, [Next]_vars
    PROVE  OwedIsExcused'
<1> USE OutboxAssumption DEF Alone, TypeOK, Phases, Hands, HandOK, HoldsPending,
        InHand
<1>1. ASSUME NEW r \in Rows, Enqueue(r) PROVE OwedIsExcused'
  BY <1>1 DEF OwedIsExcused, Enqueue, workerVars, history
<1>2. ASSUME NEW r \in Rows, Lapse(r) PROVE OwedIsExcused'
  BY <1>2 DEF OwedIsExcused, Lapse, workerVars, history
<1>3. ASSUME NEW r \in Rows, RetryFailed(r) PROVE OwedIsExcused'
  BY <1>3 DEF OwedIsExcused, RetryFailed, workerVars, history
<1>4. ASSUME NEW r \in Rows, PruneSent(r) PROVE OwedIsExcused'
  BY <1>4 DEF OwedIsExcused, PruneSent, workerVars, history
<1>5. ASSUME NEW w \in Workers, NEW r \in Rows, Take(w, r) PROVE OwedIsExcused'
  BY <1>5 DEF OwedIsExcused, Take, queueVars, history
<1>6. ASSUME NEW w \in Workers, Start(w) PROVE OwedIsExcused'
  BY <1>6 DEF OwedIsExcused, Start, queueVars, history
<1>7. ASSUME NEW w \in Workers, BeginTick(w) PROVE OwedIsExcused'
  BY <1>7 DEF OwedIsExcused, BeginTick, queueVars, history
<1>8. ASSUME NEW w \in Workers, Claim(w) PROVE OwedIsExcused'
  BY <1>8 DEF OwedIsExcused, Claim, queueVars, history
<1>9. ASSUME NEW w \in Workers, EndTick(w) PROVE OwedIsExcused'
  BY <1>9 DEF OwedIsExcused, EndTick, queueVars, history
<1>10. ASSUME NEW w \in Workers, Deliver(w) PROVE OwedIsExcused'
  BY <1>10 DEF OwedIsExcused, Deliver, queueVars, history
<1>11. ASSUME NEW w \in Workers, Skip(w) PROVE OwedIsExcused'
  BY <1>11 DEF OwedIsExcused, Skip, queueVars, history
<1>12. ASSUME NEW w \in Workers, SendFails(w) PROVE OwedIsExcused'
  BY <1>12 DEF OwedIsExcused, SendFails, queueVars, history
<1>13. ASSUME NEW w \in Workers, MarkSent(w) PROVE OwedIsExcused'
  BY <1>13 DEF OwedIsExcused, MarkSent, Write, queueVars, history
<1>14. ASSUME NEW w \in Workers, MarkThrew(w) PROVE OwedIsExcused'
  BY <1>14 DEF OwedIsExcused, MarkThrew, Write, Verdict, queueVars, history
<1>15. ASSUME NEW w \in Workers, LateError(w) PROVE OwedIsExcused'
  BY <1>15 DEF OwedIsExcused, LateError, Excuse, queueVars, history
<1>16. ASSUME NEW w \in Workers, AbortTick(w) PROVE OwedIsExcused'
  BY <1>16 DEF OwedIsExcused, AbortTick, queueVars, history
<1>17. ASSUME NEW w \in Workers, Stop(w) PROVE OwedIsExcused'
  BY <1>17 DEF OwedIsExcused, Stop, queueVars, history
<1>18. ASSUME NEW w \in Workers, Exit(w) PROVE OwedIsExcused'
  BY <1>18 DEF OwedIsExcused, Exit, Lose, Excuse, queueVars, history
<1>19. ASSUME NEW w \in Workers, Crash(w) PROVE OwedIsExcused'
  BY <1>19 DEF OwedIsExcused, Crash, Lose, Excuse, queueVars, history
<1>20. ASSUME UNCHANGED vars PROVE OwedIsExcused'
  BY <1>20 DEF OwedIsExcused, vars, queueVars, workerVars, history
<1> QED
  BY <1>1, <1>2, <1>3, <1>4, <1>5, <1>6, <1>7, <1>8, <1>9, <1>10, <1>11,
     <1>12, <1>13, <1>14, <1>15, <1>16, <1>17, <1>18, <1>19, <1>20
  DEF Next, Loop, Fault, Attempt, Settle

(* Dead letters have used up their attempts.                                *)

LEMMA StepDeadLetterExhausted ==
    ASSUME Alone, TypeOK, HandOK, Hands, DeadLetterExhausted, [Next]_vars
    PROVE  DeadLetterExhausted'
<1> USE OutboxAssumption DEF Alone, TypeOK, Hands, HandOK, HoldsPending,
        DuePending, InHand
<1>1. ASSUME NEW r \in Rows, Enqueue(r) PROVE DeadLetterExhausted'
  BY <1>1 DEF DeadLetterExhausted, Enqueue, workerVars, history
<1>2. ASSUME NEW r \in Rows, Lapse(r) PROVE DeadLetterExhausted'
  BY <1>2 DEF DeadLetterExhausted, Lapse, workerVars, history
<1>3. ASSUME NEW r \in Rows, RetryFailed(r) PROVE DeadLetterExhausted'
  BY <1>3 DEF DeadLetterExhausted, RetryFailed, workerVars, history
<1>4. ASSUME NEW r \in Rows, PruneSent(r) PROVE DeadLetterExhausted'
  BY <1>4 DEF DeadLetterExhausted, PruneSent, workerVars, history
<1>5. ASSUME NEW w \in Workers, NEW r \in Rows, Take(w, r) PROVE DeadLetterExhausted'
  BY <1>5 DEF DeadLetterExhausted, Take, queueVars, history
<1>6. ASSUME NEW w \in Workers, Start(w) PROVE DeadLetterExhausted'
  BY <1>6 DEF DeadLetterExhausted, Start, queueVars, history
<1>7. ASSUME NEW w \in Workers, BeginTick(w) PROVE DeadLetterExhausted'
  BY <1>7 DEF DeadLetterExhausted, BeginTick, queueVars, history
<1>8. ASSUME NEW w \in Workers, Claim(w) PROVE DeadLetterExhausted'
  BY <1>8 DEF DeadLetterExhausted, Claim, Claimable, queueVars, history
<1>9. ASSUME NEW w \in Workers, EndTick(w) PROVE DeadLetterExhausted'
  BY <1>9 DEF DeadLetterExhausted, EndTick, queueVars, history
<1>10. ASSUME NEW w \in Workers, Deliver(w) PROVE DeadLetterExhausted'
  BY <1>10 DEF DeadLetterExhausted, Deliver, queueVars, history
<1>11. ASSUME NEW w \in Workers, Skip(w) PROVE DeadLetterExhausted'
  BY <1>11 DEF DeadLetterExhausted, Skip, queueVars, history
<1>12. ASSUME NEW w \in Workers, SendFails(w) PROVE DeadLetterExhausted'
  BY <1>12 DEF DeadLetterExhausted, SendFails, queueVars, history
<1>13. ASSUME NEW w \in Workers, MarkSent(w) PROVE DeadLetterExhausted'
  BY <1>13 DEF DeadLetterExhausted, MarkSent, Write, queueVars, history
<1>14. ASSUME NEW w \in Workers, MarkThrew(w) PROVE DeadLetterExhausted'
  BY <1>14 DEF DeadLetterExhausted, MarkThrew, Write, Verdict, queueVars, history
<1>15. ASSUME NEW w \in Workers, LateError(w) PROVE DeadLetterExhausted'
  BY <1>15 DEF DeadLetterExhausted, LateError, Excuse, queueVars, history
<1>16. ASSUME NEW w \in Workers, AbortTick(w) PROVE DeadLetterExhausted'
  BY <1>16 DEF DeadLetterExhausted, AbortTick, queueVars, history
<1>17. ASSUME NEW w \in Workers, Stop(w) PROVE DeadLetterExhausted'
  BY <1>17 DEF DeadLetterExhausted, Stop, queueVars, history
<1>18. ASSUME NEW w \in Workers, Exit(w) PROVE DeadLetterExhausted'
  BY <1>18 DEF DeadLetterExhausted, Exit, Lose, Excuse, queueVars, history
<1>19. ASSUME NEW w \in Workers, Crash(w) PROVE DeadLetterExhausted'
  BY <1>19 DEF DeadLetterExhausted, Crash, Lose, Excuse, queueVars, history
<1>20. ASSUME UNCHANGED vars PROVE DeadLetterExhausted'
  BY <1>20 DEF DeadLetterExhausted, vars, queueVars, workerVars, history
<1> QED
  BY <1>1, <1>2, <1>3, <1>4, <1>5, <1>6, <1>7, <1>8, <1>9, <1>10, <1>11,
     <1>12, <1>13, <1>14, <1>15, <1>16, <1>17, <1>18, <1>19, <1>20
  DEF Next, Loop, Fault, Attempt, Settle

-----------------------------------------------------------------------------
LEMMA InitIInv == Init => IInv
BY OutboxAssumption
   DEF Init, IInv, TypeOK, Statuses, Phases, Hands, HandOK, HoldsPending,
       HandNotInBatch, DuePending, InHand, Evidence, DeliveredOnEvidence,
       SentMeansHandled, OwedIsExcused, DeadLetterExhausted

LEMMA StepIInv ==
    ASSUME Alone, IInv, [Next]_vars
    PROVE  IInv'
BY StepTypeOK, StepHands, StepEvidence, StepOwedIsExcused,
   StepDeadLetterExhausted DEF IInv

\* A lone worker closes rows on evidence only, dead-letters exhausted rows
\* only, and sends twice only after a fault hid the first delivery.
THEOREM OutboxSafe ==
    ASSUME Alone
    PROVE  Spec => []Accounted
<1>1. IInv => Accounted
  BY DEF Accounted, IInv, TypeOK, Evidence, OwedIsExcused, DuplicatesAreExcused
<1>2. IInv /\ [Next]_vars => IInv'
  BY StepIInv
<1> QED
  BY <1>1, <1>2, InitIInv, PTL DEF Spec

\* With a lone worker a row closed as sent never goes back to the queue.
THEOREM OutboxSentIsFinal ==
    ASSUME Alone
    PROVE  Spec => SentIsFinal
<1> DEFINE Final == \A r \in Rows : status[r] \in {"sent", "pruned"} =>
                                       status'[r] \in {"sent", "pruned"}
<1>1. ASSUME IInv, Next PROVE Final
  <2> USE DEF IInv, TypeOK, HandOK, Hands, HoldsPending, InHand
  <2>1. ASSUME NEW r \in Rows, Enqueue(r) \/ Lapse(r) \/ RetryFailed(r) \/ PruneSent(r)
        PROVE  Final
    BY <1>1, <2>1 DEF Enqueue, Lapse, RetryFailed, PruneSent
  <2>2. ASSUME NEW w \in Workers, Settle(w) PROVE Final
    BY <1>1, <2>2 DEF Settle, MarkSent, MarkThrew, Write
  <2>3. ASSUME NEW w \in Workers, Loop(w) \/ Fault(w), ~Settle(w) PROVE Final
    BY <1>1, <2>3 DEF Loop, Fault, Attempt, Start, BeginTick, Claim, Take, EndTick,
       Deliver, Skip, SendFails, LateError, AbortTick, Stop, Exit, Crash, Lose,
       queueVars
  <2> QED
    BY <1>1, <2>1, <2>2, <2>3 DEF Next
<1>2. ASSUME IInv, UNCHANGED vars PROVE Final
  BY <1>2 DEF vars, queueVars
<1>3. IInv /\ [Next]_vars => [Final]_vars
  BY <1>1, <1>2
<1>4. IInv /\ [Next]_vars => IInv'
  BY StepIInv
<1> QED
  BY <1>3, <1>4, InitIInv, PTL DEF Spec, SentIsFinal

-----------------------------------------------------------------------------
(* How many attempts a row can cost.                                        *)

Held(r) == \E w \in Workers : r \in batch[w] \/ r = current[w]

\* A batch is held only within a tick: a claim writes over none.
BatchInTick ==
    \A w \in Workers : phase[w] \in {"off", "idle", "claiming"} => batch[w] = {}

\* One more claim of the row stays within the bound.
Spendable(r) == attempts[r] < MaxAttempts + faults

\* The bound itself is not inductive: a row that nobody holds must have an
\* attempt left, for the next claim takes it; and a worker that is stopping must
\* already have paid for the rows it is going to drop, those of a claim still
\* under way included.
Budget ==
    /\ BatchInTick
    /\ AttemptsBounded
    /\ \A r \in Rows : status[r] = "pending" /\ ~Held(r) => Spendable(r)
    /\ \A w \in Workers : w \in stopping =>
          /\ faults > 0
          /\ \A r \in Rows :
                /\ Held(r) => Spendable(r)
                /\ phase[w] = "claiming" /\ status[r] = "pending" =>
                      attempts[r] + 1 < MaxAttempts + faults

\* Every step keeps the budget of a lone worker.
LEMMA StepBudget ==
    ASSUME Alone, IInv, Budget, [Next]_vars
    PROVE  Budget'
<1> USE OutboxAssumption DEF Alone, IInv, TypeOK, Phases, HandOK, InHand, Hands, HoldsPending,
        HandNotInBatch, DuePending
<1> USE DEF Budget, BatchInTick, AttemptsBounded, Spendable, Held
<1>1. ASSUME NEW r \in Rows, Enqueue(r) PROVE Budget'
  BY <1>1 DEF Enqueue, workerVars, history
<1>2. ASSUME NEW r \in Rows, Lapse(r) PROVE Budget'
  BY <1>2 DEF Lapse, workerVars, history
<1>3. ASSUME NEW r \in Rows, RetryFailed(r) PROVE Budget'
  BY <1>3 DEF RetryFailed, workerVars, history
<1>4. ASSUME NEW r \in Rows, PruneSent(r) PROVE Budget'
  BY <1>4 DEF PruneSent, workerVars, history
<1>5. ASSUME NEW w \in Workers, NEW r \in Rows, Take(w, r) PROVE Budget'
  BY <1>5 DEF Take, queueVars, history
<1>6. ASSUME NEW w \in Workers, Start(w) PROVE Budget'
  BY <1>6 DEF Start, queueVars, history
<1>7. ASSUME NEW w \in Workers, BeginTick(w) PROVE Budget'
  BY <1>7 DEF BeginTick, queueVars, history
<1>8. ASSUME NEW w \in Workers, Claim(w) PROVE Budget'
  BY <1>8 DEF Claim, Claimable, queueVars, history
<1>9. ASSUME NEW w \in Workers, EndTick(w) PROVE Budget'
  BY <1>9 DEF EndTick, queueVars, history
<1>10. ASSUME NEW w \in Workers, Deliver(w) PROVE Budget'
  BY <1>10 DEF Deliver, queueVars, history
<1>11. ASSUME NEW w \in Workers, Skip(w) PROVE Budget'
  BY <1>11 DEF Skip, queueVars, history
<1>12. ASSUME NEW w \in Workers, SendFails(w) PROVE Budget'
  BY <1>12 DEF SendFails, queueVars, history
<1>13. ASSUME NEW w \in Workers, MarkSent(w) PROVE Budget'
  BY <1>13 DEF MarkSent, Write, queueVars, history
<1>14. ASSUME NEW w \in Workers, MarkThrew(w) PROVE Budget'
  BY <1>14 DEF MarkThrew, Write, Verdict, queueVars, history
<1>15. ASSUME NEW w \in Workers, LateError(w) PROVE Budget'
  BY <1>15 DEF LateError, queueVars, history
<1>16. ASSUME NEW w \in Workers, AbortTick(w) PROVE Budget'
  BY <1>16 DEF AbortTick, queueVars, history
<1>17. ASSUME NEW w \in Workers, Stop(w) PROVE Budget'
  BY <1>17 DEF Stop, queueVars, history
<1>18. ASSUME NEW w \in Workers, Exit(w) PROVE Budget'
  BY <1>18 DEF Exit, Lose, queueVars, history
<1>19. ASSUME NEW w \in Workers, Crash(w) PROVE Budget'
  BY <1>19 DEF Crash, Lose, queueVars, history
<1>20. ASSUME UNCHANGED vars PROVE Budget'
  BY <1>20 DEF vars, queueVars, workerVars, history
<1> QED
  BY <1>1, <1>2, <1>3, <1>4, <1>5, <1>6, <1>7, <1>8, <1>9, <1>10, <1>11,
     <1>12, <1>13, <1>14, <1>15, <1>16, <1>17, <1>18, <1>19, <1>20
  DEF Next, Loop, Fault, Attempt, Settle

\* A lone worker spends at most one attempt per fault beyond MaxAttempts on a
\* row: every path that drops a claimed row without a verdict is a fault.
THEOREM OutboxAttemptsBounded ==
    ASSUME Alone
    PROVE  Spec => []AttemptsBounded
<1>1. Init => Budget
  BY OutboxAssumption
  DEF Init, Budget, BatchInTick, AttemptsBounded, Spendable, Held
<1>2. IInv /\ Budget /\ [Next]_vars => IInv' /\ Budget'
  BY StepIInv, StepBudget
<1>3. Budget => AttemptsBounded
  BY DEF Budget
<1> QED
  BY <1>1, <1>2, <1>3, InitIInv, PTL DEF Spec

-----------------------------------------------------------------------------
(* A lone worker implements NotificationPromise.                            *)

\* The value of the abstract state, as Promise substitutes it.
Owes == [r \in Rows |-> CASE status[r] = "absent"  -> "unknown"
                          [] status[r] = "pending" -> "owed"
                          [] status[r] = "failed"  -> "given_up"
                          [] OTHER                 -> "closed"]

promised == <<Owes, deliveries, skipped>>

LEMMA StepPromise ==
    ASSUME Alone, IInv, Next
    PROVE  [Promise!Next]_promised
<1> USE DEF IInv, TypeOK, Statuses, HandOK, Hands, HoldsPending, InHand, Owes,
        promised
<1>1. ASSUME NEW r \in Rows, Enqueue(r)
     PROVE  Promise!Submit(r)
  BY <1>1 DEF Enqueue, history, Promise!Submit
<1>2. ASSUME NEW r \in Rows, RetryFailed(r)
     PROVE  Promise!Resubmit(r)
  BY <1>2 DEF RetryFailed, Promise!Resubmit
<1>3. ASSUME NEW r \in Rows, Lapse(r) PROVE UNCHANGED promised
  BY <1>3 DEF Lapse, history
<1>4. ASSUME NEW r \in Rows, PruneSent(r) PROVE UNCHANGED promised
  BY <1>4 DEF PruneSent, history
<1>5. ASSUME NEW w \in Workers, NEW m \in Rows, m = current[w], Deliver(w)
     PROVE  Promise!Send(m)
  BY <1>5 DEF Deliver, queueVars, Promise!Send
<1>6. ASSUME NEW w \in Workers, NEW m \in Rows, m = current[w], Skip(w)
     PROVE  Promise!Waive(m)
  BY <1>6 DEF Skip, queueVars, Promise!Waive
<1>7. ASSUME NEW w \in Workers, NEW m \in Rows, m = current[w], MarkSent(w)
     PROVE  Promise!Close(m)
  BY <1>7 DEF MarkSent, Write, Evidence, DeliveredOnEvidence, history, Promise!Close
<1>8. ASSUME NEW w \in Workers, NEW m \in Rows, m = current[w], MarkThrew(w)
     PROVE  Promise!GiveUp(m) \/ UNCHANGED promised
  BY <1>8 DEF MarkThrew, Write, Verdict, history, Promise!GiveUp
<1>9. ASSUME NEW w \in Workers, NEW r \in Rows, Take(w, r)
     PROVE  UNCHANGED promised
  BY <1>9 DEF Take, queueVars, history
<1>10. ASSUME NEW w \in Workers,
            Start(w) \/ BeginTick(w) \/ Claim(w) \/ EndTick(w) \/ SendFails(w)
            \/ Fault(w)
     PROVE  UNCHANGED promised
  BY <1>10 DEF Start, BeginTick, Claim, EndTick, SendFails, Fault, LateError,
     AbortTick, Stop, Exit, Crash, Lose, queueVars, history
<1>11. ASSUME NEW w \in Workers, Attempt(w) \/ Settle(w)
      PROVE  current[w] \in Rows
  BY <1>11 DEF Attempt, Settle, Deliver, Skip, SendFails, MarkSent, MarkThrew
<1> HIDE DEF IInv, TypeOK, Statuses, HandOK, Hands, HoldsPending, InHand, Owes,
         promised
<1>12. ASSUME NEW w \in Workers, Attempt(w) \/ Settle(w)
      PROVE  [Promise!Next]_promised
  <2> PICK m \in Rows : m = current[w]
    BY <1>11, <1>12
  <2>1. CASE Deliver(w)
    BY <1>5, <2>1 DEF Promise!Next
  <2>2. CASE Skip(w)
    BY <1>6, <2>2 DEF Promise!Next
  <2>3. CASE SendFails(w)
    BY <1>10, <2>3
  <2>4. CASE MarkSent(w)
    BY <1>7, <2>4 DEF Promise!Next
  <2>5. CASE MarkThrew(w)
    BY <1>8, <2>5 DEF Promise!Next
  <2> QED
    BY <1>12, <2>1, <2>2, <2>3, <2>4, <2>5 DEF Attempt, Settle
<1>13. ASSUME NEW w \in Workers, (Loop(w) \/ Fault(w)) /\ ~(Attempt(w) \/ Settle(w))
      PROVE  UNCHANGED promised
  BY <1>9, <1>10, <1>13 DEF Loop
<1>14. ASSUME NEW r \in Rows, Enqueue(r) \/ RetryFailed(r)
      PROVE  [Promise!Next]_promised
  BY <1>1, <1>2, <1>14 DEF Promise!Next
<1>15. ASSUME NEW r \in Rows, Lapse(r) \/ PruneSent(r)
      PROVE  UNCHANGED promised
  BY <1>3, <1>4, <1>15
<1> QED
  BY <1>12, <1>13, <1>14, <1>15
  DEF Next

\* Every step of a lone worker, its producers and its faults is a step of the
\* promise or leaves it alone.
THEOREM OutboxImplementsPromise ==
    ASSUME Alone
    PROVE  Spec => PromiseKept
<1>1. Init => Promise!Init
  BY DEF Init, Promise!Init
<1>2. IInv /\ [Next]_vars => [Promise!Next]_promised
  BY StepPromise DEF vars, queueVars, history, promised, Owes
<1>3. IInv /\ [Next]_vars => IInv'
  BY StepIInv
<1> QED
  BY <1>1, <1>2, <1>3, InitIInv, PTL
  DEF Spec, PromiseKept, Promise!Spec, promised, Owes
-----------------------------------------------------------------------------
(* The clocks of the service levels, one transaction after the other.       *)

RequestOps == {"category", "priority", "reply", "cancel", "device", "pause", "resume"}

\* A transaction that is open is alone, and the clock is still as it loaded it;
\* what the ticker has loaded is a clock that was not finished.
SeesTheClock ==
    /\ pend = [a \in Actors |-> pend[a]]
    /\ \A a \in Actors : pend[a] # Idle =>
          /\ pend[a].seen = clock
          /\ \A b \in Actors : pend[b] # Idle => b = a
          /\ IF a = Ticker THEN clock.status \in Live ELSE pend[a].op \in RequestOps

\* The bodies of the handlers leave a finished clock as it is.
LEMMA ServedFinished ==
    ASSUME NEW p, p.op \in RequestOps, p.seen = clock, clock.status \notin Live
    PROVE  Served(p) = clock
<1> DEFINE s == Replayed(clock, p.at)
<1>0. clock.status # "paused"
  BY DEF Live
<1>1. \A r : /\ Pause(clock, clock, s, r, p.at) = clock
             /\ Resume(clock, clock, s, r, p.at) = clock
             /\ Resume(clock, clock, Replayed(clock, p.at), r, p.at) = clock
  BY <1>0 DEF Pause, Resume
<1>2. Meet(clock, clock, s, p.at) = clock /\ Cancel(clock, clock, s, p.at) = clock
  BY DEF Meet, Cancel, Finish
<1> HIDE DEF s
<1>3. ChangeCategory(clock, clock, s, category, p.arg, p.at) = clock
  BY <1>1, <1>2 DEF ChangeCategory
<1>4. ChangePriority(clock, clock, s, p.arg, p.at) = clock
  BY DEF ChangePriority
<1>5. ChangeDevice(clock, clock, s, p.arg, p.at) = clock
  BY DEF ChangeDevice
<1>6. Replayed(p.seen, p.at) = s
  BY DEF s
<1> QED
  BY <1>1, <1>2, <1>3, <1>4, <1>5, <1>6 DEF Served, RequestOps

\* To load is to see the clock, when no other transaction is open.
LEMMA LoadSees ==
    ASSUME ~Overlap, SeesTheClock, NEW a \in Actors, NEW op, NEW arg, Load(a, op, arg),
           op # "idle", IF a = Ticker THEN clock.status \in Live ELSE op \in RequestOps
    PROVE  SeesTheClock'
<1>1. \A b \in Actors : pend[b] = Idle
  BY DEF Load, Quiet
<1>2. PICK p : p = [op |-> op, arg |-> arg, at |-> now, seen |-> clock]
  OBVIOUS
<1>3. p.seen = clock /\ p.op = op /\ p # Idle
  BY <1>2 DEF Idle
<1>4. pend' = [pend EXCEPT ![a] = p] /\ clock' = clock
  BY <1>2 DEF Load
<1>5. pend'[a] = p /\ \A b \in Actors \ {a} : pend'[b] = Idle
  BY <1>1, <1>4 DEF SeesTheClock
<1> QED
  BY <1>3, <1>4, <1>5 DEF SeesTheClock

\* Once a lone transaction has ended none is open.
LEMMA EndSees ==
    ASSUME SeesTheClock, NEW a \in Actors, pend[a] # Idle, pend' = [pend EXCEPT ![a] = Idle]
    PROVE  SeesTheClock'
<1>1. \A b \in Actors : pend'[b] = Idle
  BY DEF SeesTheClock
<1> QED
  BY <1>1 DEF SeesTheClock

\* Every step keeps transactions alone, and leaves the outcome of a finished clock.
LEMMA StepOutcome ==
    ASSUME ~Overlap, SeesTheClock, [SlaNext]_slaVars
    PROVE  /\ SeesTheClock'
           /\ clock.status \notin Live => clock'.status = clock.status
<1> DEFINE Goal == /\ SeesTheClock'
                   /\ clock.status \notin Live => clock'.status = clock.status
<1>a. Ticker \in Actors /\ \A a \in Requests : a \in Actors /\ a # Ticker
  BY SlaAssumption DEF Actors
<1>b. ASSUME UNCHANGED <<clock, pend>> PROVE Goal
  BY <1>b DEF SeesTheClock
<1>1. ASSUME NEW a \in Requests, NEW op \in RequestOps, NEW arg, Ask(a, op, arg)
      PROVE  Goal
  <2>1. Load(a, op, arg) /\ clock' = clock /\ op # "idle"
    BY <1>1 DEF Ask, Load, RequestOps
  <2> QED
    BY <1>a, <2>1, LoadSees
<1>2. ASSUME NEW a \in Requests,
             \/ AskCategory(a) \/ AskPriority(a) \/ AskReply(a) \/ AskCancel(a)
             \/ AskDevice(a) \/ AskManual(a)
      PROVE  Goal
  <2>1. \E op \in RequestOps : \E arg : Ask(a, op, arg)
    BY <1>2 DEF AskCategory, AskPriority, AskReply, AskCancel, AskDevice, AskManual,
                RequestOps
  <2> HIDE DEF Goal
  <2> QED
    BY <1>1, <2>1
<1>3. ASSUME NEW a \in Requests, Serve(a) PROVE Goal
  <2>1. /\ pend[a].op # "idle" /\ pend' = [pend EXCEPT ![a] = Idle]
        /\ clock' = Served(pend[a])
    BY <1>3 DEF Serve
  <2>2. pend[a] # Idle
    BY <2>1 DEF Idle
  <2>3. pend[a].op \in RequestOps /\ pend[a].seen = clock
    BY <1>a, <2>2 DEF SeesTheClock
  <2>4. clock.status \notin Live => clock' = clock
    BY <2>1, <2>3, ServedFinished
  <2> QED
    BY <1>a, <2>1, <2>2, <2>4, EndSees
<1>4. ASSUME LoadUnarmed \/ LoadDue PROVE Goal
  <2>1. \E op \in {"arm", "tick"} : \E arg : Load(Ticker, op, arg)
    BY <1>4 DEF LoadUnarmed, LoadDue
  <2>2. clock.status \in Live
    BY <1>4 DEF LoadUnarmed, LoadDue, IsDue
  <2>3. SeesTheClock'
    <3>1. \A op \in {"arm", "tick"} : op # "idle"
      OBVIOUS
    <3> QED
      BY <1>a, <2>1, <2>2, <3>1, LoadSees
  <2> QED
    BY <2>2, <2>3
<1>5. ASSUME ArmUnarmed \/ Tick PROVE Goal
  <2>1. pend[Ticker].op \in {"arm", "tick"} /\ pend' = [pend EXCEPT ![Ticker] = Idle]
    BY <1>5 DEF ArmUnarmed, Tick
  <2>2. pend[Ticker] # Idle
    BY <2>1 DEF Idle
  <2>3. clock.status \in Live
    BY <1>a, <2>2 DEF SeesTheClock
  <2> QED
    BY <1>a, <2>1, <2>2, <2>3, EndSees
<1>6. ASSUME StopTicker PROVE Goal
  <2>1. pend' = [pend EXCEPT ![Ticker] = Idle] /\ clock' = clock
    BY <1>6 DEF StopTicker
  <2>2. CASE pend[Ticker] = Idle
    <3>1. pend' = pend
      BY <1>a, <2>1, <2>2 DEF SeesTheClock
    <3> QED
      BY <1>b, <2>1, <3>1
  <2>3. CASE pend[Ticker] # Idle
    BY <1>a, <2>1, <2>3, EndSees
  <2> QED
    BY <2>2, <2>3
<1>7. ASSUME StartTicker \/ NothingUnarmed \/ Elapse \/ UNCHANGED slaVars PROVE Goal
  BY <1>7, <1>b DEF StartTicker, NothingUnarmed, Elapse, slaVars
<1> HIDE DEF Goal
<1>8. Goal
  BY <1>2, <1>3, <1>4, <1>5, <1>6, <1>7 DEF SlaNext
<1> QED
  BY <1>8 DEF Goal

\* When transactions do not overlap, a clock that was met, cancelled or breached
\* keeps that outcome: for any workflow, calendars, budgets and policies, however
\* often the ticker is restarted and whatever is asked of the clock afterwards.
THEOREM SlaOutcomeIsFinal ==
    ASSUME ~Overlap
    PROVE  SlaSpec => OutcomeIsFinal
<1>1. SlaInit => SeesTheClock
  BY DEF SlaInit, SeesTheClock
<1>2. SeesTheClock /\ [SlaNext]_slaVars =>
         /\ SeesTheClock'
         /\ [clock.status \notin Live => clock'.status = clock.status]_slaVars
  BY StepOutcome
<1> QED
  BY <1>1, <1>2, PTL DEF SlaSpec, OutcomeIsFinal

-----------------------------------------------------------------------------
(* Induction over the naturals, for a set instead of a predicate.           *)

LEMMA LeastNatural ==
    ASSUME NEW T \in SUBSET Nat, T # {}
    PROVE  \E m \in T : \A n \in T : m <= n
<1> DEFINE R == StrictSubsetOrdering(Nat)
           U == {1..n : n \in T}
<1>1. IsWellFoundedOn(R, FiniteSubsetsOf(Nat))
  BY FS_StrictSubsetOrderingWellFounded
<1>2. U \subseteq FiniteSubsetsOf(Nat) /\ U # {}
  <2>1. \A n \in T : IsFiniteSet(1..n) /\ 1..n \in SUBSET Nat
    BY FS_Interval
  <2> QED
    BY <2>1 DEF FiniteSubsetsOf
<1>3. PICK x \in U : \A y \in U : ~(<<y, x>> \in R)
  <2> HIDE DEF U, R
  <2> QED
    BY <1>1, <1>2, WFMin
<1>4. PICK m \in T : x = 1..m
  OBVIOUS
<1>5. ASSUME NEW n \in T, n < m PROVE FALSE
  <2>1. m \in 1..m /\ m \notin 1..n
    BY <1>5
  <2>2. 1..n \in SUBSET Nat /\ 1..m \in SUBSET Nat /\ 1..n \subseteq 1..m /\ 1..n # 1..m
    BY <1>5, <2>1
  <2>3. <<1..n, 1..m>> \in R
    BY <2>2 DEF StrictSubsetOrdering
  <2> QED
    BY <1>3, <1>4, <2>3
<1> QED
  BY <1>5

LEMMA NatSetInduction ==
    ASSUME NEW S, 0 \in S, \A n \in Nat : n \in S => n + 1 \in S
    PROVE  \A n \in Nat : n \in S
<1> SUFFICES ASSUME NEW k \in Nat, k \notin S PROVE FALSE
  OBVIOUS
<1> DEFINE T == Nat \ S
<1>1. PICK m \in T : \A n \in T : m <= n
  <2>1. T \in SUBSET Nat /\ T # {}
    OBVIOUS
  <2> HIDE DEF T
  <2> QED
    BY <2>1, LeastNatural
<1>2. m - 1 \in Nat /\ m - 1 \in S /\ (m - 1) + 1 = m
  BY <1>1
<1> QED
  BY <1>2

-----------------------------------------------------------------------------
(* Working time.                                                            *)

\* The calendar is scanned far enough: from any instant, in both directions, one
\* meets as much working time as the clock may ever have to find.
Wide ==
    \A x \in Priorities, t \in Nat : \A n \in 1..(Horizon + 1 + Budgets[x]) :
        /\ \E u \in (t + 1)..(t + Reach) : u - 1 \in Open /\ Between(t, u) = n
        /\ \E u \in (t - Reach)..t : u \in Open /\ Between(u, t) = n

Worked(from, to) == {t \in from..(to - 1) : t \in Open}

LEMMA WorkedFinite ==
    ASSUME NEW a \in Int, NEW b \in Int
    PROVE  IsFiniteSet(Worked(a, b)) /\ Between(a, b) = Cardinality(Worked(a, b))
<1>1. IsFiniteSet(a..(b - 1)) /\ Worked(a, b) \subseteq a..(b - 1)
  BY FS_Interval DEF Worked
<1>2. IsFiniteSet(Worked(a, b))
  BY <1>1, FS_Subset
<1> QED
  BY <1>2 DEF Worked, Between

LEMMA BetweenType ==
    ASSUME NEW a \in Int, NEW b \in Int
    PROVE  Between(a, b) \in Nat
BY WorkedFinite, FS_CardinalityType

\* An instant that does not come after the other has no time before it.
LEMMA BetweenNone ==
    ASSUME NEW a \in Int, NEW b \in Int, b <= a
    PROVE  Between(a, b) = 0
<1>1. Worked(a, b) = {}
  BY DEF Worked
<1> QED
  BY <1>1, WorkedFinite, FS_EmptySet

\* Working time adds up.
LEMMA BetweenAdds ==
    ASSUME NEW a \in Int, NEW b \in Int, NEW c \in Int, a <= b, b <= c
    PROVE  Between(a, c) = Between(a, b) + Between(b, c)
<1>1. /\ Worked(a, c) = Worked(a, b) \cup Worked(b, c)
      /\ Worked(a, b) \cap Worked(b, c) = {}
  BY DEF Worked
<1>2. /\ IsFiniteSet(Worked(a, b)) /\ IsFiniteSet(Worked(b, c))
      /\ Between(a, b) = Cardinality(Worked(a, b)) /\ Between(b, c) = Cardinality(Worked(b, c))
      /\ Between(a, c) = Cardinality(Worked(a, c))
  BY WorkedFinite
<1>3. Cardinality(Worked(a, b) \cup Worked(b, c))
        = Cardinality(Worked(a, b)) + Cardinality(Worked(b, c))
            - Cardinality(Worked(a, b) \cap Worked(b, c))
  BY <1>2, FS_Union
<1>4. Cardinality(Worked(a, b) \cap Worked(b, c)) = 0
  BY <1>1, FS_EmptySet
<1>5. Cardinality(Worked(a, b)) \in Nat /\ Cardinality(Worked(b, c)) \in Nat
  BY <1>2, FS_CardinalityType
<1> QED
  BY <1>1, <1>2, <1>3, <1>4, <1>5

\* No more time is worked than passes.
LEMMA BetweenPasses ==
    ASSUME NEW a \in Int, NEW b \in Int, a <= b
    PROVE  Between(a, b) <= b - a
<1>1. Worked(a, b) \subseteq a..(b - 1) /\ IsFiniteSet(a..(b - 1))
      /\ Cardinality(a..(b - 1)) = b - a
  <2>1. Cardinality(a..(b - 1)) = IF a > b - 1 THEN 0 ELSE (b - 1) - a + 1
    BY FS_Interval
  <2> QED
    BY <2>1, FS_Interval DEF Worked
<1>2. Cardinality(Worked(a, b)) <= Cardinality(a..(b - 1))
  BY <1>1, FS_Subset
<1> QED
  BY <1>1, <1>2, WorkedFinite

\* Less time is left later.
LEMMA BetweenShrinks ==
    ASSUME NEW a \in Int, NEW b \in Int, NEW c \in Int, a <= b
    PROVE  Between(b, c) <= Between(a, c)
<1>1. CASE b <= c
  <2>1. Between(a, c) = Between(a, b) + Between(b, c)
    BY <1>1, BetweenAdds
  <2>2. Between(a, b) \in Nat /\ Between(b, c) \in Nat
    BY BetweenType
  <2> QED
    BY <2>1, <2>2
<1>2. CASE c < b
  <2>1. Between(b, c) = 0
    BY <1>2, BetweenNone
  <2> QED
    BY <2>1, BetweenType
<1> QED
  BY <1>1, <1>2

\* A deadline is where the time that is owed has been worked.
LEMMA PlusFinds ==
    ASSUME Wide, NEW from \in Nat, NEW n \in Int, NEW x \in Priorities,
           n <= Horizon + 1 + Budgets[x]
    PROVE  /\ Plus(from, n) \in Nat /\ Plus(from, n) >= from
           /\ Between(from, Plus(from, n)) = IF n <= 0 THEN 0 ELSE n
           /\ n <= 0 => Plus(from, n) = from
           /\ n > 0 => Plus(from, n) > from
<1>0. Horizon \in Nat /\ Reach \in Nat /\ Budgets[x] \in Nat
  BY SlaAssumption
<1>1. CASE n <= 0
  BY <1>1, BetweenNone DEF Plus
<1>2. CASE n > 0
  <2>1. n \in 1..(Horizon + 1 + Budgets[x])
    BY <1>0, <1>2
  <2>2. \E u \in (from + 1)..(from + Reach) : (u - 1) \in Open /\ Between(from, u) = n
    BY <2>1 DEF Wide
  <2>3. Plus(from, n) = CHOOSE t \in (from + 1)..(from + Reach) :
                            (t - 1) \in Open /\ Between(from, t) = n
    BY <1>2 DEF Plus
  <2>4. Plus(from, n) \in (from + 1)..(from + Reach) /\ Between(from, Plus(from, n)) = n
    BY <2>2, <2>3
  <2> QED
    BY <1>0, <1>2, <2>4
<1> QED
  BY <1>1, <1>2

\* So is the instant from which so much is left.
LEMMA BeforeFinds ==
    ASSUME Wide, NEW deadline \in Nat, NEW n \in Int, NEW x \in Priorities,
           n <= Horizon + 1 + Budgets[x]
    PROVE  Before(deadline, n) \in Int
<1>0. Horizon \in Nat /\ Reach \in Nat /\ Budgets[x] \in Nat
  BY SlaAssumption
<1>1. CASE n <= 0
  BY <1>1 DEF Before
<1>2. CASE n > 0
  <2>1. n \in 1..(Horizon + 1 + Budgets[x])
    BY <1>0, <1>2
  <2>2. \E u \in (deadline - Reach)..deadline : u \in Open /\ Between(u, deadline) = n
    BY <2>1 DEF Wide
  <2>3. Before(deadline, n) =
          CHOOSE t \in (deadline - Reach)..deadline : t \in Open /\ Between(t, deadline) = n
    BY <1>2 DEF Before
  <2> QED
    BY <1>0, <2>2, <2>3
<1> QED
  BY <1>1, <1>2
-----------------------------------------------------------------------------
(* Replaying the ledger, row by row.                                        *)

AreStates(ledger, upTo, state, n) ==
    state = [m \in 0..n |-> IF m = 0 THEN Blank
                            ELSE IF ledger[m].at > upTo THEN state[m - 1]
                            ELSE ReplayRow(state[m - 1], ledger[m])]

LEMMA StatesExist ==
    ASSUME NEW ledger, NEW upTo
    PROVE  \A n \in Nat : \E state : AreStates(ledger, upTo, state, n)
<1> DEFINE S == {n \in Nat : \E state : AreStates(ledger, upTo, state, n)}
           After(s, m) == IF ledger[m].at > upTo THEN s ELSE ReplayRow(s, ledger[m])
<1>1. 0 \in S
  <2>1. AreStates(ledger, upTo, [m \in 0..0 |-> Blank], 0)
    BY DEF AreStates
  <2> QED
    BY <2>1
<1>2. ASSUME NEW n \in Nat, n \in S PROVE n + 1 \in S
  <2>1. PICK state : AreStates(ledger, upTo, state, n)
    BY <1>2
  <2> DEFINE next == [m \in 0..(n + 1) |-> IF m = n + 1 THEN After(state[n], m) ELSE state[m]]
  <2>2. \A m \in 0..n : state[m] = IF m = 0 THEN Blank ELSE After(state[m - 1], m)
    BY <2>1 DEF AreStates
  <2> HIDE DEF After
  <2>3. \A m \in 0..n : next[m] = state[m]
    OBVIOUS
  <2>4. next[n + 1] = After(state[n], n + 1) /\ next = [m \in 0..(n + 1) |-> next[m]]
    OBVIOUS
  <2> HIDE DEF next
  <2>5. ASSUME NEW m \in 0..(n + 1)
        PROVE  next[m] = IF m = 0 THEN Blank ELSE After(next[m - 1], m)
    <3>1. CASE m = 0
      BY <2>2, <2>3, <3>1
    <3>2. CASE m \in 1..n
      <4>1. m \in 0..n /\ m - 1 \in 0..n /\ m # 0
        BY <3>2
      <4> QED
        BY <2>2, <2>3, <4>1
    <3>3. CASE m = n + 1
      <4>1. n \in 0..n /\ m - 1 = n /\ m # 0
        BY <3>3
      <4> QED
        BY <2>3, <2>4, <3>3, <4>1
    <3> QED
      BY <3>1, <3>2, <3>3
  <2>6. next = [m \in 0..(n + 1) |-> IF m = 0 THEN Blank ELSE After(next[m - 1], m)]
    BY <2>4, <2>5
  <2>7. AreStates(ledger, upTo, next, n + 1)
    BY <2>6 DEF AreStates, After
  <2> QED
    BY <2>7
<1> HIDE DEF S
<1>3. \A n \in Nat : n \in S
  BY <1>1, <1>2, NatSetInduction
<1> QED
  BY <1>3 DEF S

\* What States is: before the first row nothing, and then one row after another.
LEMMA StatesByRow ==
    ASSUME NEW ledger, Len(ledger) \in Nat, NEW upTo
    PROVE  /\ States(ledger, upTo)[0] = Blank
           /\ \A n \in 1..Len(ledger) :
                 States(ledger, upTo)[n] =
                    IF ledger[n].at > upTo THEN States(ledger, upTo)[n - 1]
                    ELSE ReplayRow(States(ledger, upTo)[n - 1], ledger[n])
<1> DEFINE f == States(ledger, upTo)
           N == Len(ledger)
<1>1. AreStates(ledger, upTo, f, N)
  <2>1. f = CHOOSE state : state = [m \in 0..N |->
                IF m = 0 THEN Blank ELSE IF ledger[m].at > upTo THEN state[m - 1]
                                         ELSE ReplayRow(state[m - 1], ledger[m])]
    BY DEF States
  <2>2. \E state : AreStates(ledger, upTo, state, N)
    BY StatesExist
  <2> HIDE DEF f, N
  <2> QED
    BY <2>1, <2>2 DEF AreStates
<1> HIDE DEF f
<1>2. \A m \in 0..N : f[m] = IF m = 0 THEN Blank ELSE IF ledger[m].at > upTo THEN f[m - 1]
                                              ELSE ReplayRow(f[m - 1], ledger[m])
  BY <1>1 DEF AreStates
<1>3. f[0] = Blank
  BY <1>2
<1>4. \A n \in 1..N : f[n] = IF ledger[n].at > upTo THEN f[n - 1]
                             ELSE ReplayRow(f[n - 1], ledger[n])
  BY <1>2
<1> QED
  BY <1>3, <1>4 DEF f

Reasons == Categories \cup {"device_offline", "maintenance_window", "manual"}

LedgerRows == [event : Events, at : 0..Horizon,
               reason : Reasons \cup {None}, newDue : Nat \cup {None}]

LEMMA RowTypes ==
    ASSUME NEW ledger \in Seq(LedgerRows)
    PROVE  /\ Len(ledger) \in Nat /\ DOMAIN ledger = 1..Len(ledger)
           /\ \A i \in 1..Len(ledger) : /\ ledger[i] \in LedgerRows
                                        /\ ledger[i].at \in 0..Horizon
                                        /\ ledger[i].event \in Events
<1>1. \A i \in 1..Len(ledger) : ledger[i] \in LedgerRows
  OBVIOUS
<1> QED
  BY <1>1 DEF LedgerRows

\* Every row counts from the latest of them on, and the order of the cut-offs
\* does not matter: the state after the whole ledger.
Whole(ledger) == States(ledger, Horizon + 1)[Len(ledger)]

LEMMA WholeFromLatest ==
    ASSUME NEW ledger \in Seq(LedgerRows), NEW upTo \in Nat,
           \A i \in DOMAIN ledger : ledger[i].at <= upTo
    PROVE  States(ledger, upTo)[Len(ledger)] = Whole(ledger)
<1> DEFINE N == Len(ledger)
           f == States(ledger, upTo)
           g == States(ledger, Horizon + 1)
           S == {n \in Nat : n <= N => f[n] = g[n]}
<1>1. /\ N \in Nat /\ DOMAIN ledger = 1..N
      /\ \A i \in 1..N : ledger[i].at \in 0..Horizon /\ ledger[i].at <= upTo
  BY RowTypes
<1>2. Horizon \in Nat
  BY SlaAssumption
<1>3. \A i \in 1..N : ~(ledger[i].at > upTo) /\ ~(ledger[i].at > Horizon + 1)
  BY <1>1, <1>2
<1>4. f[0] = Blank /\ \A n \in 1..N : f[n] = ReplayRow(f[n - 1], ledger[n])
  BY <1>1, <1>3, StatesByRow
<1>5. g[0] = Blank /\ \A n \in 1..N : g[n] = ReplayRow(g[n - 1], ledger[n])
  BY <1>1, <1>3, StatesByRow
<1> HIDE DEF f, g, N
<1>6. 0 \in S
  BY <1>4, <1>5
<1>7. ASSUME NEW n \in Nat, n \in S PROVE n + 1 \in S
  <2> SUFFICES ASSUME n + 1 <= N PROVE f[n + 1] = g[n + 1]
    OBVIOUS
  <2>1. n + 1 \in 1..N /\ (n + 1) - 1 = n /\ n <= N
    BY <1>1
  <2>2. f[n] = g[n]
    BY <1>7, <2>1
  <2> QED
    BY <1>4, <1>5, <2>1, <2>2
<1> HIDE DEF S
<1>8. \A n \in Nat : n \in S
  BY <1>6, <1>7, NatSetInduction
<1>9. f[N] = g[N]
  BY <1>1, <1>8 DEF S
<1> QED
  BY <1>9 DEF f, g, N, Whole

\* One more row at the end is replayed after all the others.
LEMMA WholeOfAppended ==
    ASSUME NEW ledger \in Seq(LedgerRows), NEW row \in LedgerRows
    PROVE  Whole(Append(ledger, row)) = ReplayRow(Whole(ledger), row)
<1> DEFINE N    == Len(ledger)
           more == Append(ledger, row)
           f    == States(ledger, Horizon + 1)
           g    == States(more, Horizon + 1)
           S    == {n \in Nat : n <= N => f[n] = g[n]}
<1>1. /\ N \in Nat /\ DOMAIN ledger = 1..N
      /\ Len(more) = N + 1 /\ more[N + 1] = row
      /\ \A i \in 1..N : more[i] = ledger[i] /\ ledger[i].at \in 0..Horizon
      /\ row.at \in 0..Horizon
  <2>1. row.at \in 0..Horizon
    BY DEF LedgerRows
  <2>2. \A i \in 1..N : ledger[i].at \in 0..Horizon
    BY RowTypes
  <2>3. N \in Nat /\ DOMAIN ledger = 1..N /\ Len(more) = N + 1 /\ more[N + 1] = row
        /\ \A i \in 1..N : more[i] = ledger[i]
    OBVIOUS
  <2> QED
    BY <2>1, <2>2, <2>3
<1> HIDE DEF more
<1>2. Horizon \in Nat
  BY SlaAssumption
<1>3. (\A i \in 1..N : ~(ledger[i].at > Horizon + 1)) /\ ~(row.at > Horizon + 1)
  BY <1>1, <1>2
<1>4. f[0] = Blank /\ \A n \in 1..N : f[n] = ReplayRow(f[n - 1], ledger[n])
  BY <1>1, <1>3, StatesByRow
<1>5. g[0] = Blank /\ \A n \in 1..(N + 1) : g[n] = ReplayRow(g[n - 1], more[n])
  <2>1. \A n \in 1..(N + 1) : ~(more[n].at > Horizon + 1)
    BY <1>1, <1>3
  <2>2. Len(more) \in Nat
    BY <1>1
  <2> HIDE DEF N
  <2> QED
    BY <1>1, <2>1, <2>2, StatesByRow
<1> HIDE DEF f, g, N
<1>6. 0 \in S
  BY <1>4, <1>5
<1>7. ASSUME NEW n \in Nat, n \in S PROVE n + 1 \in S
  <2> SUFFICES ASSUME n + 1 <= N PROVE f[n + 1] = g[n + 1]
    OBVIOUS
  <2>1. n + 1 \in 1..N /\ n + 1 \in 1..(N + 1) /\ (n + 1) - 1 = n /\ n <= N
    BY <1>1
  <2>2. f[n] = g[n] /\ more[n + 1] = ledger[n + 1]
    BY <1>1, <1>7, <2>1
  <2> QED
    BY <1>4, <1>5, <2>1, <2>2
<1> HIDE DEF S
<1>8. \A n \in Nat : n \in S
  BY <1>6, <1>7, NatSetInduction
<1>9. f[N] = g[N]
  BY <1>1, <1>8 DEF S
<1>10. g[N + 1] = ReplayRow(g[N], row)
  <2>1. N + 1 \in 1..(N + 1) /\ (N + 1) - 1 = N
    BY <1>1
  <2> QED
    BY <1>1, <1>5, <2>1
<1> QED
  BY <1>1, <1>9, <1>10 DEF f, g, N, Whole, more

\* A row that comes after all the others, and repeats none of its instant, is
\* put at the end.
LEMMA AppendedLast ==
    ASSUME NEW ledger \in Seq(LedgerRows), NEW row \in LedgerRows,
           \A i \in DOMAIN ledger : /\ ledger[i].at <= row.at
                                    /\ ledger[i].at = row.at => ledger[i].event # row.event
    PROVE  AppendRow(ledger, row) = Append(ledger, row)
<1> DEFINE N == Len(ledger)
<1>1. N \in Nat /\ DOMAIN ledger = 1..N
  OBVIOUS
<1>2. ~\E r \in ToSet(ledger) : r.event = row.event /\ r.at = row.at
  BY DEF ToSet
<1>3. {i \in DOMAIN ledger : ledger[i].at <= row.at} = 1..N
  BY <1>1
<1>4. Cardinality(1..N) = N
  <2>1. Cardinality(1..N) = IF 1 > N THEN 0 ELSE N - 1 + 1
    BY <1>1, FS_Interval
  <2> QED
    BY <1>1, <2>1
<1>5. AppendRow(ledger, row) = InsertAt(ledger, 1 + N, row)
  BY <1>2, <1>3, <1>4 DEF AppendRow
<1>6. SubSeq(ledger, 1, N) = ledger
  OBVIOUS
<1>7. SubSeq(ledger, N + 1, N) = <<>>
  OBVIOUS
<1>8. (1 + N) - 1 = N /\ 1 + N = N + 1
  BY <1>1
<1>9. InsertAt(ledger, 1 + N, row) = (ledger \o <<row>>) \o <<>>
  BY <1>6, <1>7, <1>8 DEF InsertAt
<1>10. (ledger \o <<row>>) \o <<>> = Append(ledger, row)
  OBVIOUS
<1> QED
  BY <1>5, <1>9, <1>10
-----------------------------------------------------------------------------
(* What a replay knows of a clock that lives.                               *)

\* As much as some priority allows.
Within(n, extra) == \E x \in Priorities : n <= extra + Budgets[x]

ReplayStates == [elapsed : Nat, pausedMs : Nat, pauses : SUBSET Reasons, due : Nat,
                 budget : Nat, left : Nat \cup {None}, cursor : Nat, finished : BOOLEAN]

\* What has elapsed and what is owed are the budget, unless it is overspent.
InBudget(s, owed, overdue) ==
    \/ s.elapsed <= s.budget /\ s.elapsed + owed = s.budget
    \/ s.elapsed > s.budget /\ overdue

SoundState(s) ==
    /\ s \in ReplayStates
    /\ IsFiniteSet(s.pauses) /\ ~s.finished
    /\ s.left # None <=> s.pauses # {}
    /\ s.elapsed <= s.cursor
    /\ Within(s.budget, s.cursor)
    /\ s.pauses = {} => /\ Within(Between(s.cursor, s.due), 0)
                        /\ InBudget(s, Between(s.cursor, s.due), s.due <= s.cursor)
    /\ s.pauses # {} => Within(s.left, 0) /\ InBudget(s, s.left, s.left = 0)

LEMMA WithinLess ==
    ASSUME NEW n \in Int, NEW extra \in Int, Within(n, extra),
           NEW m \in Int, NEW more \in Int, m <= n, extra <= more
    PROVE  Within(m, more)
BY SlaAssumption DEF Within

\* Time that passes is elapsed or paused, and owed no longer or still.
LEMMA AdvancedSound ==
    ASSUME NEW s, SoundState(s), NEW to \in Nat
    PROVE  /\ SoundState(Advanced(s, to))
           /\ LET t == Advanced(s, to)
              IN  /\ t.pauses = s.pauses /\ t.due = s.due /\ t.budget = s.budget
                  /\ t.left = s.left
                  /\ t.cursor = IF to <= s.cursor THEN s.cursor ELSE to
                  /\ s.pauses = {} /\ to >= s.cursor
                       => t.elapsed = s.elapsed + Between(s.cursor, to)
<1> DEFINE t    == Advanced(s, to)
           span == Between(s.cursor, to)
<1>1. /\ s \in ReplayStates /\ s.cursor \in Nat /\ s.due \in Nat /\ s.budget \in Nat
      /\ s.elapsed \in Nat /\ s.pausedMs \in Nat /\ s.cursor \in Int /\ s.due \in Int /\ to \in Int
  BY DEF SoundState, ReplayStates
<1>2. CASE to <= s.cursor
  <2>1. t = s
    BY <1>2 DEF Advanced
  <2>2. to >= s.cursor => Between(s.cursor, to) = 0
    BY <1>1, <1>2, BetweenNone
  <2> QED
    BY <1>1, <1>2, <2>1, <2>2
<1>3. CASE to > s.cursor
  <2>0. s.cursor <= to
    BY <1>1, <1>3
  <2>1. span \in Nat /\ span <= to - s.cursor
    BY <1>1, <2>0, BetweenType, BetweenPasses
  <2> HIDE DEF span
  <2>2. CASE s.pauses = {}
    <3>0. PICK e \in Nat : e = s.elapsed + span
      BY <1>1, <2>1
    <3>1. t = [s EXCEPT !.elapsed = e, !.cursor = to]
      BY <1>1, <1>3, <2>2, <3>0 DEF Advanced, span
    <3>2. /\ t \in ReplayStates /\ t.pauses = s.pauses /\ t.due = s.due /\ t.budget = s.budget
          /\ t.left = s.left /\ t.cursor = to /\ t.elapsed = s.elapsed + span
          /\ t.finished = s.finished
      BY <1>1, <3>0, <3>1 DEF ReplayStates
    <3> HIDE DEF t
    <3>3. t.elapsed <= t.cursor
      BY <1>1, <2>1, <3>2 DEF SoundState
    <3>4. Within(t.budget, t.cursor)
      BY <1>1, <1>3, <3>2, WithinLess DEF SoundState
    <3>5. /\ Between(s.cursor, s.due) \in Nat /\ Between(to, s.due) \in Nat
          /\ Between(to, s.due) <= Between(s.cursor, s.due)
      BY <1>1, <2>0, BetweenType, BetweenShrinks
    <3>6. Within(Between(t.cursor, t.due), 0)
      <4>1. Within(Between(s.cursor, s.due), 0)
        BY <2>2 DEF SoundState
      <4> QED
        BY <3>2, <3>5, <4>1, WithinLess
    <3>7. InBudget(s, Between(s.cursor, s.due), s.due <= s.cursor)
      BY <2>2 DEF SoundState
    <3>8. InBudget(t, Between(t.cursor, t.due), t.due <= t.cursor)
      <4>1. CASE to <= s.due
        <5>1. Between(s.cursor, s.due) = span + Between(to, s.due)
          BY <1>1, <2>0, <4>1, BetweenAdds DEF span
        <5> QED
          BY <1>1, <1>3, <2>1, <3>2, <3>5, <3>7, <4>1, <5>1 DEF InBudget
      <4>2. CASE s.cursor <= s.due /\ s.due < to
        <5>1. /\ span = Between(s.cursor, s.due) + Between(s.due, to)
              /\ Between(s.due, to) \in Nat /\ Between(to, s.due) = 0
          <6>1. s.due <= to
            BY <1>1, <4>2
          <6> QED
            BY <1>1, <4>2, <6>1, BetweenAdds, BetweenType, BetweenNone DEF span
        <5> QED
          BY <1>1, <1>3, <2>1, <3>2, <3>5, <3>7, <4>2, <5>1 DEF InBudget
      <4>3. CASE s.due < s.cursor
        <5>1. Between(s.cursor, s.due) = 0 /\ Between(to, s.due) = 0
          BY <1>1, <1>3, <4>3, BetweenNone
        <5> QED
          BY <1>1, <1>3, <2>1, <3>2, <3>5, <3>7, <4>3, <5>1 DEF InBudget
      <4> QED
        BY <1>1, <1>3, <4>1, <4>2, <4>3
    <3>9. SoundState(t)
      BY <2>2, <3>2, <3>3, <3>4, <3>6, <3>8 DEF SoundState
    <3> QED
      BY <1>1, <1>3, <3>2, <3>9 DEF span, t
  <2>3. CASE s.pauses # {}
    <3>0. PICK e \in Nat : e = s.pausedMs + span
      BY <1>1, <2>1
    <3>1. t = [s EXCEPT !.pausedMs = e, !.cursor = to]
      BY <1>1, <1>3, <2>3, <3>0 DEF Advanced, span
    <3>2. /\ t \in ReplayStates /\ t.pauses = s.pauses /\ t.due = s.due /\ t.budget = s.budget
          /\ t.left = s.left /\ t.cursor = to /\ t.elapsed = s.elapsed
          /\ t.finished = s.finished
      BY <1>1, <3>1 DEF ReplayStates
    <3> HIDE DEF t
    <3>3. t.elapsed <= t.cursor
      BY <1>1, <1>3, <3>2 DEF SoundState
    <3>4. Within(t.budget, t.cursor)
      BY <1>1, <1>3, <3>2, WithinLess DEF SoundState
    <3>5. SoundState(t)
      BY <2>3, <3>2, <3>3, <3>4 DEF SoundState, InBudget
    <3> QED
      BY <1>1, <1>3, <2>3, <3>2, <3>5 DEF t
  <2> QED
    BY <2>2, <2>3
<1> QED
  BY <1>1, <1>2, <1>3

\* The first reason takes down what is owed.
LEMMA PausedSound ==
    ASSUME NEW s, SoundState(s), NEW r, r.at = s.cursor, r.reason \in Reasons
    PROVE  /\ SoundState(Paused(s, r))
           /\ Paused(s, r).pauses = s.pauses \cup {r.reason}
           /\ Paused(s, r).due = s.due /\ Paused(s, r).cursor = s.cursor
<1> DEFINE owed == Between(s.cursor, s.due)
           t    == Paused(s, r)
<1>1. /\ s \in ReplayStates /\ s.cursor \in Nat /\ s.due \in Nat
      /\ s.cursor \in Int /\ s.due \in Int
  BY DEF SoundState, ReplayStates
<1>2. owed \in Nat
  BY <1>1, BetweenType
<1>3. t = [s EXCEPT !.pauses = @ \cup {r.reason},
                    !.left = IF s.pauses = {} THEN owed ELSE @]
  BY DEF Paused
<1>4. s.left \in Nat \cup {None}
  BY <1>1 DEF ReplayStates
<1> HIDE DEF owed, t
<1>5. /\ t \in ReplayStates /\ t.pauses = s.pauses \cup {r.reason} /\ t.due = s.due
      /\ t.budget = s.budget /\ t.left = (IF s.pauses = {} THEN owed ELSE s.left)
      /\ t.cursor = s.cursor /\ t.elapsed = s.elapsed /\ t.finished = s.finished
  BY <1>1, <1>2, <1>3, <1>4 DEF ReplayStates
<1>6. IsFiniteSet(t.pauses)
  BY <1>5, FS_AddElement DEF SoundState
<1>7. t.left \in Nat /\ None \notin Nat
  BY <1>1, <1>2, <1>4, <1>5 DEF SoundState, None
<1>8. Within(t.left, 0) /\ InBudget(t, t.left, t.left = 0)
  <2>1. CASE s.pauses = {}
    <3>1. s.due <= s.cursor => owed = 0
      BY <1>1, BetweenNone DEF owed
    <3> QED
      BY <1>5, <2>1, <3>1 DEF SoundState, InBudget, owed
  <2>2. CASE s.pauses # {}
    BY <1>5, <2>2 DEF SoundState, InBudget
  <2> QED
    BY <2>1, <2>2
<1>9. t.left # None <=> t.pauses # {}
  BY <1>5, <1>7
<1>10. SoundState(t)
  BY <1>5, <1>6, <1>8, <1>9 DEF SoundState
<1> QED
  BY <1>5, <1>10 DEF t

\* The last reason lifted sets the deadline by what was owed.
LEMMA ResumedSound ==
    ASSUME Wide, NEW s, SoundState(s), NEW r, r.at = s.cursor
    PROVE  /\ SoundState(Resumed(s, r))
           /\ Resumed(s, r).pauses = s.pauses \ {r.reason}
           /\ Resumed(s, r).due = IF s.pauses # {} /\ s.pauses \ {r.reason} = {}
                                  THEN Plus(s.cursor, s.left) ELSE s.due
           /\ Resumed(s, r).cursor = s.cursor
<1> DEFINE rest == s.pauses \ {r.reason}
           t    == Resumed(s, r)
           deadline == Plus(s.cursor, s.left)
<1>1. /\ s \in ReplayStates /\ s.cursor \in Nat /\ s.due \in Nat /\ s.cursor \in Int
      /\ s.pauses \subseteq Reasons
  BY DEF SoundState, ReplayStates
<1>2. IsFiniteSet(rest) /\ rest \subseteq Reasons
  <2>1. IsFiniteSet(s.pauses) /\ rest \subseteq s.pauses
    BY DEF SoundState
  <2> QED
    BY <1>1, <2>1, FS_Subset
<1>3. s.left # None <=> s.pauses # {}
  BY DEF SoundState
<1>4. CASE s.pauses # {} /\ rest = {}
  <2>1. t = [s EXCEPT !.pauses = rest, !.due = deadline, !.left = None]
    BY <1>3, <1>4 DEF Resumed
  <2>2. s.left \in Nat /\ Within(s.left, 0) /\ InBudget(s, s.left, s.left = 0)
    BY <1>1, <1>3, <1>4 DEF SoundState, ReplayStates
  <2>3. /\ deadline \in Nat /\ deadline >= s.cursor /\ Between(s.cursor, deadline) = s.left
        /\ s.left = 0 => deadline = s.cursor
    <3>1. PICK x \in Priorities : s.left <= Budgets[x]
      BY <2>2, SlaAssumption DEF Within
    <3>2. s.left <= Horizon + 1 + Budgets[x]
      BY <2>2, <3>1, SlaAssumption
    <3> QED
      BY <1>1, <2>2, <3>2, PlusFinds
  <2> HIDE DEF deadline, t
  <2>4. /\ t \in ReplayStates /\ t.pauses = {} /\ t.due = deadline
        /\ t.budget = s.budget /\ t.left = None
        /\ t.cursor = s.cursor /\ t.elapsed = s.elapsed /\ t.finished = s.finished
    BY <1>1, <1>2, <1>4, <2>1, <2>3 DEF ReplayStates
  <2>5. InBudget(t, Between(t.cursor, t.due), t.due <= t.cursor)
    BY <1>1, <2>2, <2>3, <2>4 DEF InBudget
  <2>6. SoundState(t)
    BY <1>2, <1>4, <2>2, <2>3, <2>4, <2>5 DEF SoundState
  <2> QED
    BY <1>4, <2>4, <2>6 DEF t, deadline
<1>5. CASE ~(s.pauses # {} /\ rest = {})
  <2>1. t = [s EXCEPT !.pauses = rest]
    BY <1>3, <1>5 DEF Resumed
  <2>2. rest = {} <=> s.pauses = {}
    BY <1>5
  <2> HIDE DEF t, rest
  <2>3. /\ t \in ReplayStates /\ t.pauses = rest /\ t.due = s.due
        /\ t.budget = s.budget /\ t.left = s.left
        /\ t.cursor = s.cursor /\ t.elapsed = s.elapsed /\ t.finished = s.finished
    BY <1>1, <1>2, <2>1 DEF ReplayStates
  <2>4. SoundState(t)
    BY <1>2, <2>2, <2>3 DEF SoundState, InBudget
  <2> QED
    BY <1>5, <2>3, <2>4 DEF t, rest
<1> QED
  BY <1>4, <1>5

\* A switch grants a new budget, of which all that has elapsed is spent.
LEMMA SwitchedSound ==
    ASSUME NEW s, SoundState(s), NEW r, r.at = s.cursor, r.newDue \in Nat,
           Within(Between(s.cursor, r.newDue), 0)
    PROVE  /\ SoundState(Switched(s, r))
           /\ Switched(s, r).pauses = s.pauses /\ Switched(s, r).due = r.newDue
           /\ Switched(s, r).cursor = s.cursor
<1> DEFINE owed == Between(s.cursor, r.newDue)
           t    == Switched(s, r)
<1>1. s \in ReplayStates /\ s.cursor \in Nat /\ s.elapsed \in Nat /\ s.elapsed <= s.cursor
      /\ s.cursor \in Int /\ r.newDue \in Int /\ s.left \in Nat \cup {None}
  BY DEF SoundState, ReplayStates
<1>2. owed \in Nat
  BY <1>1, BetweenType
<1>0. PICK budget \in Nat : budget = s.elapsed + owed
  BY <1>1, <1>2
<1>3. t = [s EXCEPT !.due = r.newDue, !.budget = budget,
                    !.left = IF s.pauses = {} THEN @ ELSE owed]
  BY <1>0 DEF Switched
<1> HIDE DEF owed, t
<1>4. /\ t \in ReplayStates /\ t.pauses = s.pauses /\ t.due = r.newDue
      /\ t.budget = s.elapsed + owed /\ t.left = (IF s.pauses = {} THEN s.left ELSE owed)
      /\ t.cursor = s.cursor /\ t.elapsed = s.elapsed /\ t.finished = s.finished
  BY <1>1, <1>2, <1>0, <1>3 DEF ReplayStates
<1>5. Within(t.budget, t.cursor)
  <2>1. PICK x \in Priorities : owed <= Budgets[x]
    BY <1>2, SlaAssumption DEF Within, owed
  <2> QED
    BY <1>1, <1>2, <1>4, <2>1, SlaAssumption DEF Within
<1>6. t.left # None <=> t.pauses # {}
  BY <1>2, <1>4 DEF SoundState, None
<1>7. SoundState(t)
  BY <1>1, <1>2, <1>4, <1>5, <1>6 DEF SoundState, InBudget, owed
<1> QED
  BY <1>4, <1>7 DEF t
-----------------------------------------------------------------------------
(* The row and its ledger, and the timer.                                   *)

LEMMA NoneFact == None = -1 /\ None \notin Nat /\ None \in Int
BY DEF None

Clocks == [status : {"running", "paused", "met", "breached", "cancelled"}, due : Nat,
           paused : Nat, breached : Nat \cup {None}, warned : Nat \cup {None},
           timer : Nat \cup {None}, kind : {"none", "breach", "warn", "boundary", "resume"},
           ledger : Seq(LedgerRows)]

Latest(c) == Whole(c.ledger).cursor

BreachesExact(ledger) ==
    \A r \in ToSet(ledger) : r.event = "breach" =>
        LET s == Replay(ledger, r.at) IN s.pauses = {} /\ s.elapsed = s.budget

\* The row of a live clock is what its ledger says.
Lives(c) ==
    LET s == Whole(c.ledger)
    IN  /\ SoundState(s) /\ s.cursor <= Horizon
        /\ \A i \in DOMAIN c.ledger : /\ c.ledger[i].at <= s.cursor
                                      /\ c.ledger[i].event \notin {"breach", "met", "cancel"}
        /\ c.due = s.due /\ (c.status = "paused" <=> s.pauses # {})
        /\ c.breached = None

Kept(c) ==
    /\ c \in Clocks
    /\ BreachesExact(c.ledger)
    /\ c.status \in Live => Lives(c)

\* A timer is not before the rows, and a deadline's timer is the deadline's.
Timed(c) ==
    /\ c.kind = "none" <=> c.timer = None
    /\ c.status \in Live =>
        /\ c.kind \in {"none", "warn", "breach"}
        /\ c.timer # None => c.timer >= Latest(c)
        /\ c.kind = "breach" => c.timer = c.due /\ c.due > Latest(c) /\ c.status = "running"

\* A deadline after the instant has a timer.
ArmedFrom(c, from) ==
    c.status = "running" /\ c.due > from => c.timer # None /\ c.timer <= c.due

Good(c, from) == Kept(c) /\ Timed(c) /\ ArmedFrom(c, from)

\* A share of a budget is no more than the budget.
LEMMA ShareOfBudget ==
    ASSUME NEW b \in Nat, NEW k \in 0..100
    PROVE  (b * k) \div 100 \in Int /\ (b * k) \div 100 <= b
<1>1. b * k \in Nat
  OBVIOUS
<1>2. b * (100 - k) \in Nat /\ b * (100 - k) = b * 100 - b * k
  OBVIOUS
<1>3. b * k <= b * 100
  BY <1>1, <1>2
<1> DEFINE n == b * k
<1>4. n \in Nat /\ n <= b * 100
  BY <1>1, <1>3
<1> HIDE DEF n
<1>5. n \div 100 \in Int /\ n \div 100 <= b
  BY <1>4
<1> QED
  BY <1>5 DEF n

LEMMA WarnTimerFacts ==
    ASSUME Wide, NEW c \in Clocks, NEW s, SoundState(s), NEW from \in 0..(Horizon + 1),
           s.cursor <= from, NEW t \in WarnTimers(c, s, from)
    PROVE  t.at \in Nat /\ t.at >= from /\ t.kind = "warn" /\ s.pauses = {}
           /\ WarnTimers(c, s, from) = {t} /\ t = [at |-> t.at, kind |-> "warn"]
<1> DEFINE unfired == {p \in Warns : c.warned = None \/ WarnAt(s, p) > c.warned}
           first   == CHOOSE p \in unfired : \A q \in unfired : p <= q
           at      == WarnAt(s, first)
           soonest == IF at <= from THEN from ELSE at
<1>1. /\ s.pauses = {} /\ unfired # {}
      /\ WarnTimers(c, s, from) = {[at |-> soonest, kind |-> "warn"]}
  BY DEF WarnTimers
<1>2. first \in Warns
  <2>1. unfired \in SUBSET Nat
    <3>1. unfired \subseteq Warns /\ Warns \subseteq Nat
      BY SlaAssumption
    <3> HIDE DEF unfired
    <3> QED
      BY <3>1
  <2>2. \E p \in unfired : \A q \in unfired : p <= q
    <3> HIDE DEF unfired
    <3> QED
      BY <1>1, <2>1, LeastNatural
  <2>3. first \in unfired
    <3> HIDE DEF unfired
    <3> QED
      BY <2>2
  <2> QED
    BY <2>3
<1> HIDE DEF first, unfired
<1>3. first \in 1..99
  BY <1>2, SlaAssumption
<1>4. s.budget \in Nat /\ s.due \in Nat /\ s.cursor \in Nat /\ Within(s.budget, s.cursor)
  BY DEF SoundState, ReplayStates
<1>5. PICK x \in Priorities : s.budget <= s.cursor + Budgets[x]
  BY <1>4 DEF Within
<1>6. Horizon \in Nat /\ Budgets[x] \in Nat /\ from \in Nat
  BY SlaAssumption
<1>7. PICK k \in 0..100 : k = 100 - first
  BY <1>3
<1> DEFINE share == (s.budget * k) \div 100
<1>8. share \in Int /\ share <= s.budget
  BY <1>4, ShareOfBudget
<1>9. at = Before(s.due, share)
  BY <1>7 DEF WarnAt
<1> HIDE DEF share
<1>10. share <= Horizon + 1 + Budgets[x]
  BY <1>4, <1>5, <1>6, <1>8
<1>11. at \in Int
  <2>1. Before(s.due, share) \in Int
    BY <1>4, <1>8, <1>10, BeforeFinds
  <2> QED
    BY <1>9, <2>1
<1> HIDE DEF at
<1>12. soonest \in Nat /\ soonest >= from
  BY <1>6, <1>11
<1> QED
  BY <1>1, <1>12

\* The timer of an on-time clock: a warning or the deadline, at or after the
\* instant it is sought from, and no later than a deadline ahead.
LEMMA NextTimerFacts ==
    ASSUME Wide, OnTime, NEW c \in Clocks, NEW s, SoundState(s), NEW from \in 0..(Horizon + 1),
           s.cursor <= from
    PROVE  LET t == NextTimer(c, s, from)
           IN  /\ t.at \in Nat \cup {None} /\ t.kind \in {"none", "breach", "warn"}
               /\ t.kind = "none" <=> t.at = None
               /\ t.at # None => t.at >= from
               /\ t.kind = "breach" => t.at = s.due /\ s.due > from /\ s.pauses = {}
               /\ c.status \in Live /\ s.pauses = {} /\ c.breached = None /\ s.due > from
                    => t.at # None /\ t.at <= s.due
<1> DEFINE t        == NextTimer(c, s, from)
           breaches == BreachTimers(c, s, from)
           warns    == WarnTimers(c, s, from)
           Before1(x, y) == x.at < y.at \/ (x.at = y.at /\ Rank[x.kind] <= Rank[y.kind])
           timers   == breaches \cup warns
<1>1. EdgeTimers(s, from) = {}
  BY DEF OnTime, EdgeTimers
<1>2. t = IF c.status \notin Live \/ timers = {} THEN [at |-> None, kind |-> "none"]
          ELSE CHOOSE x \in timers : \A y \in timers : Before1(x, y)
  <2> DEFINE all == IF c.status \notin Live THEN {}
                    ELSE breaches \cup warns \cup EdgeTimers(s, from)
  <2>1. NextTimer(c, s, from) =
           IF all = {} THEN [at |-> None, kind |-> "none"]
           ELSE CHOOSE x \in all : \A y \in all : Before1(x, y)
    BY DEF NextTimer
  <2>2. all = IF c.status \notin Live THEN {} ELSE timers
    BY <1>1
  <2> HIDE DEF all, timers, Before1
  <2> QED
    BY <2>1, <2>2
<1>3. from \in Nat /\ s.due \in Nat /\ Rank["breach"] = 1 /\ Rank["warn"] = 2
  BY SlaAssumption DEF SoundState, ReplayStates, Rank
<1>4. \A x \in breaches : /\ x.at = s.due /\ x.kind = "breach" /\ s.due > from /\ s.pauses = {}
                          /\ breaches = {x}
  BY DEF BreachTimers
<1>5. \A x \in warns : x.at \in Nat /\ x.at >= from /\ x.kind = "warn" /\ warns = {x}
  BY WarnTimerFacts
<1>6. c.status \in Live /\ s.pauses = {} /\ c.breached = None /\ s.due > from => breaches # {}
  BY DEF BreachTimers
<1> HIDE DEF breaches, warns, t
<1>7. timers # {} => \E x \in timers : \A y \in timers : Before1(x, y)
  <2> SUFFICES ASSUME timers # {} PROVE \E x \in timers : \A y \in timers : Before1(x, y)
    OBVIOUS
  <2>1. CASE breaches = {}
    <3>1. PICK w \in warns : warns = {w}
      BY <1>5, <2>1
    <3>2. Before1(w, w)
      BY <1>3, <1>5, <3>1
    <3> HIDE DEF Before1
    <3> QED
      BY <2>1, <3>1, <3>2
  <2>2. CASE warns = {}
    <3>1. PICK b \in breaches : breaches = {b}
      BY <1>4, <2>2
    <3>2. Before1(b, b)
      BY <1>3, <1>4, <3>1
    <3> HIDE DEF Before1
    <3> QED
      BY <2>2, <3>1, <3>2
  <2>3. CASE breaches # {} /\ warns # {}
    <3>1. PICK b \in breaches : breaches = {b}
      BY <1>4, <2>3
    <3>2. PICK w \in warns : warns = {w}
      BY <1>5, <2>3
    <3>3. Before1(b, b) /\ Before1(w, w) /\ (Before1(b, w) \/ Before1(w, b))
      <4>1. b.at \in Nat /\ w.at \in Nat /\ b.kind = "breach" /\ w.kind = "warn"
        BY <1>3, <1>4, <1>5, <3>1, <3>2
      <4> QED
        BY <1>3, <4>1
    <3> HIDE DEF Before1
    <3>4. timers = {b, w}
      BY <3>1, <3>2
    <3> QED
      BY <3>3, <3>4
  <2> QED
    BY <2>1, <2>2, <2>3
<1>8. CASE c.status \notin Live \/ timers = {}
  <2>1. t.at = None /\ t.kind = "none"
    BY <1>2, <1>8
  <2>2. ~(c.status \in Live /\ s.pauses = {} /\ c.breached = None /\ s.due > from)
    BY <1>6, <1>8
  <2> QED
    BY <2>1, <2>2 DEF t
<1>9. CASE c.status \in Live /\ timers # {}
  <2>1. t \in timers /\ \A y \in timers : Before1(t, y)
    <3> HIDE DEF Before1, timers
    <3> QED
      BY <1>2, <1>7, <1>9
  <2>2. /\ t.at \in Nat /\ t.at >= from /\ t.kind \in {"breach", "warn"}
        /\ t.kind = "breach" => t.at = s.due /\ s.due > from /\ s.pauses = {}
    BY <1>3, <1>4, <1>5, <2>1
  <2>3. ASSUME breaches # {} PROVE t.at <= s.due
    <3>1. PICK b \in breaches : b.at = s.due
      BY <1>4, <2>3
    <3>2. Before1(t, b)
      BY <2>1
    <3> QED
      BY <1>3, <2>2, <3>1, <3>2
  <2>4. t.at # None
    BY <2>2, NoneFact
  <2> QED
    BY <1>6, <2>2, <2>3, <2>4 DEF t
<1> QED
  BY <1>8, <1>9
-----------------------------------------------------------------------------
(* What the helpers do to a clock that lives.                               *)

Fresh(c, event, at) ==
    \A i \in DOMAIN c.ledger : c.ledger[i].at = at => c.ledger[i].event # event

\* The replay of a live clock is its whole ledger, and the time since.
LEMMA ReplayLives ==
    ASSUME NEW c \in Clocks, Lives(c), NEW at \in Nat, at >= Latest(c)
    PROVE  LET w == Whole(c.ledger)
               s == Replay(c.ledger, at)
           IN  /\ s = Advanced(w, at) /\ SoundState(s) /\ s.cursor = at /\ s.pauses = w.pauses
               /\ s.due = w.due /\ s.left = w.left /\ s.budget = w.budget
               /\ w.pauses = {} => s.elapsed = w.elapsed + Between(w.cursor, at)
<1> DEFINE w == Whole(c.ledger)
<1>1. /\ SoundState(w) /\ w.cursor \in Nat /\ ~w.finished /\ w.cursor <= at
      /\ \A i \in DOMAIN c.ledger : c.ledger[i].at <= w.cursor
  BY DEF Lives, SoundState, ReplayStates, Latest
<1>2. c.ledger \in Seq(LedgerRows)
  BY DEF Clocks
<1>3. \A i \in DOMAIN c.ledger : c.ledger[i].at <= at
  BY <1>1, <1>2, RowTypes
<1>4. States(c.ledger, at)[Len(c.ledger)] = w
  BY <1>2, <1>3, WholeFromLatest
<1> HIDE DEF w
<1>5. Replay(c.ledger, at) = Advanced(w, at)
  BY <1>1, <1>4 DEF Replay
<1>6. /\ SoundState(Advanced(w, at)) /\ Advanced(w, at).pauses = w.pauses
      /\ Advanced(w, at).due = w.due /\ Advanced(w, at).left = w.left
      /\ Advanced(w, at).budget = w.budget
      /\ Advanced(w, at).cursor = (IF at <= w.cursor THEN w.cursor ELSE at)
      /\ w.pauses = {} => Advanced(w, at).elapsed = w.elapsed + Between(w.cursor, at)
  BY <1>1, AdvancedSound
<1>7. Advanced(w, at).cursor = at
  BY <1>1, <1>6
<1> QED
  BY <1>5, <1>6, <1>7 DEF w

\* A row that is not before the others comes after them, and is replayed last.
LEMMA AppendLives ==
    ASSUME NEW c \in Clocks, Lives(c), NEW row \in LedgerRows, row.at >= Latest(c),
           Fresh(c, row.event, row.at)
    PROVE  LET more == AppendRow(c.ledger, row)
           IN  /\ more \in Seq(LedgerRows)
               /\ Whole(more) = ReplayRow(Whole(c.ledger), row)
               /\ \A i \in DOMAIN more :
                     more[i] = row \/ (i \in DOMAIN c.ledger /\ more[i] = c.ledger[i])
               /\ ToSet(more) = ToSet(c.ledger) \cup {row}
<1> DEFINE ledger == c.ledger
           more   == Append(ledger, row)
<1>1. ledger \in Seq(LedgerRows) /\ row.at \in Nat
  BY SlaAssumption DEF Clocks, LedgerRows
<1>2. Latest(c) \in Nat
  BY DEF Lives, SoundState, ReplayStates, Latest
<1>3. \A i \in DOMAIN ledger : ledger[i].at \in Nat /\ ledger[i].at <= Latest(c)
  BY <1>1, RowTypes DEF Lives, Latest
<1>4. \A i \in DOMAIN ledger : /\ ledger[i].at <= row.at
                               /\ ledger[i].at = row.at => ledger[i].event # row.event
  BY <1>1, <1>2, <1>3 DEF Fresh
<1> HIDE DEF ledger
<1>5. AppendRow(ledger, row) = more
  BY <1>1, <1>4, AppendedLast
<1>6. more \in Seq(LedgerRows)
  BY <1>1
<1>7. Whole(more) = ReplayRow(Whole(ledger), row)
  BY <1>1, WholeOfAppended
<1>8. /\ DOMAIN more = DOMAIN ledger \cup {Len(ledger) + 1} /\ Len(ledger) + 1 \notin DOMAIN ledger
      /\ more[Len(ledger) + 1] = row
      /\ \A i \in DOMAIN ledger : more[i] = ledger[i]
  BY <1>1
<1>9. \A i \in DOMAIN more : more[i] = row \/ (i \in DOMAIN ledger /\ more[i] = ledger[i])
  BY <1>8
<1> HIDE DEF more
<1>10. ToSet(more) = ToSet(ledger) \cup {row}
  BY <1>8 DEF ToSet
<1> QED
  BY <1>5, <1>6, <1>7, <1>9, <1>10 DEF ledger

\* A clock that agrees with a ledger one row longer is kept.
LEMMA RowKept ==
    ASSUME NEW c \in Clocks, Lives(c), NEW row \in LedgerRows, row.at >= Latest(c),
           Fresh(c, row.event, row.at), row.event \in {"pause", "resume", "target_switch"},
           NEW t, t = ReplayRow(Whole(c.ledger), row), SoundState(t), t.cursor = row.at,
           NEW d \in Clocks, d.ledger = AppendRow(c.ledger, row), d.due = t.due,
           d.status \in Live, d.status = "paused" <=> t.pauses # {}, d.breached = None
    PROVE  Kept(d) /\ Latest(d) = row.at
<1> DEFINE more == AppendRow(c.ledger, row)
<1>1. /\ Whole(more) = t /\ ToSet(more) = ToSet(c.ledger) \cup {row}
      /\ \A i \in DOMAIN more : more[i] = row \/ (i \in DOMAIN c.ledger /\ more[i] = c.ledger[i])
  BY AppendLives
<1>2. /\ row.at \in Nat /\ row.at <= Horizon /\ Latest(c) \in Nat /\ Horizon \in Nat
      /\ row.event \notin {"breach", "met", "cancel"}
  BY SlaAssumption DEF LedgerRows, Lives, SoundState, ReplayStates, Latest
<1>3. \A i \in DOMAIN c.ledger : /\ c.ledger[i].at \in Nat /\ c.ledger[i].at <= Latest(c)
                                 /\ c.ledger[i].event \notin {"breach", "met", "cancel"}
  <2>1. c.ledger \in Seq(LedgerRows)
    BY DEF Clocks
  <2> QED
    BY <2>1, RowTypes, SlaAssumption DEF Lives, Latest
<1> HIDE DEF more
<1>4. \A i \in DOMAIN more : /\ more[i].at <= row.at
                             /\ more[i].event \notin {"breach", "met", "cancel"}
  BY <1>1, <1>2, <1>3
<1>5. d.ledger = more
  BY DEF more
<1>6. Lives(d) /\ Latest(d) = row.at
  BY <1>1, <1>2, <1>4, <1>5 DEF Lives, Latest
<1>7. \A r \in ToSet(d.ledger) : r.event # "breach"
  BY <1>4, <1>5 DEF ToSet
<1> QED
  BY <1>6, <1>7 DEF Kept, BreachesExact

\* Arming sets the timer, and nothing else.
LEMMA RearmDone ==
    ASSUME Wide, OnTime, NEW c, Kept(c), NEW from \in 0..(Horizon + 1),
           c.status \in Live => Latest(c) <= from
    PROVE  LET d == Rearm(c, from)
           IN  /\ Good(d, from)
               /\ d.ledger = c.ledger /\ d.status = c.status /\ d.due = c.due
               /\ d.breached = c.breached /\ d.warned = c.warned
               /\ d.timer # None => d.timer >= from
<1> DEFINE s == Replay(c.ledger, from)
           t == NextTimer(c, s, from)
           d == Rearm(c, from)
<1>1. c \in Clocks /\ from \in Nat
  BY SlaAssumption DEF Kept
<1>2. /\ t.at \in Nat \cup {None} /\ t.kind \in {"none", "breach", "warn"}
      /\ t.kind = "none" <=> t.at = None
      /\ t.at # None => t.at >= from
      /\ c.status \in Live =>
          /\ t.kind = "breach" => t.at = c.due /\ c.due > from /\ c.status = "running"
          /\ c.status = "running" /\ c.due > from => t.at # None /\ t.at <= c.due
  <2>1. CASE c.status \in Live
    <3>1. Lives(c) /\ Latest(c) <= from
      BY <2>1 DEF Kept
    <3>2. SoundState(s) /\ s.cursor = from /\ s.pauses = Whole(c.ledger).pauses /\ s.due = c.due
      <4>1. Latest(c) \in Nat /\ from >= Latest(c)
        BY <1>1, <3>1 DEF Lives, SoundState, ReplayStates, Latest
      <4> QED
        BY <1>1, <3>1, <4>1, ReplayLives DEF Lives
    <3>3. s.cursor <= from /\ c.breached = None /\ (c.status = "running" <=> s.pauses = {})
      BY <1>1, <2>1, <3>1, <3>2 DEF Lives, Live
    <3> HIDE DEF s
    <3> QED
      BY <1>1, <2>1, <3>2, <3>3, NextTimerFacts
  <2>2. CASE c.status \notin Live
    <3>1. t = [at |-> None, kind |-> "none"]
      BY <2>2 DEF NextTimer
    <3> QED
      BY <2>2, <3>1
  <2> QED
    BY <2>1, <2>2
<1>3. d = [c EXCEPT !.timer = t.at, !.kind = t.kind]
  BY DEF Rearm, Armed
<1> HIDE DEF s, t, d
<1>4. /\ d \in Clocks /\ d.ledger = c.ledger /\ d.status = c.status /\ d.due = c.due
      /\ d.breached = c.breached /\ d.warned = c.warned /\ d.timer = t.at /\ d.kind = t.kind
  BY <1>1, <1>2, <1>3 DEF Clocks
<1>5. Kept(d)
  BY <1>4 DEF Kept, Lives
<1>6. Timed(d)
  <2>1. Latest(d) = Latest(c)
    BY <1>4 DEF Latest
  <2>2. d.status \in Live => Latest(c) \in Nat
    BY <1>4 DEF Kept, Lives, SoundState, ReplayStates, Latest
  <2> QED
    BY <1>1, <1>2, <1>4, <2>1, <2>2 DEF Timed, Clocks
<1>7. ArmedFrom(d, from)
  BY <1>2, <1>4 DEF ArmedFrom, Live
<1> QED
  BY <1>2, <1>4, <1>5, <1>6, <1>7 DEF Good, d
\* A helper leaves the clock alone, or keeps it with a last row at the instant.
Moved(c, d, at) ==
    \/ d = c
    \/ Good(d, at) /\ (d.status \in Live => Latest(d) = at)

LEMMA PauseGood ==
    ASSUME Wide, OnTime, NEW c, Kept(c), NEW at \in 0..Horizon,
           c.status \in Live => Latest(c) <= at /\ Fresh(c, "pause", at), NEW reason \in Reasons
    PROVE  LET d == Pause(c, c, Replay(c.ledger, at), reason, at)
           IN  /\ Moved(c, d, at)
               /\ Kept(d) /\ (d.status \in Live => Latest(d) <= at)
               /\ (c.status \in Live => Fresh(c, "resume", at))
                    => (d.status \in Live => Fresh(d, "resume", at))
<1> DEFINE s   == Replay(c.ledger, at)
           w   == Whole(c.ledger)
           row == Row("pause", at, reason, None)
           e   == [c EXCEPT !.ledger = AppendRow(@, row), !.status = "paused",
                            !.paused = s.pausedMs]
           d   == Pause(c, c, s, reason, at)
<1>1. CASE c.status \notin Live \/ reason \in s.pauses
  <2>1. d = c
    BY <1>1 DEF Pause
  <2> QED
    BY <2>1 DEF Moved
<1>2. CASE c.status \in Live /\ reason \notin s.pauses
  <2>1. /\ c.status \in Live /\ Fresh(c, "pause", at)
        /\ c \in Clocks /\ Lives(c) /\ Latest(c) <= at /\ at \in Nat
    BY <1>2, SlaAssumption DEF Live, Kept
  <2>2. SoundState(s) /\ s.cursor = at /\ s = Advanced(w, at) /\ s.pausedMs \in Nat
    <3>1. at >= Latest(c)
      BY <2>1 DEF Lives, SoundState, ReplayStates, Latest
    <3>2. SoundState(s) /\ s.cursor = at /\ s = Advanced(w, at)
      BY <2>1, <3>1, ReplayLives
    <3> QED
      BY <3>2 DEF SoundState, ReplayStates
  <2>3. /\ row \in LedgerRows /\ row.event = "pause" /\ row.at = at /\ row.reason = reason
    BY DEF Row, LedgerRows, Events
  <2>4. ~w.finished
    BY <2>1 DEF Lives, SoundState
  <2>5. d = Rearm(e, at)
    BY <1>2 DEF Pause
  <2> HIDE DEF s, w, row, d
  <2>6. ReplayRow(w, row) = Paused(s, row)
    <3>1. Advanced(w, row.at) = s /\ row.event = "pause"
      BY <2>2, <2>3
    <3> QED
      BY <2>4, <3>1 DEF ReplayRow
  <2>7. /\ SoundState(Paused(s, row)) /\ Paused(s, row).pauses # {}
        /\ Paused(s, row).due = s.due /\ Paused(s, row).cursor = at
    <3>1. row.at = s.cursor /\ row.reason \in Reasons
      BY <2>2, <2>3
    <3>2. /\ SoundState(Paused(s, row)) /\ Paused(s, row).pauses = s.pauses \cup {row.reason}
          /\ Paused(s, row).due = s.due /\ Paused(s, row).cursor = s.cursor
      BY <2>2, <3>1, PausedSound
    <3> QED
      BY <2>2, <3>2
  <2>8. LET more == AppendRow(c.ledger, row)
        IN  /\ more \in Seq(LedgerRows)
            /\ \A i \in DOMAIN more :
                  more[i] = row \/ (i \in DOMAIN c.ledger /\ more[i] = c.ledger[i])
    <3>1. row.at >= Latest(c) /\ Fresh(c, row.event, row.at)
      BY <2>1, <2>3 DEF Lives, SoundState, ReplayStates, Latest
    <3> QED
      BY <2>1, <2>3, <3>1, AppendLives
  <2>9. /\ e \in Clocks /\ e.ledger = AppendRow(c.ledger, row) /\ e.status = "paused"
        /\ e.due = c.due /\ e.breached = c.breached
    BY <2>1, <2>2, <2>8 DEF Clocks
  <2> HIDE DEF e
  <2>10. Kept(e) /\ Latest(e) = at
    <3>1. row.at >= Latest(c) /\ Fresh(c, row.event, row.at)
      BY <2>1, <2>3 DEF Lives, SoundState, ReplayStates, Latest
    <3>2. s.due = c.due
      <4>1. at >= Latest(c)
        BY <2>3, <3>1
      <4>2. s.due = w.due
        BY <2>1, <4>1, ReplayLives DEF s, w
      <4> QED
        BY <2>1, <4>2 DEF Lives, w
    <3>3. e.status \in Live /\ c.breached = None
      BY <2>1, <2>9 DEF Live, Lives
    <3> DEFINE t == Paused(s, row)
    <3>4. /\ t = ReplayRow(Whole(c.ledger), row) /\ SoundState(t) /\ t.cursor = row.at
          /\ e.due = t.due /\ t.pauses # {}
      BY <2>3, <2>6, <2>7, <2>9, <3>2 DEF w
    <3> HIDE DEF t
    <3>5. row.event \in {"pause", "resume", "target_switch"}
      BY <2>3
    <3>6. e.ledger = AppendRow(c.ledger, row) /\ e.breached = None
          /\ (e.status = "paused" <=> t.pauses # {})
      BY <2>9, <3>3, <3>4
    <3>7. Kept(e) /\ Latest(e) = row.at
      BY <2>1, <2>3, <2>9, <3>1, <3>3, <3>4, <3>5, <3>6, RowKept
    <3> QED
      BY <2>3, <3>7
  <2>11. at \in 0..(Horizon + 1) /\ (e.status \in Live => Latest(e) <= at)
    BY <2>1, <2>10, SlaAssumption
  <2>12. Good(d, at) /\ d.ledger = e.ledger
    BY <2>5, <2>10, <2>11, RearmDone
  <2>13. Latest(d) = at
    BY <2>10, <2>12 DEF Latest
  <2>14. Fresh(c, "resume", at) => Fresh(d, "resume", at)
    BY <2>3, <2>8, <2>9, <2>12 DEF Fresh
  <2> QED
    BY <2>1, <2>12, <2>13, <2>14 DEF Moved, Good, d, s
<1> QED
  BY <1>1, <1>2

\* The deadline that the last reason lifted gives the row is the replay's.
LEMMA ResumeGood ==
    ASSUME Wide, OnTime, NEW c, Kept(c), NEW at \in 0..Horizon,
           c.status \in Live => Latest(c) <= at /\ Fresh(c, "resume", at), NEW reason \in Reasons
    PROVE  LET d == Resume(c, c, Replay(c.ledger, at), reason, at)
           IN  Moved(c, d, at)
<1> DEFINE s    == Replay(c.ledger, at)
           w    == Whole(c.ledger)
           runs == Cardinality(s.pauses) <= 1
           deadline == Plus(at, Owed(s, at))
           row  == Row("resume", at, reason, IF runs THEN deadline ELSE None)
           e    == [c EXCEPT !.ledger = AppendRow(@, row), !.paused = s.pausedMs,
                             !.status = IF runs THEN "running" ELSE @,
                             !.due = IF runs THEN deadline ELSE @]
           d    == Resume(c, c, s, reason, at)
<1>1. CASE c.status # "paused" \/ reason \notin s.pauses
  <2>1. d = c
    BY <1>1 DEF Resume
  <2> QED
    BY <2>1 DEF Moved
<1>2. CASE c.status = "paused" /\ reason \in s.pauses
  <2>1. /\ c.status \in Live /\ Fresh(c, "resume", at)
        /\ c \in Clocks /\ Lives(c) /\ Latest(c) <= at /\ at \in Nat /\ c.breached = None
    BY <1>2, SlaAssumption DEF Kept, Live, Lives
  <2>2. /\ SoundState(s) /\ s.cursor = at /\ s = Advanced(w, at) /\ s.pausedMs \in Nat
        /\ s.due = c.due /\ s.left \in Nat /\ s.left # None /\ IsFiniteSet(s.pauses)
        /\ Within(s.left, 0)
    <3>1. at >= Latest(c)
      BY <2>1 DEF Lives, SoundState, ReplayStates, Latest
    <3>2. SoundState(s) /\ s.cursor = at /\ s = Advanced(w, at) /\ s.due = w.due
      BY <2>1, <3>1, ReplayLives
    <3>3. s.pauses # {}
      BY <1>2
    <3> HIDE DEF s
    <3> QED
      BY <2>1, <3>2, <3>3, NoneFact DEF Lives, SoundState, ReplayStates
  <2>3. runs <=> s.pauses \ {reason} = {}
    <3> HIDE DEF s
    <3>1. Cardinality(s.pauses \ {reason}) = Cardinality(s.pauses) - 1
      BY <1>2, <2>2, FS_RemoveElement
    <3>2. IsFiniteSet(s.pauses \ {reason}) /\ Cardinality(s.pauses) \in Nat
      BY <2>2, FS_RemoveElement, FS_CardinalityType
    <3>3. Cardinality(s.pauses \ {reason}) \in Nat
      BY <3>2, FS_CardinalityType
    <3>4. Cardinality(s.pauses \ {reason}) = 0 <=> s.pauses \ {reason} = {}
      BY <3>2, FS_EmptySet
    <3> QED
      BY <3>1, <3>2, <3>3, <3>4
  <2>4. deadline = Plus(at, s.left) /\ deadline \in Nat
    <3>1. PICK x \in Priorities : s.left <= Budgets[x]
      BY <2>2, SlaAssumption DEF Within
    <3>2. s.left <= Horizon + 1 + Budgets[x]
      BY <2>2, <3>1, SlaAssumption
    <3>3. Plus(at, s.left) \in Nat
      BY <2>1, <2>2, <3>2, PlusFinds
    <3> QED
      BY <2>2, <3>3 DEF Owed
  <2> HIDE DEF deadline
  <2>5. row \in LedgerRows /\ row.event = "resume" /\ row.at = at /\ row.reason = reason
    BY <2>4 DEF Row, LedgerRows, Events
  <2>6. ~w.finished
    BY <2>1 DEF Lives, SoundState
  <2>7. d = Rearm(e, at)
    BY <1>2 DEF Resume, deadline
  <2>8. reason \in s.pauses /\ c.status = "paused"
    BY <1>2
  <2> HIDE DEF s, w, row, d, runs
  <2>9. ReplayRow(w, row) = Resumed(s, row)
    <3>1. Advanced(w, row.at) = s /\ row.event = "resume"
      BY <2>2, <2>5
    <3> QED
      BY <2>6, <3>1 DEF ReplayRow
  <2>10. /\ SoundState(Resumed(s, row)) /\ Resumed(s, row).pauses = s.pauses \ {reason}
         /\ Resumed(s, row).due = (IF s.pauses \ {reason} = {} THEN deadline ELSE c.due)
         /\ Resumed(s, row).cursor = at
    BY <2>2, <2>4, <2>5, <2>8, ResumedSound
  <2>11. row.at >= Latest(c) /\ Fresh(c, row.event, row.at)
    BY <2>1, <2>5 DEF Lives, SoundState, ReplayStates, Latest
  <2>12. AppendRow(c.ledger, row) \in Seq(LedgerRows)
    BY <2>1, <2>5, <2>11, AppendLives
  <2>13. /\ e \in Clocks /\ e.ledger = AppendRow(c.ledger, row)
         /\ e.status = (IF runs THEN "running" ELSE "paused")
         /\ e.due = (IF runs THEN deadline ELSE c.due) /\ e.breached = None
    BY <2>1, <2>2, <2>4, <2>8, <2>12 DEF Clocks
  <2> HIDE DEF e
  <2>14. Kept(e) /\ Latest(e) = at
    <3> DEFINE t == Resumed(s, row)
    <3>1. /\ t = ReplayRow(Whole(c.ledger), row) /\ SoundState(t) /\ t.cursor = row.at
          /\ e.due = t.due /\ (e.status = "paused" <=> t.pauses # {}) /\ e.status \in Live
      BY <2>3, <2>5, <2>9, <2>10, <2>13 DEF w, Live
    <3> HIDE DEF t
    <3>2. row.event \in {"pause", "resume", "target_switch"}
      BY <2>5
    <3>3. Kept(e) /\ Latest(e) = row.at
      BY <2>1, <2>5, <2>11, <2>13, <3>1, <3>2, RowKept
    <3> QED
      BY <2>5, <3>3
  <2>15. at \in 0..(Horizon + 1) /\ (e.status \in Live => Latest(e) <= at)
    BY <2>1, <2>14, SlaAssumption
  <2>16. Good(d, at) /\ d.ledger = e.ledger
    BY <2>7, <2>14, <2>15, RearmDone
  <2>17. Latest(d) = at
    BY <2>14, <2>16 DEF Latest
  <2> QED
    BY <2>16, <2>17 DEF Moved, d, s
<1> QED
  BY <1>1, <1>2
\* A clock that is met or cancelled leaves no timer.
LEMMA FinishGood ==
    ASSUME Wide, OnTime, NEW c, Kept(c), NEW at \in 0..Horizon,
           c.status \in Live => Latest(c) <= at,
           NEW outcome \in {"met", "cancelled"}, NEW event \in {"met", "cancel"}
    PROVE  LET d == Finish(c, c, Replay(c.ledger, at), outcome, event, at)
           IN  Moved(c, d, at)
<1> DEFINE s   == Replay(c.ledger, at)
           row == Row(event, at, None, None)
           d   == Finish(c, c, s, outcome, event, at)
<1>1. CASE c.status \notin Live
  <2>1. d = c
    BY <1>1 DEF Finish
  <2> QED
    BY <2>1 DEF Moved
<1>2. CASE c.status \in Live
  <2>1. c \in Clocks /\ Lives(c) /\ Latest(c) <= at /\ at \in Nat /\ Latest(c) \in Nat
    BY <1>2, SlaAssumption DEF Kept, Lives, SoundState, ReplayStates, Latest
  <2>2. s.pausedMs \in Nat
    <3>1. SoundState(s)
      BY <2>1, ReplayLives
    <3> QED
      BY <3>1 DEF SoundState, ReplayStates
  <2>3. row \in LedgerRows /\ row.event = event /\ row.at = at
    BY DEF Row, LedgerRows, Events
  <2>4. Fresh(c, event, at)
    BY <2>1 DEF Fresh, Lives
  <2>5. /\ AppendRow(c.ledger, row) \in Seq(LedgerRows)
        /\ ToSet(AppendRow(c.ledger, row)) = ToSet(c.ledger) \cup {row}
    BY <2>1, <2>3, <2>4, AppendLives
  <2>6. d = [c EXCEPT !.ledger = AppendRow(c.ledger, row), !.status = outcome,
                      !.paused = s.pausedMs, !.timer = None, !.kind = "none"]
    BY <1>2 DEF Finish
  <2> HIDE DEF s, row, d
  <2>7. /\ d \in Clocks /\ d.status = outcome /\ d.timer = None /\ d.kind = "none"
        /\ d.ledger = AppendRow(c.ledger, row)
    BY <2>1, <2>2, <2>5, <2>6 DEF Clocks
  <2>8. d.status \notin Live
    BY <2>7 DEF Live
  <2>9. \A r \in ToSet(d.ledger) : r.event # "breach"
    BY <2>1, <2>3, <2>5, <2>7 DEF Lives, ToSet
  <2>10. Good(d, at)
    BY <2>7, <2>8, <2>9 DEF Good, Kept, Timed, ArmedFrom, BreachesExact, Live
  <2> QED
    BY <2>8, <2>10 DEF Moved, d, s
<1> QED
  BY <1>1, <1>2

\* The deadline of another priority is within that priority's budget.
LEMMA SwitchedDueFits ==
    ASSUME Wide, NEW s, SoundState(s), NEW to \in Priorities, policy \in Policies
    PROVE  /\ SwitchedDue(s, to, s.cursor) \in Nat
           /\ Within(Between(s.cursor, SwitchedDue(s, to, s.cursor)), 0)
<1>1. /\ s.cursor \in Nat /\ s.elapsed \in Nat /\ Budgets[to] \in Nat /\ Horizon \in Nat
      /\ s.cursor \in Int /\ 0 \in Nat /\ Budgets[to] \in Int /\ Budgets[to] > 0
  BY SlaAssumption DEF SoundState, ReplayStates
<1>2. SwitchMode \in {"restart", "keep_elapsed", "recompute_from_start"}
  BY SlaAssumption DEF SwitchMode
<1>3. CASE SwitchMode = "restart"
  <2>1. SwitchedDue(s, to, s.cursor) = Plus(s.cursor, Budgets[to])
    BY <1>3 DEF SwitchedDue
  <2>2. Budgets[to] <= Horizon + 1 + Budgets[to]
    BY <1>1
  <2>3. Plus(s.cursor, Budgets[to]) \in Nat
        /\ Between(s.cursor, Plus(s.cursor, Budgets[to])) = Budgets[to]
    BY <1>1, <2>2, PlusFinds
  <2> QED
    BY <1>1, <2>1, <2>3 DEF Within
<1>4. CASE SwitchMode = "keep_elapsed"
  <2> DEFINE n == Budgets[to] - s.elapsed
  <2>1. SwitchedDue(s, to, s.cursor) = Plus(s.cursor, n)
    BY <1>4 DEF SwitchedDue
  <2>2. n \in Int /\ n <= Horizon + 1 + Budgets[to] /\ n <= Budgets[to]
    BY <1>1
  <2> HIDE DEF n
  <2>3. Plus(s.cursor, n) \in Nat
        /\ Between(s.cursor, Plus(s.cursor, n)) = IF n <= 0 THEN 0 ELSE n
    BY <1>1, <2>2, PlusFinds
  <2> QED
    BY <1>1, <2>1, <2>2, <2>3 DEF Within
<1>5. CASE SwitchMode = "recompute_from_start"
  <2>1. SwitchedDue(s, to, s.cursor) = Plus(0, Budgets[to])
    BY <1>5 DEF SwitchedDue
  <2>2. Budgets[to] <= Horizon + 1 + Budgets[to]
    BY <1>1
  <2>3. Plus(0, Budgets[to]) \in Nat /\ Between(0, Plus(0, Budgets[to])) = Budgets[to]
    BY <1>1, <2>2, PlusFinds
  <2>4. Between(s.cursor, Plus(0, Budgets[to])) <= Budgets[to]
    BY <1>1, <2>3, BetweenShrinks
  <2> QED
    BY <1>1, <2>1, <2>3, <2>4 DEF Within
<1> QED
  BY <1>2, <1>3, <1>4, <1>5

LEMMA SwitchGood ==
    ASSUME Wide, OnTime, policy \in Policies, NEW c, Kept(c), NEW at \in 0..Horizon,
           c.status \in Live => Latest(c) <= at /\ Fresh(c, "target_switch", at),
           NEW to \in Priorities
    PROVE  LET d == ChangePriority(c, c, Replay(c.ledger, at), to, at)
           IN  Moved(c, d, at)
<1> DEFINE s   == Replay(c.ledger, at)
           w   == Whole(c.ledger)
           deadline == SwitchedDue(s, to, at)
           row == Row("target_switch", at, None, deadline)
           e   == [c EXCEPT !.ledger = AppendRow(@, row), !.due = deadline, !.warned = None]
           d   == ChangePriority(c, c, s, to, at)
<1>1. CASE c.status \notin Live
  <2>1. d = c
    BY <1>1 DEF ChangePriority
  <2> QED
    BY <2>1 DEF Moved
<1>2. CASE c.status \in Live
  <2>1. /\ c.status \in Live /\ Fresh(c, "target_switch", at)
        /\ c \in Clocks /\ Lives(c) /\ Latest(c) <= at /\ at \in Nat /\ c.breached = None
    BY <1>2, SlaAssumption DEF Live, Kept, Lives
  <2>2. SoundState(s) /\ s.cursor = at /\ s = Advanced(w, at) /\ s.pauses = w.pauses
    <3>1. at >= Latest(c)
      BY <2>1 DEF Lives, SoundState, ReplayStates, Latest
    <3> QED
      BY <2>1, <3>1, ReplayLives
  <2>3. deadline \in Nat /\ Within(Between(s.cursor, deadline), 0)
    <3> HIDE DEF s
    <3> QED
      BY <2>2, SwitchedDueFits
  <2>4. d = Rearm(e, at)
    BY <1>2 DEF ChangePriority
  <2> HIDE DEF deadline
  <2>5. /\ row \in LedgerRows /\ row.event = "target_switch" /\ row.at = at
        /\ row.newDue = deadline
    BY <2>3 DEF Row, LedgerRows, Events
  <2>6. ~w.finished /\ (c.status = "paused" <=> w.pauses # {})
    BY <2>1 DEF Lives, SoundState
  <2> HIDE DEF s, w, row, d
  <2>7. ReplayRow(w, row) = Switched(s, row)
    <3>1. Advanced(w, row.at) = s /\ row.event = "target_switch"
      BY <2>2, <2>5
    <3> QED
      BY <2>6, <3>1 DEF ReplayRow
  <2>8. /\ SoundState(Switched(s, row)) /\ Switched(s, row).pauses = s.pauses
        /\ Switched(s, row).due = deadline /\ Switched(s, row).cursor = at
    BY <2>2, <2>3, <2>5, SwitchedSound
  <2>9. row.at >= Latest(c) /\ Fresh(c, row.event, row.at)
    BY <2>1, <2>5 DEF Lives, SoundState, ReplayStates, Latest
  <2>10. AppendRow(c.ledger, row) \in Seq(LedgerRows)
    BY <2>1, <2>5, <2>9, AppendLives
  <2>11. /\ e \in Clocks /\ e.ledger = AppendRow(c.ledger, row) /\ e.status = c.status
         /\ e.due = deadline /\ e.breached = None
    BY <2>1, <2>3, <2>10 DEF Clocks
  <2> HIDE DEF e
  <2>12. Kept(e) /\ Latest(e) = at
    <3> DEFINE t == Switched(s, row)
    <3>1. /\ t = ReplayRow(Whole(c.ledger), row) /\ SoundState(t) /\ t.cursor = row.at
          /\ e.due = t.due /\ (e.status = "paused" <=> t.pauses # {}) /\ e.status \in Live
      BY <1>2, <2>2, <2>5, <2>6, <2>7, <2>8, <2>11 DEF w
    <3> HIDE DEF t
    <3>2. row.event \in {"pause", "resume", "target_switch"}
      BY <2>5
    <3>3. Kept(e) /\ Latest(e) = row.at
      BY <2>1, <2>5, <2>9, <2>11, <3>1, <3>2, RowKept
    <3> QED
      BY <2>5, <3>3
  <2>13. at \in 0..(Horizon + 1) /\ (e.status \in Live => Latest(e) <= at)
    BY <2>1, <2>12, SlaAssumption
  <2>14. Good(d, at) /\ d.ledger = e.ledger
    BY <2>4, <2>12, <2>13, RearmDone
  <2>15. Latest(d) = at
    BY <2>12, <2>14 DEF Latest
  <2> QED
    BY <2>14, <2>15 DEF Moved, d, s
<1> QED
  BY <1>1, <1>2

-----------------------------------------------------------------------------
(* The ticker's steps.                                                      *)

\* A breach is recorded at the deadline, when the budget has been spent.
LEMMA BreachGood ==
    ASSUME Wide, OnTime, NEW c, Kept(c), Timed(c), NEW upTo \in 0..Horizon, IsDue(c, upTo),
           c.kind = "breach"
    PROVE  LET d == Breach(c, c, Replay(c.ledger, upTo), c.timer)
           IN  Kept(d) /\ d.status \notin Live
<1> DEFINE s   == Replay(c.ledger, upTo)
           w   == Whole(c.ledger)
           at  == c.timer
           row == Row("breach", at, None, s.due)
           d   == Breach(c, c, s, at)
           more == AppendRow(c.ledger, row)
<1>1. /\ c \in Clocks /\ Lives(c) /\ c.breached = None /\ c.status \in Live
      /\ c.timer # None /\ c.timer <= upTo /\ c.timer \in Nat
  BY DEF IsDue, Kept, Lives, Clocks
<1>2. /\ at = c.due /\ w.due = at /\ at > w.cursor /\ w.pauses = {}
      /\ SoundState(w) /\ ~w.finished /\ w.cursor \in Nat /\ w.elapsed \in Nat /\ w.budget \in Nat
  BY <1>1 DEF Timed, Lives, SoundState, ReplayStates, Latest
<1>3. upTo \in Nat /\ upTo <= Horizon /\ at \in 0..Horizon /\ Horizon \in Nat
  BY <1>1, SlaAssumption
<1>4. s.due = at
  <2>1. upTo >= Latest(c)
    BY <1>1, <1>2, <1>3 DEF Latest
  <2>2. s.due = w.due
    BY <1>1, <1>3, <2>1, ReplayLives
  <2> QED
    BY <1>2, <2>2
<1> HIDE DEF s
<1>5. row \in LedgerRows /\ row.event = "breach" /\ row.at = at
  BY <1>1, <1>3, <1>4 DEF Row, LedgerRows, Events
<1> HIDE DEF row
<1>6. /\ more \in Seq(LedgerRows) /\ Whole(more) = ReplayRow(w, row)
      /\ \A i \in DOMAIN more : more[i] = row \/ (i \in DOMAIN c.ledger /\ more[i] = c.ledger[i])
      /\ ToSet(more) = ToSet(c.ledger) \cup {row}
  <2>1. row.at >= Latest(c) /\ Fresh(c, row.event, row.at)
    BY <1>1, <1>2, <1>3, <1>5 DEF Fresh, Lives, Latest
  <2> QED
    BY <1>1, <1>5, <2>1, AppendLives
<1>7. d = [c EXCEPT !.ledger = more, !.status = "breached", !.breached = at]
  BY <1>1 DEF Breach, row
<1> HIDE DEF more, d
<1>8. /\ d \in Clocks /\ d.ledger = more /\ d.status = "breached"
  BY <1>1, <1>6, <1>7 DEF Clocks
<1>9. ReplayRow(w, row) = Advanced(w, at)
  <2> HIDE DEF w, at
  <2>1. /\ row.event # "start" /\ row.event # "pause" /\ row.event # "resume"
        /\ row.event # "target_switch" /\ row.event \notin {"met", "cancel"}
    BY <1>5
  <2> QED
    BY <1>2, <1>5, <2>1 DEF ReplayRow
<1> DEFINE t == Advanced(w, at)
<1>10. /\ SoundState(t) /\ t.pauses = {} /\ t.cursor = at /\ t.budget = w.budget
       /\ t.elapsed = w.elapsed + Between(w.cursor, at)
  <2>1. at \in Nat /\ at >= w.cursor /\ ~(at <= w.cursor)
    BY <1>1, <1>2
  <2> QED
    BY <1>2, <2>1, AdvancedSound
<1>11. t.elapsed = t.budget
  <2>1. InBudget(w, Between(w.cursor, w.due), w.due <= w.cursor)
    BY <1>2 DEF SoundState
  <2> HIDE DEF w, t, at
  <2>2. w.elapsed + Between(w.cursor, at) = w.budget
    BY <1>2, <1>3, <2>1 DEF InBudget
  <2> QED
    BY <1>10, <2>2
<1> HIDE DEF t
<1>12. Replay(more, at) = t
  <2>1. \A i \in DOMAIN more : more[i].at <= at
    <3>1. \A i \in DOMAIN c.ledger : c.ledger[i].at \in Nat /\ c.ledger[i].at <= w.cursor
      <4>1. c.ledger \in Seq(LedgerRows)
        BY <1>1 DEF Clocks
      <4> QED
        BY <1>1, <4>1, RowTypes, SlaAssumption DEF Lives
    <3> QED
      BY <1>1, <1>2, <1>5, <1>6, <3>1
  <2>2. States(more, at)[Len(more)] = t
    BY <1>1, <1>6, <1>9, <2>1, WholeFromLatest DEF t
  <2>3. ~t.finished /\ at <= t.cursor
    BY <1>1, <1>10 DEF SoundState
  <2> QED
    BY <2>2, <2>3 DEF Replay, Advanced
<1>13. \A r \in ToSet(d.ledger) : r.event = "breach" => r.at = at
  BY <1>1, <1>5, <1>6, <1>8 DEF Lives, ToSet
<1>14. BreachesExact(d.ledger)
  BY <1>8, <1>10, <1>11, <1>12, <1>13 DEF BreachesExact
<1> QED
  BY <1>8, <1>14 DEF Kept, Live, d, s
\* A timer fires at its own instant, and the next is sought after it.
LEMMA FireGood ==
    ASSUME Wide, OnTime, NEW c, Kept(c), Timed(c), NEW upTo \in 0..Horizon, IsDue(c, upTo)
    PROVE  LET d == Fire(c, c, upTo)
           IN  Good(d, upTo + 1) /\ (d.status \in Live => d.ledger = c.ledger)
<1> DEFINE at == c.timer
           x  == CASE c.kind = "breach" -> Breach(c, c, Replay(c.ledger, upTo), at)
                   [] c.kind = "warn" -> [c EXCEPT !.warned = at]
                   [] c.kind = "boundary" ->
                        Pause(c, c, Replay(c.ledger, upTo), "outside_hours", at)
                   [] c.kind = "resume" ->
                        Resume(c, c, Replay(c.ledger, upTo), "outside_hours", at)
           d  == Fire(c, c, upTo)
<1>1. /\ c \in Clocks /\ c.status \in Live /\ at \in Nat /\ at <= upTo /\ at >= Latest(c)
      /\ c.kind \in {"breach", "warn"} /\ Lives(c)
  BY DEF IsDue, Kept, Timed, Clocks
<1>2. upTo \in Nat /\ upTo <= Horizon /\ Horizon \in Nat /\ Latest(c) \in Nat
  BY <1>1, SlaAssumption DEF Lives, SoundState, ReplayStates, Latest
<1>3. d = Rearm(x, at + 1)
  BY DEF Fire
<1>4. /\ Kept(x) /\ (x.status \in Live => Latest(x) <= at + 1 /\ x.ledger = c.ledger)
  <2>1. CASE c.kind = "breach"
    <3>1. x = Breach(c, c, Replay(c.ledger, upTo), c.timer)
      BY <2>1
    <3>2. Kept(x) /\ x.status \notin Live
      BY <2>1, <3>1, BreachGood
    <3> QED
      BY <3>2
  <2>2. CASE c.kind = "warn"
    <3>1. x = [c EXCEPT !.warned = at]
      BY <2>2
    <3> HIDE DEF x
    <3>2. /\ x \in Clocks /\ x.ledger = c.ledger /\ x.status = c.status /\ x.due = c.due
          /\ x.breached = c.breached
      BY <1>1, <3>1 DEF Clocks
    <3>3. Kept(x)
      BY <1>1, <3>2 DEF Kept, Lives
    <3>4. Latest(x) = Latest(c)
      BY <3>2 DEF Latest
    <3> QED
      BY <1>1, <1>2, <3>2, <3>3, <3>4
  <2> QED
    BY <1>1, <2>1, <2>2
<1> HIDE DEF x, d
<1>5. at + 1 \in 0..(Horizon + 1)
  BY <1>1, <1>2
<1>6. Good(d, at + 1) /\ d.ledger = x.ledger /\ d.status = x.status
  BY <1>3, <1>4, <1>5, RearmDone
<1>7. ArmedFrom(d, upTo + 1)
  <2>1. d.due \in Nat
    BY <1>6 DEF Good, Kept, Clocks
  <2> QED
    BY <1>1, <1>2, <1>6, <2>1 DEF Good, ArmedFrom
<1> QED
  BY <1>4, <1>6, <1>7 DEF Good, d

Round(d, upTo) == IF IsDue(d, upTo) THEN Fire(d, d, upTo) ELSE d

AreRounds(c, upTo, fired, n) ==
    fired = [m \in 0..n |-> IF m = 0 THEN Fire(c, c, upTo) ELSE Round(fired[m - 1], upTo)]

LEMMA RoundsExist ==
    ASSUME NEW c, NEW upTo
    PROVE  \A n \in Nat : \E fired : AreRounds(c, upTo, fired, n)
<1> DEFINE S == {n \in Nat : \E fired : AreRounds(c, upTo, fired, n)}
           First == Fire(c, c, upTo)
           After(d) == Round(d, upTo)
<1>1. 0 \in S
  <2>1. AreRounds(c, upTo, [m \in 0..0 |-> First], 0)
    BY DEF AreRounds
  <2> QED
    BY <2>1
<1>2. ASSUME NEW n \in Nat, n \in S PROVE n + 1 \in S
  <2>1. PICK fired : AreRounds(c, upTo, fired, n)
    BY <1>2
  <2> DEFINE next == [m \in 0..(n + 1) |-> IF m = n + 1 THEN After(fired[n]) ELSE fired[m]]
  <2>2. \A m \in 0..n : fired[m] = IF m = 0 THEN First ELSE After(fired[m - 1])
    BY <2>1 DEF AreRounds
  <2> HIDE DEF After, First
  <2>3. \A m \in 0..n : next[m] = fired[m]
    OBVIOUS
  <2>4. next[n + 1] = After(fired[n]) /\ next = [m \in 0..(n + 1) |-> next[m]]
    OBVIOUS
  <2> HIDE DEF next
  <2>5. ASSUME NEW m \in 0..(n + 1)
        PROVE  next[m] = IF m = 0 THEN First ELSE After(next[m - 1])
    <3>1. CASE m = 0
      BY <2>2, <2>3, <3>1
    <3>2. CASE m \in 1..n
      <4>1. m \in 0..n /\ m - 1 \in 0..n /\ m # 0
        BY <3>2
      <4> QED
        BY <2>2, <2>3, <4>1
    <3>3. CASE m = n + 1
      <4>1. n \in 0..n /\ m - 1 = n /\ m # 0
        BY <3>3
      <4> QED
        BY <2>3, <2>4, <3>3, <4>1
    <3> QED
      BY <3>1, <3>2, <3>3
  <2>6. next = [m \in 0..(n + 1) |-> IF m = 0 THEN First ELSE After(next[m - 1])]
    BY <2>4, <2>5
  <2>7. AreRounds(c, upTo, next, n + 1)
    BY <2>6 DEF AreRounds, After, First
  <2> QED
    BY <2>7
<1> HIDE DEF S
<1>3. \A n \in Nat : n \in S
  BY <1>1, <1>2, NatSetInduction
<1> QED
  BY <1>3 DEF S

\* However many timers are overdue, each round leaves a good clock.
LEMMA AdvanceGood ==
    ASSUME Wide, OnTime, NEW c, Kept(c), Timed(c), NEW upTo \in 0..Horizon, IsDue(c, upTo)
    PROVE  LET d == AdvanceInstance(c, c, upTo)
           IN  Good(d, upTo + 1) /\ (d.status \in Live => d.ledger = c.ledger)
<1> DEFINE fired == CHOOSE f : f = [m \in 0..upTo |->
                        IF m = 0 THEN Fire(c, c, upTo)
                        ELSE LET d == f[m - 1] IN IF IsDue(d, upTo) THEN Fire(d, d, upTo) ELSE d]
           last  == fired[upTo]
           After(d) == Good(d, upTo + 1) /\ (d.status \in Live => d.ledger = c.ledger)
<1>1. AdvanceInstance(c, c, upTo) =
          IF last.status \in Live THEN last ELSE Armed(last, [at |-> None, kind |-> "none"])
  BY DEF AdvanceInstance
<1>2. AreRounds(c, upTo, fired, upTo)
  <2>1. fired = CHOOSE f : AreRounds(c, upTo, f, upTo)
    BY DEF AreRounds, Round
  <2>2. \E f : AreRounds(c, upTo, f, upTo)
    <3>1. upTo \in Nat
      BY SlaAssumption
    <3> QED
      BY <3>1, RoundsExist
  <2> HIDE DEF fired
  <2> QED
    BY <2>1, <2>2
<1> HIDE DEF fired
<1>3. /\ \A m \in 0..upTo : fired[m] = IF m = 0 THEN Fire(c, c, upTo)
                                        ELSE Round(fired[m - 1], upTo)
      /\ upTo \in Nat
  BY <1>2, SlaAssumption DEF AreRounds
<1> DEFINE S == {n \in Nat : n <= upTo => After(fired[n])}
<1>4. 0 \in S
  <2>1. After(Fire(c, c, upTo))
    BY FireGood
  <2>2. fired[0] = Fire(c, c, upTo)
    BY <1>3
  <2> HIDE DEF After
  <2> QED
    BY <2>1, <2>2
<1>5. ASSUME NEW n \in Nat, n \in S PROVE n + 1 \in S
  <2> SUFFICES ASSUME n + 1 <= upTo PROVE After(fired[n + 1])
    OBVIOUS
  <2> DEFINE d == fired[n]
  <2>1. After(d)
    BY <1>3, <1>5
  <2>2. fired[n + 1] = Round(d, upTo)
    <3>1. n + 1 \in 0..upTo /\ n + 1 # 0 /\ (n + 1) - 1 = n
      BY <1>3
    <3> QED
      BY <1>3, <3>1
  <2> HIDE DEF d
  <2>3. CASE IsDue(d, upTo)
    <3>1. Round(d, upTo) = Fire(d, d, upTo)
      BY <2>3 DEF Round
    <3>2. Kept(d) /\ Timed(d)
      BY <2>1 DEF Good
    <3>3. /\ Good(Fire(d, d, upTo), upTo + 1)
          /\ Fire(d, d, upTo).status \in Live => Fire(d, d, upTo).ledger = d.ledger
      BY <2>3, <3>2, FireGood
    <3>4. d.ledger = c.ledger
      BY <2>1, <2>3 DEF IsDue
    <3> QED
      BY <2>2, <3>1, <3>3, <3>4
  <2>4. CASE ~IsDue(d, upTo)
    <3>1. Round(d, upTo) = d
      BY <2>4 DEF Round
    <3> QED
      BY <2>1, <2>2, <3>1
  <2> QED
    BY <2>3, <2>4
<1> HIDE DEF S
<1>6. \A n \in Nat : n \in S
  BY <1>4, <1>5, NatSetInduction
<1>7. After(last)
  BY <1>3, <1>6 DEF S
<1> HIDE DEF last
<1>8. CASE last.status \in Live
  BY <1>1, <1>7, <1>8
<1>9. CASE last.status \notin Live
  <2> DEFINE d == [last EXCEPT !.timer = None, !.kind = "none"]
  <2>1. AdvanceInstance(c, c, upTo) = d
    BY <1>1, <1>9 DEF Armed
  <2>2. last \in Clocks /\ BreachesExact(last.ledger)
    BY <1>7 DEF Good, Kept
  <2>3. /\ d \in Clocks /\ d.ledger = last.ledger /\ d.status = last.status
        /\ d.timer = None /\ d.kind = "none"
    BY <2>2 DEF Clocks
  <2> HIDE DEF d
  <2>4. Good(d, upTo + 1) /\ d.status \notin Live
    BY <1>9, <2>2, <2>3 DEF Good, Kept, Timed, ArmedFrom, Live
  <2> QED
    BY <2>1, <2>4
<1> QED
  BY <1>8, <1>9
-----------------------------------------------------------------------------
(* The clock's invariant.                                                   *)

\* What is proved of: transactions one at a time, a ticket that starts in a
\* category that runs, and a target without outside_hours and without both of the
\* reasons a device can give at one instant.
Plain ==
    /\ ~Overlap
    /\ Outcome[FirstCategory] = "run"
    /\ OnTime
    /\ ~({"device_offline", "maintenance_window"} \subseteq PauseSources)

Args == Categories \cup Priorities \cup CiStates
           \cup {"first", "ticket", "manual", "unarmed", "due"}

Transactions == [op : RequestOps \cup {"arm", "tick"}, arg : Args, at : Nat, seen : Clocks]

\* Transaction p of an actor has loaded the clock as it still is, after its rows.
Fits(a, p) ==
    /\ p.seen = clock /\ p.at \in asked..now
    /\ a = Ticker => p.op \in {"arm", "tick"} /\ (p.op = "tick" => IsDue(clock, p.at))
    /\ a # Ticker => /\ p.op \in RequestOps
                     /\ clock.status \in Live => Latest(clock) < p.at
                     /\ p.at = asked
                     /\ p.op = "category" => p.arg \in Categories
                     /\ p.op = "priority" => p.arg \in Priorities

OpenFits ==
    /\ pend \in [Actors -> {Idle} \cup Transactions]
    /\ \A a \in Actors : pend[a] # Idle => Fits(a, pend[a])
    /\ \A a, b \in Actors : pend[a] # Idle /\ pend[b] # Idle => a = b

Rest ==
    /\ policy \in Policies
    /\ now \in 0..Horizon
    /\ ticker \in {"down", "catchup", "up"}
    /\ category \in Categories /\ priority \in Priorities
    /\ asked \in 0..now /\ ops \in 0..MaxOps /\ stops \in 0..MaxStops

ClockInv ==
    /\ Good(clock, now + 1)
    /\ clock.status \in Live => Latest(clock) <= asked

SlaInv == Rest /\ ClockInv /\ OpenFits

\* A clock armed from an instant is armed from any later one.
LEMMA GoodLater ==
    ASSUME NEW c, NEW from \in Nat, Good(c, from), NEW later \in Nat, from <= later
    PROVE  Good(c, later)
<1>1. c.due \in Nat
  BY DEF Good, Kept, Clocks
<1> QED
  BY <1>1 DEF Good, ArmedFrom

\* The clock the ticket starts with.
LEMMA FirstClockGood ==
    ASSUME Wide, Plain, policy \in Policies
    PROVE  Good(FirstClock, 1) /\ FirstClock.status = "running" /\ Latest(FirstClock) = 0
<1> DEFINE deadline == Plus(0, Budgets[FirstPriority])
           row   == Row("start", 0, None, deadline)
           start == <<row>>
           t     == [Blank EXCEPT !.due = deadline, !.budget = Budgets[FirstPriority]]
           c     == [status |-> "running", due |-> deadline, paused |-> 0, breached |-> None,
                     warned |-> None, timer |-> None, kind |-> "none", ledger |-> start]
<1>1. FirstClock = Rearm(c, 0)
  BY DEF FirstClock, Plain
<1>2. /\ Horizon \in Nat /\ Budgets[FirstPriority] \in Nat /\ FirstPriority \in Priorities
      /\ Budgets[FirstPriority] > 0
      /\ Budgets[FirstPriority] <= Horizon + 1 + Budgets[FirstPriority]
      /\ 0 \in Nat
  BY SlaAssumption
<1>3. deadline \in Nat /\ deadline > 0 /\ Between(0, deadline) = Budgets[FirstPriority]
  BY <1>2, PlusFinds
<1> HIDE DEF deadline
<1>4. row \in LedgerRows /\ row.at = 0 /\ row.event = "start" /\ row.newDue = deadline
  BY <1>2, <1>3 DEF LedgerRows, Row, Events
<1> HIDE DEF row
<1>5. start \in Seq(LedgerRows) /\ Len(start) = 1 /\ start[1] = row /\ DOMAIN start = {1}
  BY <1>4
<1> HIDE DEF start
<1>6. Whole(start) = ReplayRow(Blank, row)
  <2> DEFINE f == States(start, Horizon + 1)
  <2>1. Len(start) \in Nat
    BY <1>5
  <2>2. /\ f[0] = Blank
        /\ \A n \in 1..Len(start) : f[n] = IF start[n].at > Horizon + 1 THEN f[n - 1]
                                           ELSE ReplayRow(f[n - 1], start[n])
    BY <2>1, StatesByRow
  <2>3. Whole(start) = f[1]
    BY <1>5 DEF Whole
  <2> HIDE DEF f
  <2>4. 1 \in 1..Len(start) /\ ~(start[1].at > Horizon + 1) /\ 1 - 1 = 0
    BY <1>2, <1>4, <1>5
  <2>5. f[1] = ReplayRow(f[0], start[1])
    BY <2>2, <2>4
  <2> QED
    BY <1>5, <2>2, <2>3, <2>5
<1>7. ReplayRow(Blank, row) = t
  <2>1. Advanced(Blank, 0) = Blank /\ ~Blank.finished
    BY DEF Advanced, Blank
  <2>2. ReplayRow(Blank, row) = Started(Blank, row)
    BY <1>4, <2>1 DEF ReplayRow
  <2> QED
    BY <1>3, <1>4, <2>2 DEF Started
<1>8. /\ t \in ReplayStates /\ t.elapsed = 0 /\ t.pauses = {} /\ t.due = deadline
      /\ t.budget = Budgets[FirstPriority] /\ t.left = None /\ t.cursor = 0 /\ ~t.finished
  BY <1>2, <1>3 DEF Blank, ReplayStates
<1> HIDE DEF t
<1>9. SoundState(t)
  <2>1. Within(Budgets[FirstPriority], 0)
    BY <1>2 DEF Within
  <2> QED
    BY <1>2, <1>3, <1>8, <2>1, FS_EmptySet DEF SoundState, InBudget
<1>10. Kept(c) /\ Latest(c) = 0 /\ c.status = "running"
  <2>1. /\ c \in Clocks /\ c.ledger = start /\ c.status = "running" /\ c.due = deadline
        /\ c.breached = None
    BY <1>2, <1>3, <1>5 DEF Clocks
  <2> HIDE DEF c
  <2>2. Whole(c.ledger) = t
    BY <1>6, <1>7, <2>1
  <2>3. Lives(c)
    BY <1>2, <1>4, <1>5, <1>8, <1>9, <2>1, <2>2 DEF Lives
  <2>4. BreachesExact(c.ledger)
    BY <1>4, <1>5, <2>1 DEF BreachesExact, ToSet
  <2> QED
    BY <1>8, <2>1, <2>2, <2>3, <2>4 DEF Kept, Latest
<1> HIDE DEF c
<1>11. 0 \in 0..(Horizon + 1) /\ (c.status \in Live => Latest(c) <= 0)
  BY <1>2, <1>10
<1>12. /\ Good(FirstClock, 0) /\ FirstClock.ledger = c.ledger /\ FirstClock.status = c.status
  BY <1>1, <1>10, <1>11, RearmDone DEF Plain
<1> QED
  BY <1>10, <1>12, GoodLater DEF Latest

LEMMA SlaInvInit ==
    ASSUME Wide, Plain, SlaInit
    PROVE  SlaInv
<1>1. /\ Horizon \in Nat /\ MaxOps \in Nat /\ MaxStops \in Nat
      /\ FirstCategory \in Categories /\ FirstPriority \in Priorities
  BY SlaAssumption
<1>2. Rest
  BY <1>1 DEF Rest, SlaInit
<1>3. ClockInv
  <2>1. clock = FirstClock /\ now = 0 /\ asked = 0 /\ policy \in Policies
    BY DEF SlaInit
  <2>2. Good(FirstClock, 1) /\ Latest(FirstClock) = 0
    BY <2>1, FirstClockGood
  <2> QED
    BY <2>1, <2>2 DEF ClockInv
<1>4. OpenFits
  BY DEF SlaInit, OpenFits
<1> QED
  BY <1>2, <1>3, <1>4 DEF SlaInv
\* A request leaves the clock alone or good, whatever it asks.
LEMMA ServedGood ==
    ASSUME Wide, Plain, SlaInv, NEW a \in Actors, pend[a] # Idle, a # Ticker
    PROVE  Moved(clock, Served(pend[a]), pend[a].at)
<1> DEFINE p  == pend[a]
           c  == clock
           at == p.at
           s  == Replay(c.ledger, at)
<1>0. SUFFICES Moved(c, Served(p), at)
  OBVIOUS
<1>1. /\ p.seen = c /\ at \in 0..Horizon /\ at \in Nat /\ p.op \in RequestOps
      /\ c.status \in Live => Latest(c) < at
      /\ p.op = "category" => p.arg \in Categories
      /\ p.op = "priority" => p.arg \in Priorities
  <2>1. Fits(a, p) /\ asked \in Nat /\ now \in 0..Horizon
    BY SlaAssumption DEF SlaInv, OpenFits, Rest
  <2> HIDE DEF p
  <2> QED
    BY <2>1, SlaAssumption DEF Fits
<1>2. Kept(c) /\ category \in Categories /\ policy \in Policies
  BY DEF SlaInv, ClockInv, Good, Rest
<1>3. OnTime /\ ~({"device_offline", "maintenance_window"} \subseteq PauseSources)
  BY DEF Plain
<1> HIDE DEF p
<1>4. ASSUME c.status \in Live PROVE Latest(c) <= at /\ \A event : Fresh(c, event, at)
  <2>1. c \in Clocks /\ Lives(c) /\ Latest(c) < at
    BY <1>1, <1>2, <1>4 DEF Kept
  <2>2. Latest(c) \in Nat /\ c.ledger \in Seq(LedgerRows)
    BY <2>1 DEF Lives, SoundState, ReplayStates, Latest, Clocks
  <2>3. \A i \in DOMAIN c.ledger : c.ledger[i].at \in Nat /\ c.ledger[i].at <= Latest(c)
    <3>1. \A i \in DOMAIN c.ledger : c.ledger[i].at \in 0..Horizon
      BY <2>2, RowTypes
    <3> QED
      BY <2>1, <3>1, SlaAssumption DEF Lives, Latest
  <2> QED
    BY <1>1, <2>1, <2>2, <2>3 DEF Fresh
<1>5. ASSUME NEW reason \in Reasons
      PROVE  /\ Moved(c, Pause(c, c, s, reason, at), at)
             /\ Kept(Pause(c, c, s, reason, at))
             /\ Pause(c, c, s, reason, at).status \in Live =>
                   /\ Latest(Pause(c, c, s, reason, at)) <= at
                   /\ Fresh(Pause(c, c, s, reason, at), "resume", at)
             /\ Moved(c, Resume(c, c, s, reason, at), at)
  <2>1. c.status \in Live => Latest(c) <= at /\ Fresh(c, "pause", at)
    BY <1>4
  <2>2. c.status \in Live => Latest(c) <= at /\ Fresh(c, "resume", at)
    BY <1>4
  <2>3. Moved(c, Resume(c, c, s, reason, at), at)
    BY <1>1, <1>2, <1>3, <2>2, ResumeGood
  <2> DEFINE d == Pause(c, c, s, reason, at)
  <2>4. /\ Moved(c, d, at) /\ Kept(d) /\ (d.status \in Live => Latest(d) <= at)
        /\ (c.status \in Live => Fresh(c, "resume", at))
             => (d.status \in Live => Fresh(d, "resume", at))
    BY <1>1, <1>2, <1>3, <2>1, PauseGood
  <2> HIDE DEF d
  <2>5. Moved(c, d, at) /\ Kept(d)
        /\ (d.status \in Live => Latest(d) <= at /\ Fresh(d, "resume", at))
    BY <2>2, <2>4
  <2> QED
    BY <2>3, <2>5 DEF d
<1>6. Moved(c, Meet(c, c, s, at), at) /\ Moved(c, Cancel(c, c, s, at), at)
  <2>1. c.status \in Live => Latest(c) <= at
    BY <1>4
  <2> QED
    BY <1>1, <1>2, <1>3, <2>1, FinishGood DEF Meet, Cancel
<1>7. Served(p) =
          CASE p.op = "category" -> ChangeCategory(c, c, s, category, p.arg, at)
            [] p.op = "priority" -> ChangePriority(c, c, s, p.arg, at)
            [] p.op = "reply"    -> IF StopsOnReply /\ ~AutoResolved(at)
                                    THEN Meet(c, c, s, at) ELSE c
            [] p.op = "cancel"   -> Cancel(c, c, s, at)
            [] p.op = "device"   -> ChangeDevice(c, c, s, p.arg, at)
            [] p.op = "pause"    -> Pause(c, c, s, "manual", at)
            [] p.op = "resume"   -> Resume(c, c, s, "manual", at)
  BY <1>1 DEF Served, Replayed
<1>8. Moved(c, c, at)
  BY DEF Moved
<1>9. "manual" \in Reasons /\ "device_offline" \in Reasons /\ Categories \subseteq Reasons
  BY DEF Reasons
<1>10. CASE p.op = "category"
  <2> DEFINE to == p.arg
             d  == Pause(c, c, s, to, at)
             t  == Replay(d.ledger, at)
             e  == Resume(d, d, t, category, at)
  <2>1. Served(p) = ChangeCategory(c, c, s, category, to, at)
    BY <1>7, <1>10
  <2>2. to \in Categories /\ to \in Reasons /\ category \in Reasons
    BY <1>1, <1>2, <1>9, <1>10
  <2>3. Outcome[to] \in {"run", "pause", "met", "cancel"}
    BY <2>2, SlaAssumption
  <2>4. CASE Outcome[to] = "run"
    <3>1. Served(p) = Resume(c, c, s, category, at)
      BY <2>1, <2>4 DEF ChangeCategory
    <3> QED
      BY <1>5, <2>2, <3>1
  <2>5. CASE Outcome[to] = "pause"
    <3>1. Served(p) = IF category \in s.pauses THEN e ELSE d
      BY <2>1, <2>5 DEF ChangeCategory, Replayed
    <3>2. /\ Moved(c, d, at) /\ Kept(d)
          /\ d.status \in Live => Latest(d) <= at /\ Fresh(d, "resume", at)
      BY <1>5, <2>2
    <3> HIDE DEF d
    <3>3. Moved(d, e, at)
      BY <1>1, <1>3, <2>2, <3>2, ResumeGood
    <3> HIDE DEF e
    <3>4. Moved(c, e, at)
      BY <3>2, <3>3 DEF Moved
    <3> QED
      BY <3>1, <3>2, <3>4
  <2>6. CASE Outcome[to] \in {"met", "cancel"}
    <3>1. Served(p) \in {Meet(c, c, s, at), Cancel(c, c, s, at)}
      BY <2>1, <2>6 DEF ChangeCategory
    <3> QED
      BY <1>6, <3>1
  <2> QED
    BY <2>3, <2>4, <2>5, <2>6
<1>11. CASE p.op = "priority"
  <2>1. Served(p) = ChangePriority(c, c, s, p.arg, at) /\ p.arg \in Priorities
    BY <1>1, <1>7, <1>11
  <2>2. c.status \in Live => Latest(c) <= at /\ Fresh(c, "target_switch", at)
    BY <1>4
  <2>3. Moved(c, ChangePriority(c, c, s, p.arg, at), at)
    BY <1>1, <1>2, <1>3, <2>1, <2>2, SwitchGood
  <2> QED
    BY <2>1, <2>3
<1>12. CASE p.op = "reply"
  <2>1. Served(p) \in {Meet(c, c, s, at), c}
    BY <1>7, <1>12
  <2> QED
    BY <1>6, <1>8, <2>1
<1>13. CASE p.op = "cancel"
  BY <1>6, <1>7, <1>13
<1>14. CASE p.op = "device"
  <2>1. Served(p) = ChangeDevice(c, c, s, p.arg, at)
    BY <1>7, <1>14
  <2>2. Served(p) \in {c, Pause(c, c, s, "device_offline", at),
                       Resume(c, c, s, "device_offline", at)}
    BY <1>3, <2>1 DEF ChangeDevice
  <2> QED
    BY <1>5, <1>8, <1>9, <2>2
<1>15. CASE p.op \in {"pause", "resume"}
  <2>1. Served(p) \in {Pause(c, c, s, "manual", at), Resume(c, c, s, "manual", at)}
    BY <1>7, <1>15
  <2> QED
    BY <1>5, <1>9, <2>1
<1> QED
  BY <1>1, <1>10, <1>11, <1>12, <1>13, <1>14, <1>15 DEF RequestOps
-----------------------------------------------------------------------------
(* The invariant, action by action.                                         *)

\* A transaction that begins finds no other, and loads the clock as it is.
LEMMA LoadKeeps ==
    ASSUME Plain, SlaInv, NEW a \in Actors, NEW op \in RequestOps \cup {"arm", "tick"},
           NEW arg \in Args, Load(a, op, arg), asked' \in {asked, now},
           a = Ticker => op \in {"arm", "tick"} /\ (op = "tick" => IsDue(clock, now)),
           a # Ticker => /\ op \in RequestOps /\ asked < now /\ asked' = now
                         /\ op = "category" => arg \in Categories
                         /\ op = "priority" => arg \in Priorities,
           ticker' \in {"down", "catchup", "up"}, ops' \in 0..MaxOps, stops' \in 0..MaxStops
    PROVE  SlaInv'
<1>0. PICK p : p = [op |-> op, arg |-> arg, at |-> now, seen |-> clock]
  OBVIOUS
<1>1. /\ Quiet /\ pend' = [pend EXCEPT ![a] = p]
      /\ policy' = policy /\ now' = now /\ category' = category /\ priority' = priority
      /\ clock' = clock
  BY <1>0 DEF Load, Plain
<1>2. /\ asked \in Nat /\ asked <= now /\ now \in Nat /\ asked' \in 0..now /\ asked <= asked'
      /\ asked' \in Nat /\ asked' <= now
  BY SlaAssumption DEF SlaInv, Rest
<1>3. /\ clock \in Clocks /\ Good(clock, now + 1)
      /\ clock.status \in Live => Latest(clock) <= asked /\ Latest(clock) \in Nat
  BY DEF SlaInv, ClockInv, Good, Kept, Lives, SoundState, ReplayStates, Latest
<1>4. Rest'
  BY <1>1, <1>2 DEF SlaInv, Rest
<1>5. ClockInv'
  BY <1>1, <1>2, <1>3 DEF ClockInv
<1>6. OpenFits'
  <2>1. p \in Transactions
    BY <1>0, <1>2, <1>3 DEF Transactions
  <2>2. pend' \in [Actors -> {Idle} \cup Transactions]
    BY <1>1, <2>1 DEF SlaInv, OpenFits
  <2>3. \A b \in Actors : pend'[b] = IF b = a THEN p ELSE Idle
    BY <1>1 DEF SlaInv, OpenFits, Quiet
  <2>4. Fits(a, p)'
    BY <1>0, <1>1, <1>2, <1>3 DEF Fits
  <2>5. \A b \in Actors : pend'[b] # Idle => Fits(b, pend[b])'
    <3> SUFFICES ASSUME NEW b \in Actors, pend'[b] # Idle PROVE Fits(b, pend[b])'
      OBVIOUS
    <3>1. b = a /\ pend'[b] = p
      BY <2>3
    <3>2. pend'[a] = p
      BY <3>1
    <3> QED
      BY <2>4, <3>1, <3>2 DEF Fits
  <2>6. \A b, d \in Actors : pend'[b] # Idle /\ pend'[d] # Idle => b = d
    BY <2>3
  <2> QED
    BY <2>2, <2>5, <2>6 DEF OpenFits
<1> QED
  BY <1>4, <1>5, <1>6 DEF SlaInv

\* A transaction that ends was the only one.
LEMMA EndKeeps ==
    ASSUME SlaInv, NEW a \in Actors, pend[a] # Idle, pend' = [pend EXCEPT ![a] = Idle],
           Good(clock', now + 1), clock'.status \in Live => Latest(clock') <= asked,
           policy' = policy, now' = now, asked' = asked, ops' = ops, stops' = stops,
           ticker' \in {"down", "catchup", "up"}, category' \in Categories,
           priority' \in Priorities
    PROVE  SlaInv'
<1>1. Rest' /\ ClockInv'
  <2>1. Rest'
    BY DEF SlaInv, Rest
  <2>2. ClockInv'
    BY DEF ClockInv
  <2> QED
    BY <2>1, <2>2
<1>2. \A b \in Actors : pend'[b] = Idle
  BY DEF SlaInv, OpenFits
<1>3. OpenFits'
  BY <1>2 DEF SlaInv, OpenFits
<1> QED
  BY <1>1, <1>3 DEF SlaInv

LEMMA ServeKeeps ==
    ASSUME Wide, Plain, SlaInv, NEW a \in Requests, Serve(a)
    PROVE  SlaInv'
<1> DEFINE p == pend[a]
<1>1. a \in Actors /\ a # Ticker
  BY SlaAssumption DEF Actors
<1>2. p # Idle
  BY DEF Serve, Idle
<1>3. Fits(a, p) /\ asked \in Nat /\ now \in Nat /\ asked <= now
  BY <1>1, <1>2, SlaAssumption DEF SlaInv, OpenFits, Rest
<1>4. /\ p.at \in Nat /\ p.at = asked /\ p.at <= now
      /\ p.op = "category" => p.arg \in Categories
      /\ p.op = "priority" => p.arg \in Priorities
  <2> HIDE DEF p
  <2> QED
    BY <1>1, <1>3 DEF Fits
<1>5. /\ clock' = Served(p) /\ pend' = [pend EXCEPT ![a] = Idle]
      /\ category' = (IF p.op = "category" THEN p.arg ELSE category)
      /\ priority' = (IF p.op = "priority" THEN p.arg ELSE priority)
      /\ policy' = policy /\ now' = now /\ ticker' = ticker /\ asked' = asked
      /\ ops' = ops /\ stops' = stops
  BY DEF Serve
<1>6. Moved(clock, Served(p), p.at)
  BY <1>1, <1>2, ServedGood
<1>7. category' \in Categories /\ priority' \in Priorities /\ ticker' \in {"down", "catchup", "up"}
  BY <1>4, <1>5 DEF SlaInv, Rest
<1>8. Good(clock', now + 1) /\ (clock'.status \in Live => Latest(clock') <= asked)
  <2> HIDE DEF p
  <2>1. CASE clock' = clock
    BY <2>1 DEF SlaInv, ClockInv
  <2>2. CASE Good(clock', p.at) /\ (clock'.status \in Live => Latest(clock') = p.at)
    <3>1. p.at <= now + 1 /\ now + 1 \in Nat /\ p.at \in Nat
      BY <1>3, <1>4
    <3>2. Good(clock', now + 1)
      BY <2>2, <3>1, GoodLater
    <3> QED
      BY <1>3, <1>4, <2>2, <3>2
  <2> QED
    BY <1>5, <1>6, <2>1, <2>2 DEF Moved
<1> QED
  BY <1>1, <1>2, <1>5, <1>7, <1>8, EndKeeps

LEMMA ArmKeeps ==
    ASSUME Wide, Plain, SlaInv, ArmUnarmed
    PROVE  SlaInv'
<1> DEFINE p == pend[Ticker]
<1>1. /\ Ticker \in Actors /\ p # Idle /\ p.op = "arm"
  BY DEF Actors, ArmUnarmed, Idle
<1>2. Fits(Ticker, p)
  BY <1>1 DEF SlaInv, OpenFits
<1>3. /\ p.seen = clock /\ p.at \in 0..(Horizon + 1) /\ p.at \in Nat /\ p.at <= now
      /\ asked <= p.at /\ asked \in Nat /\ now + 1 \in Nat /\ now \in Nat
  <2> HIDE DEF p
  <2>1. asked \in Nat /\ now \in 0..Horizon /\ Horizon \in Nat
    BY SlaAssumption DEF SlaInv, Rest
  <2> QED
    BY <1>2, <2>1 DEF Fits
<1>4. /\ clock' = Armed(clock, NextTimer(p.seen, Replay(p.seen.ledger, p.at), p.at))
      /\ pend' = [pend EXCEPT ![Ticker] = Idle] /\ ticker' = "up"
      /\ policy' = policy /\ now' = now /\ category' = category /\ priority' = priority
      /\ asked' = asked /\ ops' = ops /\ stops' = stops
  BY DEF ArmUnarmed
<1> HIDE DEF p
<1>5. clock' = Rearm(clock, p.at)
  BY <1>3, <1>4 DEF Rearm
<1>6. /\ Kept(clock) /\ OnTime
      /\ clock.status \in Live => Latest(clock) <= asked /\ Latest(clock) \in Nat
  BY DEF Plain, SlaInv, Rest, ClockInv, Good, Kept, Lives, SoundState, ReplayStates, Latest
<1>7. clock.status \in Live => Latest(clock) <= p.at
  BY <1>3, <1>6
<1>8. Good(clock', p.at) /\ clock'.ledger = clock.ledger /\ clock'.status = clock.status
  BY <1>3, <1>5, <1>6, <1>7, RearmDone
<1>9. Good(clock', now + 1) /\ (clock'.status \in Live => Latest(clock') <= asked)
  <2>1. p.at <= now + 1
    BY <1>3
  <2> QED
    BY <1>3, <1>6, <1>8, <2>1, GoodLater DEF Latest
<1>10. category' \in Categories /\ priority' \in Priorities /\ ticker' \in {"down", "catchup", "up"}
  BY <1>4 DEF SlaInv, Rest
<1> QED
  BY <1>1, <1>4, <1>9, <1>10, EndKeeps DEF p

LEMMA TickKeeps ==
    ASSUME Wide, Plain, SlaInv, Tick
    PROVE  SlaInv'
<1> DEFINE p == pend[Ticker]
<1>1. /\ Ticker \in Actors /\ p # Idle /\ p.op = "tick"
  BY DEF Actors, Tick, Idle
<1>2. Fits(Ticker, p)
  BY <1>1 DEF SlaInv, OpenFits
<1>3. /\ p.seen = clock /\ p.at \in 0..Horizon /\ p.at \in Nat /\ p.at <= now
      /\ now \in Nat /\ now + 1 \in Nat /\ IsDue(clock, p.at)
  <2> HIDE DEF p
  <2>1. asked \in Nat /\ now \in 0..Horizon /\ Horizon \in Nat
    BY SlaAssumption DEF SlaInv, Rest
  <2> QED
    BY <1>1, <1>2, <2>1 DEF Fits
<1>4. /\ clock' = AdvanceInstance(clock, p.seen, p.at)
      /\ pend' = [pend EXCEPT ![Ticker] = Idle] /\ ticker' = ticker
      /\ policy' = policy /\ now' = now /\ category' = category /\ priority' = priority
      /\ asked' = asked /\ ops' = ops /\ stops' = stops
  BY DEF Tick
<1> HIDE DEF p
<1>5. /\ Kept(clock) /\ Timed(clock) /\ OnTime
      /\ clock.status \in Live => Latest(clock) <= asked
  BY DEF Plain, SlaInv, Rest, ClockInv, Good
<1>6. Good(clock', p.at + 1) /\ (clock'.status \in Live => clock'.ledger = clock.ledger)
  BY <1>3, <1>4, <1>5, AdvanceGood
<1>7. Good(clock', now + 1) /\ (clock'.status \in Live => Latest(clock') <= asked)
  <2>1. p.at + 1 <= now + 1 /\ p.at + 1 \in Nat
    BY <1>3
  <2>2. clock.status \in Live
    BY <1>3 DEF IsDue
  <2> QED
    BY <1>3, <1>5, <1>6, <2>1, <2>2, GoodLater DEF Latest
<1>8. category' \in Categories /\ priority' \in Priorities /\ ticker' \in {"down", "catchup", "up"}
  BY <1>4 DEF SlaInv, Rest
<1> QED
  BY <1>1, <1>4, <1>7, <1>8, EndKeeps DEF p

LEMMA GoodAfter ==
    ASSUME NEW c, NEW i \in Nat, NEW j \in Nat, i <= j, Good(c, i + 1)
    PROVE  Good(c, j + 1)
<1>1. i + 1 \in Nat /\ j + 1 \in Nat /\ i + 1 <= j + 1
  OBVIOUS
<1> QED
  BY <1>1, GoodLater

\* Of time, a restart and a catch-up that finds nothing, the clock knows nothing.
LEMMA StillKeeps ==
    ASSUME SlaInv, UNCHANGED <<policy, category, priority, clock, asked, ops>>,
           now' \in 0..Horizon, now <= now', ticker' \in {"down", "catchup", "up"},
           stops' \in 0..MaxStops, pend' = pend \/ pend' = [pend EXCEPT ![Ticker] = Idle]
    PROVE  SlaInv'
<1>1. /\ now \in Nat /\ asked \in Nat /\ asked <= now /\ now' \in Nat
  BY SlaAssumption DEF SlaInv, Rest
<1>2. Rest'
  BY <1>1 DEF SlaInv, Rest
<1>3. ClockInv'
  <2>1. Good(clock, now + 1)
    BY DEF SlaInv, ClockInv
  <2>2. Good(clock, now' + 1)
    BY <1>1, <2>1, GoodAfter
  <2> QED
    BY <2>2 DEF SlaInv, ClockInv
<1>4. \A a \in Actors : pend'[a] # Idle => pend'[a] = pend[a]
  BY DEF SlaInv, OpenFits, Actors
<1>5. OpenFits'
  <2>1. pend' \in [Actors -> {Idle} \cup Transactions]
    BY DEF SlaInv, OpenFits
  <2>2. \A a \in Actors : pend'[a] # Idle => Fits(a, pend[a])'
    <3> SUFFICES ASSUME NEW a \in Actors, pend'[a] # Idle PROVE Fits(a, pend[a])'
      OBVIOUS
    <3>1. pend'[a] = pend[a] /\ Fits(a, pend[a])
      BY <1>4 DEF SlaInv, OpenFits
    <3> DEFINE p == pend[a]
    <3>2. pend'[a] = p /\ Fits(a, p)
      BY <3>1
    <3> HIDE DEF p
    <3>3. asked' = asked /\ clock' = clock
      OBVIOUS
    <3> QED
      BY <1>1, <3>2, <3>3 DEF Fits
  <2>3. \A a, b \in Actors : pend'[a] # Idle /\ pend'[b] # Idle => a = b
    BY <1>4 DEF SlaInv, OpenFits
  <2> QED
    BY <2>1, <2>2, <2>3 DEF OpenFits
<1> QED
  BY <1>2, <1>3, <1>5 DEF SlaInv

LEMMA AskKeeps ==
    ASSUME Plain, SlaInv, NEW a \in Requests, NEW op \in RequestOps, NEW arg \in Args,
           Ask(a, op, arg), op = "category" => arg \in Categories,
           op = "priority" => arg \in Priorities
    PROVE  SlaInv'
<1>1. a \in Actors /\ a # Ticker
  BY SlaAssumption DEF Actors
<1>2. /\ Load(a, op, arg) /\ asked < now /\ asked' = now /\ ticker' = ticker /\ stops' = stops
      /\ ops' = ops + 1 /\ ops < MaxOps
  BY DEF Ask
<1>3. ticker' \in {"down", "catchup", "up"} /\ ops' \in 0..MaxOps /\ stops' \in 0..MaxStops
  BY <1>2, SlaAssumption DEF SlaInv, Rest
<1> QED
  BY <1>1, <1>2, <1>3, LoadKeeps

LEMMA SlaInvNext ==
    ASSUME Wide, Plain, SlaInv, [SlaNext]_slaVars
    PROVE  SlaInv'
<1>1. /\ now \in Nat /\ now <= Horizon /\ Step \in Nat /\ Horizon \in Nat /\ MaxStops \in Nat
      /\ ticker \in {"down", "catchup", "up"} /\ stops \in 0..MaxStops /\ ops \in 0..MaxOps
  BY SlaAssumption DEF SlaInv, Rest
<1>2. ASSUME NEW a \in Requests, AskCategory(a) PROVE SlaInv'
  <2>1. PICK to \in Categories : Ask(a, "category", to)
    BY <1>2 DEF AskCategory
  <2> QED
    BY <2>1, AskKeeps DEF RequestOps, Args
<1>3. ASSUME NEW a \in Requests, AskPriority(a) PROVE SlaInv'
  <2>1. PICK to \in Priorities : Ask(a, "priority", to)
    BY <1>3 DEF AskPriority
  <2> QED
    BY <2>1, AskKeeps DEF RequestOps, Args
<1>4. ASSUME NEW a \in Requests, AskReply(a) PROVE SlaInv'
  BY <1>4, AskKeeps DEF AskReply, RequestOps, Args
<1>5. ASSUME NEW a \in Requests, AskCancel(a) PROVE SlaInv'
  BY <1>5, AskKeeps DEF AskCancel, RequestOps, Args
<1>6. ASSUME NEW a \in Requests, AskDevice(a) PROVE SlaInv'
  <2>1. PICK ci \in CiStates : Ask(a, "device", ci)
    BY <1>6 DEF AskDevice
  <2> QED
    BY <2>1, AskKeeps DEF RequestOps, Args
<1>7. ASSUME NEW a \in Requests, AskManual(a) PROVE SlaInv'
  <2>1. PICK op \in {"pause", "resume"} : Ask(a, op, "manual")
    BY <1>7 DEF AskManual
  <2> QED
    BY <2>1, AskKeeps DEF RequestOps, Args
<1>8. ASSUME NEW a \in Requests, Serve(a) PROVE SlaInv'
  BY <1>8, ServeKeeps
<1>9. CASE StartTicker
  BY <1>1, <1>9, StillKeeps DEF StartTicker, SlaInv, Rest
<1>10. CASE StopTicker
  BY <1>1, <1>10, StillKeeps DEF StopTicker, SlaInv, Rest
<1>11. CASE LoadUnarmed
  <2>1. Load(Ticker, "arm", "unarmed") /\ Ticker \in Actors /\ asked' = asked
        /\ ticker' = ticker /\ ops' = ops /\ stops' = stops
    BY <1>11 DEF LoadUnarmed, Actors
  <2> QED
    BY <1>1, <2>1, LoadKeeps DEF Args
<1>12. CASE ArmUnarmed
  BY <1>12, ArmKeeps
<1>13. CASE NothingUnarmed
  BY <1>1, <1>13, StillKeeps DEF NothingUnarmed, SlaInv, Rest
<1>14. CASE LoadDue
  <2>1. Load(Ticker, "tick", "due") /\ Ticker \in Actors /\ asked' = asked
        /\ ticker' = ticker /\ ops' = ops /\ stops' = stops /\ IsDue(clock, now)
    BY <1>14 DEF LoadDue, Actors
  <2> QED
    BY <1>1, <2>1, LoadKeeps DEF Args
<1>15. CASE Tick
  BY <1>15, TickKeeps
<1>16. CASE Elapse
  BY <1>1, <1>16, StillKeeps DEF Elapse, SlaInv, Rest
<1>17. CASE UNCHANGED slaVars
  BY <1>1, <1>17, StillKeeps DEF slaVars, SlaInv, Rest
<1> QED
  BY <1>2, <1>3, <1>4, <1>5, <1>6, <1>7, <1>8, <1>9, <1>10, <1>11, <1>12, <1>13, <1>14, <1>15,
     <1>16, <1>17 DEF SlaNext

\* A clock keeps the policy it was started for.
LEMMA PolicyIsFixed ==
    ASSUME [SlaNext]_slaVars
    PROVE  policy' = policy
BY DEF SlaNext, slaVars, AskCategory, AskPriority, AskReply, AskCancel, AskDevice, AskManual,
       Ask, Load, Serve, StartTicker, StopTicker, LoadUnarmed, ArmUnarmed, NothingUnarmed,
       LoadDue, Tick, Elapse

LEMMA SlaInvHolds ==
    ASSUME Wide
    PROVE  SlaSpec => [](Plain => SlaInv)
<1>1. SlaInit => (Plain => SlaInv)
  BY SlaInvInit
<1>2. (Plain => SlaInv) /\ [SlaNext]_slaVars => (Plain => SlaInv)'
  <2> SUFFICES ASSUME Plain => SlaInv, [SlaNext]_slaVars, Plain' PROVE SlaInv'
    OBVIOUS
  <2>1. Plain
    BY PolicyIsFixed DEF Plain, OnTime, PauseSources
  <2> QED
    BY <2>1, SlaInvNext
<1> QED
  BY <1>1, <1>2, PTL DEF SlaSpec

\* The row of a plain clock is a cache of its ledger, whatever handlers and the
\* ticker, one at a time, have patched in it (advanceInstance, onCategoryChanged,
\* onPriorityChanged, onCiStateChanged, catchUp): status, deadline and timer are
\* the ones a replay of the ledger gives, for every workflow, budget and calendar.
THEOREM SlaCacheIsLedger ==
    ASSUME Wide
    PROVE  SlaSpec => [](Plain => CacheIsLedger)
<1>1. SlaInv => CacheIsLedger
  <2> SUFFICES ASSUME SlaInv PROVE CacheIsLedger
    OBVIOUS
  <2>1. /\ clock \in Clocks /\ Kept(clock) /\ Timed(clock) /\ ArmedFrom(clock, now + 1)
        /\ policy \in Policies /\ now \in Nat /\ asked <= now /\ asked \in Nat
    BY SlaAssumption DEF SlaInv, Rest, ClockInv, Good, Kept
  <2>2. SlaTypeOK
    <3>1. DOMAIN Rank = {"breach", "warn", "boundary", "resume"}
      BY DEF Rank
    <3>2. clock.kind \in DOMAIN Rank \cup {"none"} /\ (clock.kind = "none") = (clock.timer = None)
      BY <2>1, <3>1 DEF Clocks, Timed
    <3>3. ASSUME NEW r \in ToSet(clock.ledger) PROVE r.event \in Events /\ r.at \in Nat
      <4>1. clock.ledger \in Seq(LedgerRows)
        BY <2>1 DEF Clocks
      <4>2. PICK i \in DOMAIN clock.ledger : r = clock.ledger[i]
        BY DEF ToSet
      <4>3. r.at \in 0..Horizon /\ r.event \in Events
        BY <4>1, <4>2, RowTypes
      <4> QED
        BY <4>3, SlaAssumption
    <3>4. /\ clock.status \in {"running", "paused", "met", "breached", "cancelled"}
          /\ clock.due \in Nat /\ clock.paused \in Nat
          /\ {clock.breached, clock.warned, clock.timer} \subseteq Nat \cup {None}
      BY <2>1 DEF Clocks
    <3> QED
      BY <3>2, <3>3, <3>4 DEF SlaTypeOK, SlaInv, Rest
  <2>3. ASSUME Alive
        PROVE  /\ SoundState(Current) /\ Current.due = clock.due
               /\ clock.status = "paused" <=> Current.pauses # {}
    <3>1. Lives(clock) /\ Latest(clock) <= asked /\ Latest(clock) \in Nat
      BY <2>1, <2>3
         DEF Alive, SlaInv, ClockInv, Kept, Lives, SoundState, ReplayStates, Latest
    <3>2. now >= Latest(clock)
      BY <2>1, <3>1
    <3>3. /\ SoundState(Current) /\ Current.pauses = Whole(clock.ledger).pauses
          /\ Current.due = Whole(clock.ledger).due
      BY <2>1, <3>1, <3>2, ReplayLives DEF Current
    <3> QED
      BY <3>1, <3>3 DEF Lives
  <2>4. StatusMatchesLedger
    BY <2>3 DEF StatusMatchesLedger, SoundState
  <2>5. DueMatchesLedger
    BY <2>3 DEF DueMatchesLedger
  <2>6. DeadlineArmed
    <3>1. Runs => clock.status = "running"
      BY <2>3 DEF Runs, Alive, Live
    <3> QED
      BY <2>1, <3>1 DEF DeadlineArmed, ArmedFrom
  <2> QED
    BY <2>2, <2>4, <2>5, <2>6 DEF CacheIsLedger
<1> QED
  BY <1>1, SlaInvHolds, PTL

\* A plain clock measures the time that counts (replayLedger): pauses take out of
\* it what they last and no more, and a breach is recorded at the instant at which
\* the whole budget was spent, however late the ticker came to it.
THEOREM SlaTimeIsConserved ==
    ASSUME Wide
    PROVE  SlaSpec => [](Plain => TimeIsConserved)
<1>1. SlaInv => TimeIsConserved
  <2> SUFFICES ASSUME SlaInv PROVE TimeIsConserved
    OBVIOUS
  <2>1. /\ clock \in Clocks /\ Kept(clock) /\ now \in Nat /\ asked <= now /\ asked \in Nat
    BY SlaAssumption DEF SlaInv, Rest, ClockInv, Good, Kept
  <2>2. BreachIsExact
    BY <2>1 DEF Kept, BreachesExact, BreachIsExact
  <2>3. BudgetConserved
    <3> SUFFICES ASSUME Runs, Current.elapsed <= Current.budget
                 PROVE  Current.elapsed + Between(now, Current.due) = Current.budget
      BY DEF BudgetConserved
    <3>1. Lives(clock) /\ Latest(clock) <= asked /\ Latest(clock) \in Nat
      BY <2>1 DEF Runs, Alive, SlaInv, ClockInv, Kept, Lives, SoundState, ReplayStates, Latest
    <3>2. now >= Latest(clock)
      BY <2>1, <3>1
    <3>3. SoundState(Current) /\ Current.cursor = now
      BY <2>1, <3>1, <3>2, ReplayLives DEF Current
    <3>4. Current.pauses = {} /\ Current.elapsed \in Nat /\ Current.budget \in Nat
      BY <3>3 DEF Runs, SoundState, ReplayStates
    <3>5. InBudget(Current, Between(now, Current.due), Current.due <= now)
      BY <3>3, <3>4 DEF SoundState
    <3> QED
      BY <3>4, <3>5 DEF InBudget
  <2> QED
    BY <2>2, <2>3 DEF TimeIsConserved
<1> QED
  BY <1>1, SlaInvHolds, PTL
=============================================================================
