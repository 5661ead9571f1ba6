------------------------------- MODULE Outbox -------------------------------
(***************************************************************************)
(* The notification outbox of server/src/services/outbox.service.ts: rows  *)
(* inserted by the business transactions, and the worker loop that claims  *)
(* a batch under a lease, delivers the rows one after the other and        *)
(* settles each of them.                                                   *)
(*                                                                         *)
(* Time is abstract.  A pending row is "due" once next_attempt_at has      *)
(* passed; Lapse makes any pending row due at any moment, so every length  *)
(* of lease, back-off and delivery is covered.                             *)
(***************************************************************************)
EXTENDS Naturals, FiniteSets

CONSTANTS
    Rows,         \* the notifications that may be queued
    Workers,      \* the processes that run the worker loop
    NoRow,        \* "no row in hand"
    BatchSize,    \* notifications.outboxBatchSize
    MaxAttempts,  \* notifications.maxAttempts
    MaxFaults,    \* bound: crashes, stops and failed database writes
    MaxRetries    \* bound: calls of retryFailed

ASSUME OutboxAssumption ==
    /\ BatchSize \in Nat \ {0}
    /\ MaxAttempts \in Nat \ {0}
    /\ MaxFaults \in Nat
    /\ MaxRetries \in Nat
    /\ NoRow \notin Rows

VARIABLES
    status,      \* notification_outbox.status, "absent" before, "pruned" after
    attempts,    \* notification_outbox.attempts
    due,         \* the pending rows whose next_attempt_at has passed
    phase,       \* where the loop of each worker is
    stopping,    \* the workers whose stopRequested is set
    batch,       \* rows claimed and not yet looked at by this tick
    copy,        \* attempts as RETURNING o.* gave it to the worker
    current,     \* the row in process()
    deliveries,  \* history: what reached the recipient
    skipped,     \* history: rows deliver() dropped on purpose
    excused,     \* history: deliveries the database never learnt about
    faults,      \* history: faults so far
    retries      \* history: retryFailed calls so far

queueVars  == <<status, attempts, due>>
workerVars == <<phase, stopping, batch, copy, current>>
history    == <<deliveries, skipped, excused, faults, retries>>
vars       == <<queueVars, workerVars, history>>

Statuses == {"absent", "pending", "sent", "failed", "pruned"}
Phases   == {"off", "idle", "claiming", "batch", "sending", "delivered", "threw"}

TypeOK ==
    /\ status \in [Rows -> Statuses]
    /\ attempts \in [Rows -> Nat]
    /\ due \in SUBSET Rows
    /\ phase \in [Workers -> Phases]
    /\ stopping \in SUBSET Workers
    /\ batch \in [Workers -> SUBSET Rows]
    /\ copy \in [Workers -> [Rows -> Nat]]
    /\ current \in [Workers -> Rows \cup {NoRow}]
    /\ deliveries \in [Rows -> Nat]
    /\ skipped \in SUBSET Rows
    /\ excused \in [Rows -> Nat]
    /\ faults \in Nat
    /\ retries \in Nat

Init ==
    /\ status = [r \in Rows |-> "absent"]
    /\ attempts = [r \in Rows |-> 0]
    /\ due = {}
    /\ phase = [w \in Workers |-> "off"]
    /\ stopping = {}
    /\ batch = [w \in Workers |-> {}]
    /\ copy = [w \in Workers |-> [r \in Rows |-> 0]]
    /\ current = [w \in Workers |-> NoRow]
    /\ deliveries = [r \in Rows |-> 0]
    /\ skipped = {}
    /\ excused = [r \in Rows |-> 0]
    /\ faults = 0
    /\ retries = 0

-----------------------------------------------------------------------------
(* The producers: dispatch and enqueue, seen when the caller's transaction *)
(* commits.                                                                 *)

Enqueue(r) ==
    /\ status[r] = "absent"
    /\ status' = [status EXCEPT ![r] = "pending"]
    /\ attempts' = [attempts EXCEPT ![r] = 0]
    /\ due' = due \cup {r}
    /\ UNCHANGED <<workerVars, history>>

\* next_attempt_at passes: a back-off or a lease ends.
Lapse(r) ==
    /\ status[r] = "pending"
    /\ r \notin due
    /\ due' = due \cup {r}
    /\ UNCHANGED <<status, attempts, workerVars, history>>

-----------------------------------------------------------------------------
(* The worker loop.                                                         *)

Start(w) ==
    /\ phase[w] = "off"
    /\ phase' = [phase EXCEPT ![w] = "idle"]
    /\ stopping' = stopping \ {w}
    /\ UNCHANGED <<queueVars, batch, copy, current, history>>

\* The timer fires: loop() looks at stopRequested, then awaits loadConfig.
BeginTick(w) ==
    /\ phase[w] = "idle"
    /\ w \notin stopping
    /\ phase' = [phase EXCEPT ![w] = "claiming"]
    /\ UNCHANGED <<queueVars, stopping, batch, copy, current, history>>

\* The rows one claim statement may take: as many due rows as LIMIT allows.
Claimable == {S \in SUBSET due : \/ S = due /\ Cardinality(S) =< BatchSize
                                 \/ Cardinality(S) = BatchSize}

\* The claim takes the lease but does not count the attempt.
Claim_Uncounted(w) ==
    /\ phase[w] = "claiming"
    /\ \E S \in Claimable :
         /\ due' = due \ S
         /\ batch' = [batch EXCEPT ![w] = S]
         /\ copy' = [copy EXCEPT ![w] = attempts]
    /\ phase' = [phase EXCEPT ![w] = "batch"]
    /\ UNCHANGED <<status, attempts, stopping, current, history>>

Claim(w) ==
    /\ phase[w] = "claiming"
    /\ \E S \in Claimable :
         /\ attempts' = [r \in Rows |-> IF r \in S THEN attempts[r] + 1
                                                   ELSE attempts[r]]
         /\ due' = due \ S
         /\ batch' = [batch EXCEPT ![w] = S]
         /\ copy' = [copy EXCEPT ![w] = attempts']
    /\ phase' = [phase EXCEPT ![w] = "batch"]
    /\ UNCHANGED <<status, stopping, current, history>>

\* The next row of the for loop; stopRequested is read before each row.
Take(w, r) ==
    /\ phase[w] = "batch"
    /\ w \notin stopping
    /\ r \in batch[w]
    /\ phase' = [phase EXCEPT ![w] = "sending"]
    /\ current' = [current EXCEPT ![w] = r]
    /\ batch' = [batch EXCEPT ![w] = @ \ {r}]
    /\ UNCHANGED <<queueVars, stopping, copy, history>>

\* The loop ends, or breaks on stopRequested and leaves its rows leased.
EndTick(w) ==
    /\ phase[w] = "batch"
    /\ batch[w] = {} \/ w \in stopping
    /\ phase' = [phase EXCEPT ![w] = "idle"]
    /\ batch' = [batch EXCEPT ![w] = {}]
    /\ UNCHANGED <<queueVars, stopping, copy, current, history>>

\* process(row): the plugin's send succeeds.
Deliver(w) ==
    /\ phase[w] = "sending"
    /\ phase' = [phase EXCEPT ![w] = "delivered"]
    /\ deliveries' = [deliveries EXCEPT ![current[w]] = @ + 1]
    /\ UNCHANGED <<queueVars, stopping, batch, copy, current,
                   skipped, excused, faults, retries>>

\* deliver() finds the channel gone or disabled and returns without sending.
Skip(w) ==
    /\ phase[w] = "sending"
    /\ phase' = [phase EXCEPT ![w] = "delivered"]
    /\ skipped' = skipped \cup {current[w]}
    /\ UNCHANGED <<queueVars, stopping, batch, copy, current,
                   deliveries, excused, faults, retries>>

\* process() is not awaited: its failure is never seen.
SendFails_Unawaited(w) ==
    /\ phase[w] = "sending"
    /\ phase' = [phase EXCEPT ![w] = "delivered"]
    /\ UNCHANGED <<queueVars, stopping, batch, copy, current, history>>

\* The send throws.
SendFails(w) ==
    /\ phase[w] = "sending"
    /\ phase' = [phase EXCEPT ![w] = "threw"]
    /\ UNCHANGED <<queueVars, stopping, batch, copy, current, history>>

\* What a fault does to the row in hand: when its message is out, nothing in
\* the database will ever say so.
Excuse(w) ==
    IF phase[w] = "delivered"
      THEN [excused EXCEPT ![current[w]] = @ + 1]
      ELSE excused

\* The message is out, but the transport times out on its answer, or the
\* delivery log or the 'sent' update throws: the catch block runs as if the
\* send had failed.
LateError(w) ==
    /\ phase[w] = "delivered"
    /\ faults < MaxFaults
    /\ faults' = faults + 1
    /\ excused' = Excuse(w)
    /\ phase' = [phase EXCEPT ![w] = "threw"]
    /\ UNCHANGED <<queueVars, stopping, batch, copy, current,
                   deliveries, skipped, retries>>

\* UPDATE ... WHERE id = :id: whatever the row holds now, unless it is gone.
Write(r, s) ==
    /\ status' = [status EXCEPT ![r] = IF @ = "pruned" THEN @ ELSE s]
    /\ due' = due \ {r}

\* The 'sent' update is forgotten.
MarkSent_Forgotten(w) ==
    /\ phase[w] = "delivered"
    /\ phase' = [phase EXCEPT ![w] = "batch"]
    /\ current' = [current EXCEPT ![w] = NoRow]
    /\ UNCHANGED <<queueVars, stopping, batch, copy, history>>

MarkSent(w) ==
    /\ phase[w] = "delivered"
    /\ Write(current[w], "sent")
    /\ phase' = [phase EXCEPT ![w] = "batch"]
    /\ current' = [current EXCEPT ![w] = NoRow]
    /\ UNCHANGED <<attempts, stopping, batch, copy, history>>

\* One attempt too many.
Verdict_Late(n) == IF n > MaxAttempts THEN "failed" ELSE "pending"

\* The catch block: dead-letter or back off, judged on the worker's own copy.
Verdict(n) == IF n >= MaxAttempts THEN "failed" ELSE "pending"

MarkThrew(w) ==
    /\ phase[w] = "threw"
    /\ Write(current[w], Verdict(copy[w][current[w]]))
    /\ phase' = [phase EXCEPT ![w] = "batch"]
    /\ current' = [current EXCEPT ![w] = NoRow]
    /\ UNCHANGED <<attempts, stopping, batch, copy, history>>

-----------------------------------------------------------------------------
(* Faults, shutdown and the two administrative calls.                       *)

\* The update inside the catch block throws: the tick is abandoned.
AbortTick(w) ==
    /\ phase[w] = "threw"
    /\ faults < MaxFaults
    /\ faults' = faults + 1
    /\ phase' = [phase EXCEPT ![w] = "idle"]
    /\ batch' = [batch EXCEPT ![w] = {}]
    /\ current' = [current EXCEPT ![w] = NoRow]
    /\ UNCHANGED <<queueVars, stopping, copy, deliveries, skipped, excused,
                   retries>>

Stop(w) ==
    /\ phase[w] # "off"
    /\ w \notin stopping
    /\ faults < MaxFaults
    /\ faults' = faults + 1
    /\ stopping' = stopping \cup {w}
    /\ UNCHANGED <<queueVars, phase, batch, copy, current, deliveries,
                   skipped, excused, retries>>

Lose(w) ==
    /\ phase' = [phase EXCEPT ![w] = "off"]
    /\ batch' = [batch EXCEPT ![w] = {}]
    /\ current' = [current EXCEPT ![w] = NoRow]
    /\ excused' = Excuse(w)
    /\ UNCHANGED <<queueVars, stopping, copy, deliveries, skipped, retries>>

\* The process exits after stop(): at once when idle, and with a tick still
\* in flight once stop()'s deadline or the hard exit of shutdown has passed.
Exit(w) ==
    /\ phase[w] # "off"
    /\ w \in stopping
    /\ Lose(w)
    /\ UNCHANGED faults

Crash(w) ==
    /\ phase[w] # "off"
    /\ faults < MaxFaults
    /\ faults' = faults + 1
    /\ Lose(w)

\* retryFailed without its status filter.
RetryFailed_Unfiltered(r) ==
    /\ status[r] \in {"failed", "sent"}
    /\ retries < MaxRetries
    /\ retries' = retries + 1
    /\ status' = [status EXCEPT ![r] = "pending"]
    /\ attempts' = [attempts EXCEPT ![r] = 0]
    /\ due' = due \cup {r}
    /\ UNCHANGED <<workerVars, deliveries, skipped, excused, faults>>

RetryFailed(r) ==
    /\ status[r] = "failed"
    /\ retries < MaxRetries
    /\ retries' = retries + 1
    /\ status' = [status EXCEPT ![r] = "pending"]
    /\ attempts' = [attempts EXCEPT ![r] = 0]
    /\ due' = due \cup {r}
    /\ UNCHANGED <<workerVars, deliveries, skipped, excused, faults>>

PruneSent(r) ==
    /\ status[r] = "sent"
    /\ status' = [status EXCEPT ![r] = "pruned"]
    /\ UNCHANGED <<attempts, due, workerVars, history>>

-----------------------------------------------------------------------------
Settle(w) == MarkSent(w) \/ MarkThrew(w)

Attempt(w) == Deliver(w) \/ Skip(w) \/ SendFails(w)

Loop(w) ==
    \/ Start(w) \/ BeginTick(w) \/ Claim(w) \/ (\E r \in Rows : Take(w, r))
    \/ EndTick(w) \/ Attempt(w) \/ Settle(w)

Fault(w) == LateError(w) \/ AbortTick(w) \/ Stop(w) \/ Exit(w) \/ Crash(w)

Next ==
    \/ \E r \in Rows : Enqueue(r) \/ Lapse(r) \/ RetryFailed(r) \/ PruneSent(r)
    \/ \E w \in Workers : Loop(w) \/ Fault(w)

Spec == Init /\ [][Next]_vars

(* A process that is down is started again, the timer of the loop fires,    *)
(* an await returns, next_attempt_at passes.  Nothing forces a producer, an *)
(* administrator or a fault to act.                                         *)
Fairness ==
    /\ \A r \in Rows : WF_vars(Lapse(r))
    /\ \A w \in Workers : WF_vars(Loop(w)) /\ WF_vars(Exit(w))

FairSpec == Spec /\ Fairness

-----------------------------------------------------------------------------
(* Properties.                                                              *)

\* A row is closed as sent only if its message reached the recipient or the
\* channel was gone or disabled: no interleaving of stops, crashes and failed
\* updates lets the loop close a row it never processed.
SentMeansHandled ==
    \A r \in Rows : status[r] \in {"sent", "pruned"} =>
        deliveries[r] > 0 \/ r \in skipped

\* A row is dead-lettered only after every attempt it is entitled to.
DeadLetterExhausted ==
    \A r \in Rows : status[r] = "failed" => attempts[r] >= MaxAttempts

\* A message goes out a second time only because the first delivery was
\* followed by a crash, an exit or a failed write that hid it.
DuplicatesAreExcused ==
    \A r \in Rows : deliveries[r] =< 1 + excused[r]

\* What becomes of a row is accounted for: closed on evidence, dead-lettered at
\* the end of its attempts, sent again only because a fault hid the first send.
Accounted ==
    /\ TypeOK
    /\ SentMeansHandled
    /\ DeadLetterExhausted
    /\ DuplicatesAreExcused

\* Interrupted attempts cost at most one each on top of MaxAttempts.
AttemptsBounded ==
    \A r \in Rows : attempts[r] =< MaxAttempts + faults

\* Once closed as sent, a row is never queued again.
SentIsFinal ==
    [][\A r \in Rows : status[r] \in {"sent", "pruned"} =>
                       status'[r] \in {"sent", "pruned"}]_vars

\* Every queued notification is eventually delivered, skipped or
\* dead-lettered, as long as faults stop at some point.
EveryRowSettles ==
    \A r \in Rows : status[r] = "pending" ~> status[r] # "pending"

-----------------------------------------------------------------------------
(* The promise this worker implements when it runs alone.                   *)

Promise == INSTANCE NotificationPromise WITH
    Messages <- Rows,
    state    <- [r \in Rows |-> CASE status[r] = "absent"  -> "unknown"
                                  [] status[r] = "pending" -> "owed"
                                  [] status[r] = "failed"  -> "given_up"
                                  [] OTHER                 -> "closed"],
    sends    <- deliveries,
    waived   <- skipped

PromiseKept == Promise!Spec
=============================================================================
