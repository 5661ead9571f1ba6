----------------------------- MODULE LeaderLock -----------------------------
(***************************************************************************)
(* Leader election between replicas, server/src/index.ts: LeaderLock over  *)
(* one session-level Postgres advisory lock, startWorkers, and shutdown.   *)
(*                                                                         *)
(* A tryAcquire (connect, then pg_try_advisory_lock) is one step.          *)
(***************************************************************************)
EXTENDS Naturals, FiniteSets

CONSTANTS
    Replicas,
    NoOne,         \* the advisory lock is free
    Ghost,         \* it is held by a session whose client is gone
    N,             \* how many workers startWorkers starts
    MaxFaults,     \* bound: crashes and SIGTERMs
    MaxCuts,       \* bound: connections lost by a live replica
    MaxRefusals    \* bound: connect() calls that fail

ASSUME LeaderAssumption ==
    /\ N \in Nat \ {0}
    /\ MaxFaults \in Nat /\ MaxCuts \in Nat /\ MaxRefusals \in Nat
    /\ NoOne \notin Replicas /\ Ghost \notin Replicas /\ NoOne # Ghost

Kinds == 1..N

VARIABLES
    owner,     \* whose session holds the lock, in Postgres
    proc,      \* life of the process
    client,    \* LeaderLock.client
    held,      \* replicas whose LeaderLock.held is set
    retry,     \* replicas whose LeaderLock.retry interval is armed
    next,      \* next worker startWorkers will start; 0 when it is not running
    running,   \* workers started and not stopped
    stopped,   \* workers the shutdown loop has been through
    lost,      \* history: replicas that lost a connection in this life
    faults, cuts, refusals

lockVars == <<owner, client, held, retry>>
counters == <<faults, cuts, refusals>>
leaderVars == <<lockVars, proc, next, running, stopped, lost, counters>>

Lives == {"down", "booting", "up", "leaving", "closing", "released"}

LeaderTypeOK ==
    /\ owner \in Replicas \cup {NoOne, Ghost}
    /\ proc \in [Replicas -> Lives]
    /\ client \in [Replicas -> {"null", "ok", "cut", "broken"}]
    /\ held \in SUBSET Replicas
    /\ retry \in SUBSET Replicas
    /\ next \in [Replicas -> 0..N]
    /\ running \in [Replicas -> SUBSET Kinds]
    /\ stopped \in [Replicas -> SUBSET Kinds]
    /\ lost \in SUBSET Replicas
    /\ faults \in Nat /\ cuts \in Nat /\ refusals \in Nat

LeaderInit ==
    /\ owner = NoOne
    /\ proc = [r \in Replicas |-> "down"]
    /\ client = [r \in Replicas |-> "null"]
    /\ held = {}
    /\ retry = {}
    /\ next = [r \in Replicas |-> 0]
    /\ running = [r \in Replicas |-> {}]
    /\ stopped = [r \in Replicas |-> {}]
    /\ lost = {}
    /\ faults = 0 /\ cuts = 0 /\ refusals = 0

-----------------------------------------------------------------------------
(* tryAcquire: at most one of the three outcomes is possible, but for the   *)
(* choice between a connect() that succeeds and one that is refused.        *)

Queries(r) == client[r] \in {"null", "ok"} /\ r \notin held

\* The answer of pg_try_advisory_lock is not looked at.
Win_Unlocked(r) ==
    /\ Queries(r)
    /\ client' = [client EXCEPT ![r] = "ok"]
    /\ owner' = r
    /\ held' = held \cup {r}
    /\ UNCHANGED refusals

Win(r) ==
    /\ Queries(r)
    /\ owner = NoOne
    /\ client' = [client EXCEPT ![r] = "ok"]
    /\ owner' = r
    /\ held' = held \cup {r}
    /\ UNCHANGED refusals

Lose(r) ==
    /\ Queries(r)
    /\ owner # NoOne
    /\ client' = [client EXCEPT ![r] = "ok"]
    /\ UNCHANGED <<owner, held, refusals>>

\* connect() rejects.  this.client keeps the client, which never works again.
Refused(r) ==
    /\ client[r] = "null"
    /\ refusals < MaxRefusals
    /\ refusals' = refusals + 1
    /\ client' = [client EXCEPT ![r] = "broken"]
    /\ UNCHANGED <<owner, held>>

\* query() on a client whose connection is dead rejects.
Unusable(r) ==
    /\ client[r] \in {"cut", "broken"}
    /\ UNCHANGED <<owner, client, held, refusals>>

Fails(r) == Lose(r) \/ Refused(r) \/ Unusable(r)

-----------------------------------------------------------------------------
(* start(), the retry interval, and startWorkers.                           *)

Boot(r) ==
    /\ proc[r] = "down"
    /\ proc' = [proc EXCEPT ![r] = "booting"]
    /\ UNCHANGED <<lockVars, next, running, stopped, lost, counters>>

\* main() awaits start(), hence startWorkers; signals are handled after that.
StartElected(r) ==
    /\ proc[r] = "booting" /\ next[r] = 0
    /\ Win(r)
    /\ next' = [next EXCEPT ![r] = 1]
    /\ UNCHANGED <<proc, retry, running, stopped, lost, faults, cuts>>

\* A standby that forgets its retry interval.
StartStandby_NoTimer(r) ==
    /\ proc[r] = "booting" /\ next[r] = 0
    /\ Fails(r)
    /\ proc' = [proc EXCEPT ![r] = "up"]
    /\ UNCHANGED <<retry, next, running, stopped, lost, faults, cuts>>

StartStandby(r) ==
    /\ proc[r] = "booting" /\ next[r] = 0
    /\ Fails(r)
    /\ retry' = retry \cup {r}
    /\ proc' = [proc EXCEPT ![r] = "up"]
    /\ UNCHANGED <<next, running, stopped, lost, faults, cuts>>

RetryWins(r) ==
    /\ r \in retry
    /\ Win(r)
    /\ retry' = retry \ {r}
    /\ next' = [next EXCEPT ![r] = 1]
    /\ UNCHANGED <<proc, running, stopped, lost, faults, cuts>>

RetryFails(r) ==
    /\ r \in retry
    /\ Fails(r)
    /\ UNCHANGED <<proc, retry, next, running, stopped, lost, faults, cuts>>

\* startWorkers starts the next worker and puts it on the shutdown list, even
\* if the process is being shut down meanwhile.
StartWorker(r) ==
    /\ next[r] > 0
    /\ running' = [running EXCEPT ![r] = @ \cup {next[r]}]
    /\ next' = [next EXCEPT ![r] = IF @ = N THEN 0 ELSE @ + 1]
    /\ proc' = [proc EXCEPT ![r] =
                  IF @ = "booting" /\ next[r] = N THEN "up" ELSE @]
    /\ UNCHANGED <<lockVars, stopped, lost, counters>>

-----------------------------------------------------------------------------
(* Connections.                                                             *)

Cut(r) ==
    /\ client[r] = "ok"
    /\ cuts < MaxCuts
    /\ cuts' = cuts + 1
    /\ client' = [client EXCEPT ![r] = "cut"]
    /\ lost' = lost \cup {r}
    /\ UNCHANGED <<owner, held, retry, proc, next, running, stopped, faults,
                   refusals>>

\* Postgres ends the session of a lost connection.
SessionEnds(r) ==
    /\ client[r] = "cut"
    /\ owner = r
    /\ owner' = NoOne
    /\ UNCHANGED <<client, held, retry, proc, next, running, stopped, lost,
                   counters>>

Abandon(r) == owner' = IF owner = r THEN Ghost ELSE owner

\* The handler of the client's 'error' event.
ConnectionError(r) ==
    /\ client[r] = "cut"
    /\ held' = held \ {r}
    /\ client' = [client EXCEPT ![r] = "null"]
    /\ Abandon(r)
    /\ UNCHANGED <<retry, proc, next, running, stopped, lost, counters>>

\* Postgres notices that the client of the holding session is gone.
GhostEnds ==
    /\ owner = Ghost
    /\ owner' = NoOne
    /\ UNCHANGED <<client, held, retry, proc, next, running, stopped, lost,
                   counters>>

-----------------------------------------------------------------------------
(* The end of a process.                                                    *)

Sigterm(r) ==
    /\ proc[r] = "up"
    /\ faults < MaxFaults
    /\ faults' = faults + 1
    /\ proc' = [proc EXCEPT ![r] = "leaving"]
    /\ UNCHANGED <<lockVars, next, running, stopped, lost, cuts, refusals>>

\* The shutdown loop awaits stop() of each listed worker.
StopWorker(r) ==
    /\ proc[r] = "leaving"
    /\ \E k \in running[r] \ stopped[r] :
         /\ running' = [running EXCEPT ![r] = @ \ {k}]
         /\ stopped' = [stopped EXCEPT ![r] = @ \cup {k}]
    /\ UNCHANGED <<lockVars, proc, next, lost, counters>>

\* The loop has run out of listed workers; the socket server is closed next.
EndStopLoop(r) ==
    /\ proc[r] = "leaving"
    /\ running[r] \subseteq stopped[r]
    /\ proc' = [proc EXCEPT ![r] = "closing"]
    /\ UNCHANGED <<lockVars, next, running, stopped, lost, counters>>

Release(r) ==
    /\ proc[r] = "closing"
    /\ proc' = [proc EXCEPT ![r] = "released"]
    /\ retry' = retry \ {r}
    /\ held' = held \ {r}
    /\ client' = [client EXCEPT ![r] = "null"]
    /\ owner' = IF owner # r THEN owner
                ELSE IF client[r] = "ok" THEN NoOne ELSE Ghost
    /\ UNCHANGED <<next, running, stopped, lost, counters>>

Die(r) ==
    /\ proc' = [proc EXCEPT ![r] = "down"]
    /\ client' = [client EXCEPT ![r] = "null"]
    /\ held' = held \ {r}
    /\ retry' = retry \ {r}
    /\ next' = [next EXCEPT ![r] = 0]
    /\ running' = [running EXCEPT ![r] = {}]
    /\ stopped' = [stopped EXCEPT ![r] = {}]
    /\ lost' = lost \ {r}
    /\ Abandon(r)
    /\ UNCHANGED <<cuts, refusals>>

\* process.exit at the end of shutdown, or its ten-second hard exit.
Exit(r) ==
    /\ proc[r] \in {"leaving", "closing", "released"}
    /\ Die(r)
    /\ UNCHANGED faults

ProcessCrash(r) ==
    /\ proc[r] # "down"
    /\ faults < MaxFaults
    /\ faults' = faults + 1
    /\ Die(r)

-----------------------------------------------------------------------------
Start(r) == StartElected(r) \/ StartStandby(r)

Retry(r) == RetryWins(r) \/ RetryFails(r)

Notice(r) == SessionEnds(r) \/ ConnectionError(r)

LeaderNext ==
    \/ \E r \in Replicas :
         \/ Boot(r) \/ Start(r) \/ Retry(r) \/ StartWorker(r) \/ Cut(r)
         \/ Notice(r) \/ Sigterm(r) \/ StopWorker(r) \/ EndStopLoop(r)
         \/ Release(r) \/ Exit(r) \/ ProcessCrash(r)
    \/ GhostEnds

LeaderSpec == LeaderInit /\ [][LeaderNext]_leaderVars

(* Processes are restarted, awaits return, the retry interval fires and both *)
(* ends of a lost connection notice.  Nothing has to fail.                   *)
LeaderFairness ==
    /\ WF_leaderVars(GhostEnds)
    /\ \A r \in Replicas :
         /\ WF_leaderVars(Boot(r)) /\ WF_leaderVars(Start(r)) /\ WF_leaderVars(RetryWins(r))
         /\ WF_leaderVars(StartWorker(r)) /\ WF_leaderVars(SessionEnds(r))
         /\ WF_leaderVars(ConnectionError(r)) /\ WF_leaderVars(Exit(r))

LeaderFairSpec == LeaderSpec /\ LeaderFairness

-----------------------------------------------------------------------------
(* Properties.                                                              *)

InGoodStanding(r) == proc[r] \in {"booting", "up"} /\ r \notin lost

\* The workers of two replicas run together only if one of the replicas is
\* shutting down or has lost its lock connection: no order of boots, retries,
\* crashes and hand-overs makes two healthy replicas work.
OverlapNeedsCutOrShutdown ==
    \A r, s \in Replicas :
        r # s /\ running[r] # {} /\ running[s] # {} =>
            ~(InGoodStanding(r) /\ InGoodStanding(s))

\* As long as its connection is whole, a replica that believes it leads is the
\* one Postgres gave the lock to.
BeliefIsTrue ==
    \A r \in held : client[r] # "cut" => owner = r /\ client[r] = "ok"

\* Leadership is one replica's: only a replica that is shutting down, or whose
\* connection is lost, works beside another or believes what Postgres denies.
OneLeader ==
    /\ LeaderTypeOK
    /\ BeliefIsTrue
    /\ OverlapNeedsCutOrShutdown

\* While no lock connection is cut and none refused, some replica always gets
\* to run the workers again, whoever crashes or leaves.
SomeoneWorks ==
    [](cuts = 0 /\ refusals = 0) => []<>(\E r \in Replicas : running[r] # {})
=============================================================================
