-------------------------------- MODULE Audit --------------------------------
(***************************************************************************)
(* The audit log of one tenant: audit.service.ts, and the writer that       *)
(* configObject.service.ts keeps for itself.                                *)
(*                                                                          *)
(* Rows form a chain: each carries the hash of the row before it, and       *)
(* verifyChain walks the table in id order and recomputes every hash.  Both *)
(* writers append inside the transaction of the change they describe: they  *)
(* take an advisory lock that lasts until that transaction ends, read the   *)
(* newest row they can see, and insert after it.  The two take different    *)
(* locks and hash in different ways, so each kind of writer is serialised   *)
(* against itself only.                                                     *)
(*                                                                          *)
(* A hash is the id of the row it was computed for: rows that differ never  *)
(* have equal hashes, and 0 is the hash the first row has before it.        *)
(***************************************************************************)
EXTENDS Naturals

CONSTANTS
    Writers,     \* transactions that can be open at once
    Users,       \* accounts an audit row can name
    Nobody,      \* actor_id is null
    MaxId        \* bound: ids the sequence hands out

ASSUME AuditAssumption ==
    /\ Nobody \notin Users
    /\ MaxId \in Nat

Ids   == 1..MaxId
Kinds == {"record", "config"}

\* prev is prev_hash; signed is the actor the hash was computed with, actor
\* the column, which a deleted account leaves null.
Row ==
    [prev : 0..MaxId, kind : Kinds, signed : Users \cup {Nobody}, actor : Users \cup {Nobody}]

NoRow == [prev |-> 0, kind |-> "record", signed |-> Nobody, actor |-> Nobody]

VARIABLES
    log,         \* ids of the committed rows
    row,         \* the rows, committed or not
    nextId,      \* the id sequence, which no rollback rewinds
    users,       \* accounts that exist
    phase,       \* per transaction: "idle", "tail" once it read the tail, "open" once it inserted
    kind,        \* which writer the transaction uses
    tail,        \* the hash it read
    own,         \* the rows it inserted
    gone,        \* the accounts it deleted
    cursor,      \* the last row verifyChain accepted
    alarm        \* firstBrokenLink, 0 for none

open   == <<phase, kind, tail, own, gone>>
scan   == <<cursor, alarm>>
vars   == <<log, row, nextId, users, phase, kind, tail, own, gone, cursor, alarm>>

Init ==
    /\ log = {}
    /\ row = [i \in Ids |-> NoRow]
    /\ nextId = 1
    /\ users = Users
    /\ phase = [w \in Writers |-> "idle"]
    /\ kind = [w \in Writers |-> "record"]
    /\ tail = [w \in Writers |-> 0]
    /\ own = [w \in Writers |-> {}]
    /\ gone = [w \in Writers |-> {}]
    /\ cursor = 0
    /\ alarm = 0

-----------------------------------------------------------------------------
(* Appending.                                                               *)

Visible_NotOwn(w) == log

\* Read committed: what others committed, and what the transaction wrote.
Visible(w) == log \cup own[w]

LockFree_UntilInsert(w, k) == \A v \in Writers \ {w} : phase[v] = "tail" => kind[v] # k

\* record locks class 741501, writeAudit the hash of a name: the lock excludes
\* the other transactions with the same writer.
LockFree(w, k) == \A v \in Writers \ {w} : phase[v] # "idle" => kind[v] # k

\* The lock is taken, then the newest row read, before the row is built.
ReadTail(w, k) ==
    /\ phase[w] = "idle" \/ (phase[w] = "open" /\ kind[w] = k)
    /\ gone[w] = {}
    /\ LockFree(w, k)
    /\ \E p \in Visible(w) \cup {0} :
          /\ \A q \in Visible(w) : q <= p
          /\ tail' = [tail EXCEPT ![w] = p]
    /\ phase' = [phase EXCEPT ![w] = "tail"]
    /\ kind' = [kind EXCEPT ![w] = k]
    /\ UNCHANGED <<log, row, nextId, users, own, gone, scan>>

\* The foreign key waits for whoever is deleting the actor, and fails on an
\* actor who is no more.
CanName(w, a) ==
    /\ a \in users \cup {Nobody}
    /\ \A v \in Writers : a \notin gone[v]

Insert(w, a) ==
    /\ phase[w] = "tail"
    /\ nextId \in Ids
    /\ CanName(w, a)
    /\ row' = [row EXCEPT ![nextId] =
                 [prev |-> tail[w], kind |-> kind[w], signed |-> a, actor |-> a]]
    /\ own' = [own EXCEPT ![w] = @ \cup {nextId}]
    /\ nextId' = nextId + 1
    /\ phase' = [phase EXCEPT ![w] = "open"]
    /\ UNCHANGED <<log, users, kind, tail, gone, scan>>

-----------------------------------------------------------------------------
(* Deleting an account.                                                     *)

\* userService.delete records itself first, in the name of somebody else, waits
\* for the transactions that name the account, and writes nothing more.
DeleteUser(w, u) ==
    /\ phase[w] = "open" /\ kind[w] = "record" /\ gone[w] = {}
    /\ \E i \in own[w] : own[w] = {i}
    /\ u \in users
    /\ \A v \in Writers : u \notin gone[v] /\ \A i \in own[v] : row[i].actor # u
    /\ gone' = [gone EXCEPT ![w] = {u}]
    /\ UNCHANGED <<log, row, nextId, users, phase, kind, tail, own, scan>>

-----------------------------------------------------------------------------
(* Ends of transactions.                                                    *)

Close(w) ==
    /\ phase' = [phase EXCEPT ![w] = "idle"]
    /\ kind' = [kind EXCEPT ![w] = "record"]
    /\ tail' = [tail EXCEPT ![w] = 0]
    /\ own' = [own EXCEPT ![w] = {}]
    /\ gone' = [gone EXCEPT ![w] = {}]

\* The rows that name a deleted account lose the name (ON DELETE SET NULL).
Blanked(us) ==
    [i \in Ids |-> IF i \in log /\ row[i].actor \in us THEN [row[i] EXCEPT !.actor = Nobody]
                                                       ELSE row[i]]

Commit(w) ==
    /\ phase[w] = "open"
    /\ log' = log \cup own[w]
    /\ users' = users \ gone[w]
    /\ row' = Blanked(gone[w])
    /\ Close(w)
    /\ UNCHANGED <<nextId, scan>>

\* The business change threw, or the process died.
Rollback(w) ==
    /\ phase[w] # "idle"
    /\ row' = [i \in Ids |-> IF i \in own[w] THEN NoRow ELSE row[i]]
    /\ Close(w)
    /\ UNCHANGED <<log, nextId, users, scan>>

-----------------------------------------------------------------------------
(* Verification.  A batch is one query, so rows may commit between batches;  *)
(* one row a batch covers every batch size.                                 *)

Recomputes_Never(i) == TRUE

\* computeHash over the row as it is now.  writeAudit separates prev_hash and
\* payload otherwise, and hashes neither ip nor user_agent.
Recomputes(i) == row[i].kind = "record" /\ row[i].signed = row[i].actor

StartScan ==
    /\ cursor' = 0
    /\ alarm' = 0
    /\ UNCHANGED <<log, row, nextId, users, open>>

ScanRow ==
    /\ alarm = 0
    /\ \E i \in log :
          /\ i > cursor
          /\ \A j \in log : j > cursor => i <= j
          /\ IF row[i].prev = cursor /\ Recomputes(i)
             THEN cursor' = i /\ alarm' = 0
             ELSE cursor' = cursor /\ alarm' = i
    /\ UNCHANGED <<log, row, nextId, users, open>>

Next ==
    \/ \E w \in Writers :
          \/ \E k \in Kinds : ReadTail(w, k)
          \/ \E a \in Users \cup {Nobody} : Insert(w, a)
          \/ \E u \in Users : DeleteUser(w, u)
          \/ Commit(w)
          \/ Rollback(w)
    \/ StartScan
    \/ ScanRow

Spec == Init /\ [][Next]_vars

-----------------------------------------------------------------------------
(* Properties.                                                              *)

\* Every column has a value the table and the services allow.
TypeOK ==
    /\ log \subseteq Ids
    /\ row \in [Ids -> Row]
    /\ nextId \in 1..(MaxId + 1)
    /\ users \subseteq Users
    /\ phase \in [Writers -> {"idle", "tail", "open"}]
    /\ kind \in [Writers -> Kinds]
    /\ tail \in [Writers -> 0..MaxId]
    /\ own \in [Writers -> SUBSET Ids]
    /\ gone \in [Writers -> SUBSET Users]
    /\ cursor \in 0..MaxId
    /\ alarm \in 0..MaxId

\* A committed row hangs from the start of the chain or from a committed row
\* with a smaller id: no link to a row that was rolled back, and walking the
\* table in id order meets the predecessor first.
ChainsBack ==
    \A i \in log : row[i].prev < i /\ (row[i].prev = 0 \/ row[i].prev \in log)

\* Where the chain forks, one branch is a row of record and the other one of
\* writeAudit: rows with the same writer never share a predecessor, however
\* their transactions overlap.
ForksAreMixed ==
    \A i, j \in log : row[i].prev = row[j].prev /\ row[i].kind = row[j].kind => i = j

\* Links lead back, and a fork takes both writers.
ChainIsSound == TypeOK /\ ChainsBack /\ ForksAreMixed

\* verifyChain accuses no history that record alone wrote, and the row it names
\* is where to look: a configuration row, or a row whose account was deleted.  A
\* fork is never what it reports.
NoFalseAlarm ==
    alarm # 0 => alarm \in log /\ ~Recomputes(alarm)

\* What the walk has passed is one chain: as far as the cursor, every row of
\* record follows the newest earlier row of record, even if rows went on being
\* committed during the walk.
CleanScanIsOneChain ==
    \A i \in log :
        i <= cursor /\ row[i].kind = "record" =>
            /\ row[i].prev # 0 => row[row[i].prev].kind = "record"
            /\ \A j \in log : j < i /\ row[j].kind = "record" => j <= row[i].prev

=============================================================================
