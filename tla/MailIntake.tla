----------------------------- MODULE MailIntake -----------------------------
(***************************************************************************)
(* Inbound mail (services/mail/inbound.service.ts, mailbox.service.ts): a  *)
(* connection per mailbox and process fetches the folder and hands every   *)
(* message to ingestRaw, and so does the webhook of the provider.          *)
(*                                                                         *)
(* ingestRaw claims the message id in a transaction, writes the ticket or  *)
(* the journal entry in it, and stores the raw bytes after its commit.     *)
(* Mailboxes are reconciled by the leader's timer, and by whichever        *)
(* process has served a change to one.  One mailbox is modelled.           *)
(***************************************************************************)
EXTENDS Naturals, FiniteSets

CONSTANTS Messages,   \* message ids
          Letters,    \* those that make a journal entry: not bounces nor automatic mail
          Pushed,     \* messages that the provider also posts to the webhook
          Processes,  \* servers
          Leader,     \* the one whose mail worker runs
          Hook,       \* the webhook's request
          DeleteAfterFetch, \* setting of the mailbox
          MaxFaults,  \* bound: failures, crashes and lost connections
          MaxToggles, \* bound: changes of the mailbox
          Absent

ASSUME PushAssumption   == Letters \union Pushed \subseteq Messages
ASSUME DoorAssumption   == Leader \in Processes /\ Hook \notin Processes
ASSUME FlagAssumption   == DeleteAfterFetch \in BOOLEAN
ASSUME BoundsAssumption == {MaxFaults, MaxToggles} \subseteq Nat

VARIABLES
    uid,     \* [Messages -> UID in the folder, 0 is not there]
    flagged, \* messages flagged \Deleted
    push,    \* messages the provider goes on posting
    active,  \* mail_accounts.is_active
    cursor,  \* mail_accounts.health -> sync -> folder -> lastUid
    ledger,  \* message ids in mail_messages, committed
    entries, \* [Messages -> journal entries made from it]
    raw,     \* messages whose raw bytes are in their final place
    conn,    \* [Processes -> the mailbox's connection]
    ing,     \* [Processes and Hook -> the ingestRaw under way]
    patched, \* processes that owe a reconcile to a request
    seen,    \* history: messages that have arrived
    failed,  \* history: messages one ingestRaw of which has failed
    cut,     \* history: messages whose raw bytes were not stored after the commit
    faults,  \* faults so far
    toggles  \* changes so far

desk == <<ledger, entries, raw, cut>>
env  == <<uid, flagged, push, active, seen>>
mailVars == <<desk, env, cursor, conn, ing, patched, failed, faults, toggles>>

Doors == Processes \union {Hook}

NoConn == [listed |-> FALSE, alive |-> FALSE, up |-> FALSE, todo |-> {}]
Resting == [pc |-> "idle", msg |-> Absent]

MailInit ==
    /\ uid = [m \in Messages |-> 0]
    /\ flagged = {} /\ push = {} /\ active = TRUE /\ seen = {}
    /\ cursor = Absent
    /\ ledger = {} /\ entries = [m \in Messages |-> 0] /\ raw = {} /\ cut = {}
    /\ conn = [p \in Processes |-> NoConn]
    /\ ing = [d \in Doors |-> Resting]
    /\ patched = {} /\ failed = {}
    /\ faults = 0 /\ toggles = 0

Fault == faults < MaxFaults /\ faults' = faults + 1 /\ UNCHANGED toggles

-----------------------------------------------------------------------------
(* The mailbox and its administrators *)

\* Mail arrives in the folder, under the next UID, and at the webhook.
MailArrives(m) ==
    /\ m \notin seen
    /\ seen' = seen \union {m}
    /\ uid' = [uid EXCEPT ![m] = Cardinality(seen) + 1]
    /\ push' = push \union ({m} \intersect Pushed)
    /\ UNCHANGED <<desk, flagged, active, cursor, conn, ing, patched, failed, faults, toggles>>

\* What is flagged \Deleted goes when anybody expunges the folder.
Expunge(m) ==
    /\ m \in flagged
    /\ flagged' = flagged \ {m}
    /\ uid' = [uid EXCEPT ![m] = 0]
    /\ UNCHANGED <<desk, push, active, seen, cursor, conn, ing, patched, failed, faults, toggles>>

\* PATCH of the mailbox, served by p, which then reconciles without waiting.
Toggle(p) ==
    /\ toggles < MaxToggles /\ toggles' = toggles + 1
    /\ active' = ~active
    /\ patched' = patched \union {p}
    /\ UNCHANGED <<desk, uid, flagged, push, seen, cursor, conn, ing, failed, faults>>

-----------------------------------------------------------------------------
(* The claim of a message id, the first statement of ingestRaw *)

\* A faulty claim: the id is looked up, and others that are about to commit it
\* are not waited for.
Claim_LookedUp(d, m) ==
    /\ ing' = [ing EXCEPT ![d] = [msg |-> m, pc |-> IF m \in ledger THEN "done" ELSE "held"]]
    /\ UNCHANGED <<desk, env, cursor, conn, patched, failed, faults, toggles>>

\* The insert of an id waits for a transaction that has claimed it, and gives up
\* when the id is there.
Claim(d, m) ==
    /\ \A other \in Doors : ing[other] # [pc |-> "held", msg |-> m]
    /\ ing' = [ing EXCEPT ![d] = [msg |-> m, pc |-> IF m \in ledger THEN "done" ELSE "held"]]
    /\ UNCHANGED <<desk, env, cursor, conn, patched, failed, faults, toggles>>

-----------------------------------------------------------------------------
(* Connections *)

\* A connection that is listed is taken to be running.
Reconcile(p) ==
    /\ p = Leader \/ p \in patched
    /\ patched' = patched \ {p}
    /\ IF active
         THEN conn' = IF conn[p].listed THEN conn
                      ELSE [conn EXCEPT ![p] = [NoConn EXCEPT !.listed = TRUE, !.alive = TRUE]]
         ELSE conn' = [conn EXCEPT ![p] = NoConn]
    /\ UNCHANGED <<desk, env, cursor, ing, failed, faults, toggles>>

\* The loop connects, or ends for good when the mailbox is not active.
Connect(p) ==
    /\ conn[p].alive /\ ~conn[p].up
    /\ conn' = IF active THEN [conn EXCEPT ![p].up = TRUE] ELSE [conn EXCEPT ![p].alive = FALSE]
    /\ UNCHANGED <<desk, env, cursor, ing, patched, failed, faults, toggles>>

\* The connection is lost: the fetch ends after the message in hand.
Drop(p) ==
    /\ Fault
    /\ conn[p].up
    /\ conn' = [conn EXCEPT ![p].up = FALSE, ![p].todo = {}]
    /\ UNCHANGED <<desk, env, cursor, ing, patched, failed>>

\* A faulty cursor: only what IDLE reports, the newest message, is new.
LastUid_Newest == IF seen = {} THEN 0 ELSE Cardinality(seen) - 1

\* A pass, on connect, on IDLE's word or by the poll timer, takes everything
\* after the cursor.
LastUid == IF cursor = Absent THEN 0 ELSE cursor

SyncStart(p) ==
    /\ conn[p].up /\ conn[p].todo = {} /\ ing[p].pc = "idle"
    /\ conn' = [conn EXCEPT ![p].todo = {m \in Messages : uid[m] > LastUid}]
    /\ conn' # conn
    /\ UNCHANGED <<desk, env, cursor, ing, patched, failed, faults, toggles>>

\* The next message by UID.
Fetch(p) ==
    /\ conn[p].up /\ ing[p].pc = "idle"
    /\ \E m \in conn[p].todo : /\ \A n \in conn[p].todo : uid[m] <= uid[n]
                               /\ Claim(p, m)

\* jsonb_set(health, {sync, folder}, state, true) creates the last step of its
\* path and none before it, and nothing else creates health.sync.
JsonbSet(old, new) == IF old = Absent THEN old ELSE new

\* After the message, ingested or not, the cursor and then the flag, which may
\* fail unheard.
Advance(p) ==
    LET m == ing[p].msg
    IN  /\ ing[p].pc = "done"
        /\ cursor' = JsonbSet(cursor, uid[m])
        /\ conn' = [conn EXCEPT ![p].todo = @ \ {m}]
        /\ flagged' = IF DeleteAfterFetch /\ conn[p].up /\ uid[m] # 0
                        THEN flagged \union {m} ELSE flagged
        /\ ing' = [ing EXCEPT ![p] = Resting]
        /\ UNCHANGED <<desk, uid, push, active, seen, patched, failed, faults, toggles>>

\* The webhook: a provider posts until it is answered 2xx.
Post(m) == m \in push /\ ing[Hook].pc = "idle" /\ Claim(Hook, m)

Answer ==
    /\ ing[Hook].pc = "done"
    /\ push' = push \ {ing[Hook].msg}
    /\ ing' = [ing EXCEPT ![Hook] = Resting]
    /\ UNCHANGED <<desk, uid, flagged, active, seen, cursor, conn, patched, failed,
                   faults, toggles>>

-----------------------------------------------------------------------------
(* The rest of ingestRaw *)

\* The claim and what is made of the message become visible together; bounces
\* and automatic mail are recorded and make no entry.
Ingest(d) ==
    LET m == ing[d].msg
    IN  /\ ing[d].pc = "held"
        /\ ledger' = ledger \union {m}
        /\ entries' = IF m \in Letters THEN [entries EXCEPT ![m] = @ + 1] ELSE entries
        /\ ing' = [ing EXCEPT ![d].pc = "stored"]
        /\ UNCHANGED <<raw, cut, env, cursor, conn, patched, failed, faults, toggles>>

StoreRaw(d) ==
    /\ ing[d].pc = "stored"
    /\ raw' = raw \union {ing[d].msg}
    /\ ing' = [ing EXCEPT ![d].pc = "done"]
    /\ UNCHANGED <<ledger, entries, cut, env, cursor, conn, patched, failed, faults, toggles>>

\* ingestRaw throws, before its commit or after it.  The fetch goes on to the
\* next message; the provider is to post again.
IngestFails(d) ==
    LET m == ing[d].msg
    IN  /\ Fault
        /\ ing[d].pc \in {"held", "stored"}
        /\ failed' = failed \union {m}
        /\ cut' = IF ing[d].pc = "stored" THEN cut \union {m} ELSE cut
        /\ ing' = [ing EXCEPT ![d] = IF d = Hook THEN Resting ELSE [@ EXCEPT !.pc = "done"]]
        /\ UNCHANGED <<ledger, entries, raw, env, cursor, conn, patched>>

\* A process dies, and the requests it serves with it.
Crash(p) ==
    /\ Fault
    /\ \E gone \in {{p}, {p, Hook}} :
          /\ cut' = cut \union {ing[d].msg : d \in {e \in gone : ing[e].pc = "stored"}}
          /\ ing' = [d \in Doors |-> IF d \in gone THEN Resting ELSE ing[d]]
    /\ conn' = [conn EXCEPT ![p] = NoConn]
    /\ patched' = patched \ {p}
    /\ UNCHANGED <<ledger, entries, raw, env, cursor, failed>>

MailNext ==
    \/ \E m \in Messages : MailArrives(m) \/ Expunge(m) \/ Post(m)
    \/ \E p \in Processes :
          \/ Toggle(p) \/ Reconcile(p) \/ Connect(p) \/ Drop(p)
          \/ SyncStart(p) \/ Fetch(p) \/ Advance(p) \/ Crash(p)
    \/ Answer
    \/ \E d \in Doors : Ingest(d) \/ StoreRaw(d) \/ IngestFails(d)

MailSpec == MailInit /\ [][MailNext]_mailVars

\* The reconcile, connect and poll timers fire, a provider posts again, and a
\* request that is under way goes on.
MailFairSpec ==
    /\ MailSpec
    /\ WF_mailVars(Reconcile(Leader))
    /\ \A p \in Processes :
         WF_mailVars(Connect(p)) /\ WF_mailVars(SyncStart(p) \/ Fetch(p) \/ Advance(p))
    /\ \A d \in Doors : WF_mailVars(Ingest(d) \/ StoreRaw(d))
    /\ WF_mailVars(Answer \/ \E m \in Messages : Post(m))

-----------------------------------------------------------------------------
(* Properties *)

\* The types of the variables.
MailTypeOK ==
    /\ uid \in [Messages -> 0 .. Cardinality(seen)]
    /\ flagged \in SUBSET Messages /\ push \in SUBSET Pushed
    /\ active \in BOOLEAN
    /\ cursor \in Nat \union {Absent}
    /\ ledger \in SUBSET Messages /\ raw \in SUBSET Messages /\ cut \in SUBSET Messages
    /\ seen \in SUBSET Messages /\ failed \in SUBSET Messages
    /\ entries \in [Messages -> Nat]
    /\ conn \in [Processes -> [listed : BOOLEAN, alive : BOOLEAN, up : BOOLEAN,
                               todo : SUBSET Messages]]
    /\ ing \in [Doors -> [pc : {"idle", "held", "stored", "done"},
                          msg : Messages \union {Absent}]]
    /\ patched \in SUBSET Processes

\* However often a message is delivered, by whichever door and around whatever
\* fails, it makes one entry when it is mail and none otherwise, and the entry
\* and the record of the message are there together.
OneEntryPerMessage ==
    \A m \in Messages : entries[m] = IF m \in ledger /\ m \in Letters THEN 1 ELSE 0

\* A recorded message has its raw bytes, and raw bytes have their record, unless
\* what came after the commit was cut off, which no redelivery makes good.
RawBehindRecord ==
    \A m \in Messages :
       /\ m \in raw => m \in ledger
       /\ m \in ledger =>
             \/ m \in raw \union cut
             \/ \E d \in Doors : ing[d] = [pc |-> "stored", msg |-> m]

\* A message that has arrived is in its folder or on record, unless the desk has
\* failed on it.
KeptUntilRecorded ==
    \A m \in seen : uid[m] = 0 /\ m \notin flagged => m \in ledger \union failed

\* No mail is lost and none is doubled, whatever is redelivered, cut off or
\* fails: a message is recorded once and wholly, with its entry and its bytes,
\* and stays in its folder until it is.
MailIsKept == MailTypeOK /\ OneEntryPerMessage /\ RawBehindRecord /\ KeptUntilRecorded

\* The leader lists a connection whose loop has ended.
Wedged == conn[Leader].listed /\ ~conn[Leader].alive

Settled(m) == m \in ledger \union failed

\* While the mailbox stays active and its connection is not wedged, every
\* message that arrives is settled in the end.
MailIsCollected ==
    <>[](active /\ ~Wedged) => \A m \in Messages : m \in seen ~> Settled(m)
=============================================================================
