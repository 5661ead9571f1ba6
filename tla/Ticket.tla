-------------------------------- MODULE Ticket --------------------------------
(***************************************************************************)
(* Tickets under concurrent writers (services/ticket.service.ts).          *)
(*                                                                         *)
(* A ticket's row carries row_version.  Agents edit and move it against    *)
(* the version their form shows; a bulk action edits many tickets in a     *)
(* transaction each and leaves an undo token in memory; a merge, its       *)
(* revert and a reopening write without a version of their own;            *)
(* the recovery of an alert reads the ticket before it locks it.           *)
(*                                                                         *)
(* Each write below is one transaction that holds the row's lock from its  *)
(* check to its commit (lockTicket); what is read before the lock is read  *)
(* by a step of its own.                                                   *)
(***************************************************************************)
EXTENDS Naturals, FiniteSets, FiniteSetsExt

CONSTANTS Tickets,    \* the tickets that may come to exist
          Agents,     \* agents with a form open
          Values,     \* what an editable field (assignee, priority...) may hold
          MaxWrites,  \* bound: writes of rows, creations included
          MaxMerges,  \* bound: merges carried out
          MaxInFlight,\* bound: forms, bulk actions and recoveries under way together
          Nil         \* no ticket; SQL NULL

ASSUME NilAssumption    == Nil \notin Tickets \union Values
ASSUME BoundsAssumption == MaxWrites \in Nat /\ MaxMerges \in Nat /\ MaxInFlight \in Nat

VARIABLES
    rows,       \* [Tickets -> [number, doc]]; number 0 is no row
    links,      \* ticket_link rows of kind merged_from: <<source, target>>
    manifests,  \* merge manifests in the journals: [id, source, target, status, into]
    lastNumber, \* ticket_sequences.last_number
    form,       \* [Agents -> the ticket an agent looks at and what was read of it]
    bulk,       \* a bulk action: [pc, todo, base, value, seen, at, noted, undo]
    recovery    \* a recovery being ingested: [pc, on, worked, seen]

vars == <<rows, links, manifests, lastNumber, form, bulk, recovery>>

Statuses == {"open", "pending", "resolved", "closed", "cancelled"}
Terminal == {"closed", "cancelled"}

\* The seeded state machine's edges, by the category of their ends ("open" is
\* every category an agent works in).  The last one is reinstate.
Moves == {<<"open", "pending">>, <<"pending", "open">>, <<"open", "resolved">>,
          <<"pending", "resolved">>, <<"resolved", "closed">>, <<"resolved", "open">>,
          <<"closed", "open">>, <<"open", "cancelled">>, <<"pending", "cancelled">>,
          <<"cancelled", "open">>}

Docs == [ver : Nat, val : Values \union {Nil}, status : Statuses, into : Tickets \union {Nil}]

\* What the undo journal keeps of a ticket; the status is history, which the
\* code does not keep.
Undos  == [val : Values \union {Nil}, was : Statuses]
NoUndo == [val |-> Nil, was |-> "open"]

NoDoc == [ver |-> 0, val |-> Nil, status |-> "open", into |-> Nil]
NoForm     == [on |-> Nil, seen |-> NoDoc]
NoBulk     == [pc |-> "idle", todo |-> {}, base |-> [t \in Tickets |-> 0], value |-> Nil,
               seen |-> NoDoc, at |-> Nil, noted |-> {},
               undo |-> [t \in Tickets |-> NoUndo]]
NoRecovery == [pc |-> "idle", on |-> Nil, worked |-> FALSE, seen |-> NoDoc]

InFlight == Cardinality({a \in Agents : form[a].on # Nil})
            + (IF bulk.pc = "idle" THEN 0 ELSE 1)
            + (IF recovery.pc = "idle" THEN 0 ELSE 1)

Exists(t) == rows[t].number # 0
Doc(t)    == rows[t].doc

Init ==
    /\ rows = [t \in Tickets |-> [number |-> 0, doc |-> NoDoc]]
    /\ links = {}
    /\ manifests = {}
    /\ lastNumber = 0
    /\ form = [a \in Agents |-> NoForm]
    /\ bulk = NoBulk
    /\ recovery = NoRecovery

-----------------------------------------------------------------------------
(* Writing a row *)

\* Every write of the editable columns counts the version up.
Bumped(doc, new) == [new EXCEPT !.ver = doc.ver + 1]

Version(t) == Doc(t).ver
Writes     == MapThenSumSet(Version, Tickets)

\* One locked UPDATE of the row of t.
Write(t, new) == /\ Writes < MaxWrites
                 /\ rows' = [rows EXCEPT ![t].doc = Bumped(@, new)]

-----------------------------------------------------------------------------
(* Creation and numbers *)

\* allocateTicketNumber: the sequence row stays locked until the ticket that
\* takes the number commits; a creation that rolls back gives it back.
Allocated == lastNumber + 1

Create(t, v) ==
    /\ ~Exists(t)
    /\ rows' = [rows EXCEPT ![t] = [number |-> Allocated,
                                    doc |-> [NoDoc EXCEPT !.ver = 1, !.val = v]]]
    /\ lastNumber' = Allocated
    /\ UNCHANGED <<links, manifests, form, bulk, recovery>>

-----------------------------------------------------------------------------
(* One agent, one form *)

Open(a, t) ==
    /\ form[a].on = Nil
    /\ InFlight < MaxInFlight
    /\ Exists(t)
    /\ form' = [form EXCEPT ![a] = [on |-> t, seen |-> Doc(t)]]
    /\ UNCHANGED <<rows, links, manifests, lastNumber, bulk, recovery>>

\* A faulty check: the base version of the request is ignored.
Current_Any(a) == form[a].on # Nil

\* The row still has the version the form was read at.
Current(a) == form[a].on # Nil /\ form[a].seen.ver = Doc(form[a].on).ver

CloseForm(a) == form' = [form EXCEPT ![a] = NoForm]

\* update(): the patch lands on the version it was made against.
Save(a, v) ==
    /\ Current(a)
    /\ v # Doc(form[a].on).val
    /\ Write(form[a].on, [Doc(form[a].on) EXCEPT !.val = v])
    /\ CloseForm(a)
    /\ UNCHANGED <<links, manifests, lastNumber, bulk, recovery>>

\* transition(): a move the state machine knows.
Transition(a, s) ==
    /\ Current(a)
    /\ <<Doc(form[a].on).status, s>> \in Moves
    /\ Write(form[a].on, [Doc(form[a].on) EXCEPT !.status = s])
    /\ CloseForm(a)
    /\ UNCHANGED <<links, manifests, lastNumber, bulk, recovery>>

\* 409 version_conflict, or the agent gives up: nothing is written.
Dismiss(a) ==
    /\ form[a].on # Nil
    /\ CloseForm(a)
    /\ UNCHANGED <<rows, links, manifests, lastNumber, bulk, recovery>>

-----------------------------------------------------------------------------
(* Writers without a version *)

\* Only a resolved or closed ticket can be reopened: a cancelled one cannot.
Reopen(t) ==
    /\ Exists(t)
    /\ Doc(t).status \in {"resolved", "closed"}
    /\ Write(t, [Doc(t) EXCEPT !.status = "open"])
    /\ UNCHANGED <<links, manifests, lastNumber, form, bulk, recovery>>

\* The source is folded into the target and cancelled, whatever its own
\* status; the manifest remembers what it was.
Merge(source, target) ==
    /\ Exists(source) /\ Exists(target) /\ source # target
    /\ Cardinality(manifests) < MaxMerges
    /\ Doc(target).status \notin Terminal
    /\ Doc(source).into # target
    /\ Write(source, [Doc(source) EXCEPT !.into = target, !.status = "cancelled"])
    /\ links' = links \union {<<source, target>>}
    /\ manifests' = manifests \union
           {[id |-> Cardinality(manifests) + 1, source |-> source, target |-> target,
             status |-> Doc(source).status, into |-> Doc(source).into]}
    /\ UNCHANGED <<lastNumber, form, bulk, recovery>>

\* A faulty revert: the version is not counted up.
RevertMerge_SameVersion(m) ==
    /\ m \in manifests
    /\ Doc(m.target).status \notin Terminal
    /\ rows' = [rows EXCEPT ![m.source].doc.into = m.into,
                            ![m.source].doc.status = m.status]
    /\ links' = links \ {<<m.source, m.target>>}
    /\ UNCHANGED <<manifests, lastNumber, form, bulk, recovery>>

\* The manifest is written back over whatever the source has become, and can
\* be written back again: nothing marks it as used.
RevertMerge(m) ==
    /\ m \in manifests
    /\ Doc(m.target).status \notin Terminal
    /\ Write(m.source, [Doc(m.source) EXCEPT !.into = m.into, !.status = m.status])
    /\ links' = links \ {<<m.source, m.target>>}
    /\ UNCHANGED <<manifests, lastNumber, form, bulk, recovery>>

-----------------------------------------------------------------------------
(* Bulk action and its undo *)

\* The browser sends the versions of the list it shows; another caller may
\* send none (0), and the version that bulkApply reads then stands for it.
BulkStart(set, v, versioned) ==
    /\ bulk.pc = "idle"
    /\ InFlight < MaxInFlight
    /\ set # {} /\ \A t \in set : Exists(t)
    /\ bulk' = [NoBulk EXCEPT !.pc = "next", !.todo = set, !.value = v,
                              !.base = [t \in Tickets |->
                                         IF versioned /\ t \in set THEN Doc(t).ver ELSE 0]]
    /\ UNCHANGED <<rows, links, manifests, lastNumber, form, recovery>>

\* getById, outside any lock.
BulkRead(t) ==
    /\ bulk.pc = "next" /\ t \in bulk.todo
    /\ bulk' = [bulk EXCEPT !.pc = "write", !.at = t, !.seen = Doc(t), !.todo = @ \ {t}]
    /\ UNCHANGED <<rows, links, manifests, lastNumber, form, recovery>>

\* The ticket is reported updated and noted for undo, or reported conflicted.
BulkMayWrite(t) ==
    Doc(t).ver = IF bulk.base[t] = 0 THEN bulk.seen.ver ELSE bulk.base[t]

BulkWrite ==
    LET t == bulk.at
    IN  /\ bulk.pc = "write"
        /\ IF BulkMayWrite(t)
             THEN /\ IF Doc(t).val = bulk.value
                       THEN UNCHANGED rows
                       ELSE Write(t, [Doc(t) EXCEPT !.val = bulk.value])
                  /\ bulk' = [bulk EXCEPT !.pc = "next", !.at = Nil, !.seen = NoDoc,
                                          !.base[t] = 0, !.noted = @ \union {t},
                                          !.undo[t] = [val |-> bulk.seen.val,
                                                       was |-> bulk.seen.status]]
             ELSE /\ UNCHANGED rows
                  /\ bulk' = [bulk EXCEPT !.pc = "next", !.at = Nil, !.seen = NoDoc,
                                          !.base[t] = 0]
        /\ UNCHANGED <<links, manifests, lastNumber, form, recovery>>

\* The token is handed out when something was updated; nothing else survives.
BulkDone ==
    /\ bulk.pc = "next" /\ bulk.todo = {}
    /\ bulk' = IF bulk.noted = {} THEN NoBulk
               ELSE [NoBulk EXCEPT !.pc = "done", !.noted = bulk.noted, !.undo = bulk.undo]
    /\ UNCHANGED <<rows, links, manifests, lastNumber, form, recovery>>

\* The token is taken out of the journal before anything is undone.
UndoStart ==
    /\ bulk.pc = "done"
    /\ bulk' = [bulk EXCEPT !.pc = "undo", !.todo = bulk.noted, !.noted = {}]
    /\ UNCHANGED <<rows, links, manifests, lastNumber, form, recovery>>

\* bulkUndo reads the present row and takes its version for the base.
UndoRead(t) ==
    /\ bulk.pc = "undo" /\ t \in bulk.todo
    /\ bulk' = [bulk EXCEPT !.pc = "unwrite", !.at = t, !.seen = Doc(t), !.todo = @ \ {t}]
    /\ UNCHANGED <<rows, links, manifests, lastNumber, form, recovery>>

UndoWrite ==
    LET t == bulk.at
    IN  /\ bulk.pc = "unwrite"
        /\ IF bulk.seen.ver = Doc(t).ver /\ Doc(t).val # bulk.undo[t].val
             THEN Write(t, [Doc(t) EXCEPT !.val = bulk.undo[t].val])
             ELSE UNCHANGED rows
        /\ bulk' = [bulk EXCEPT !.pc = "undo", !.at = Nil, !.seen = NoDoc, !.undo[t] = NoUndo]
        /\ UNCHANGED <<links, manifests, lastNumber, form, recovery>>

\* The undo is over, the token expires, or the process restarts and forgets.
BulkForget ==
    /\ bulk.pc # "idle"
    /\ bulk' = NoBulk
    /\ UNCHANGED <<rows, links, manifests, lastNumber, form, recovery>>

-----------------------------------------------------------------------------
(* Recovery of an alert *)

\* closeTicketForRecovery counts the human replies and the time entries.  They
\* are written without the row's version: whatever the count finds may be out of
\* date when the row is locked, so that any answer is possible.
RecoveryCount(t, worked) ==
    /\ recovery.pc = "idle"
    /\ InFlight < MaxInFlight
    /\ Exists(t)
    /\ recovery' = [NoRecovery EXCEPT !.pc = "counted", !.on = t, !.worked = worked]
    /\ UNCHANGED <<rows, links, manifests, lastNumber, form, bulk>>

\* applyAlertRecovery reads the ticket, then journals, which locks it.
RecoveryRead ==
    /\ recovery.pc = "counted"
    /\ recovery' = [recovery EXCEPT !.pc = "read", !.seen = Doc(recovery.on)]
    /\ UNCHANGED <<rows, links, manifests, lastNumber, form, bulk>>

\* Where the recovery moves the ticket; its own status when it does not.
RecoveryTarget ==
    CASE recovery.seen.status \in Terminal                     -> recovery.seen.status
      [] recovery.worked /\ recovery.seen.status = "open"      -> "open"
      [] recovery.worked /\ recovery.seen.status
                             \in {"pending", "resolved"}       -> "open"
      [] OTHER                                                 -> "resolved"

RecoveryMoves == recovery.seen.status \notin Terminal
                 /\ ~(recovery.worked /\ recovery.seen.status = "open")

\* A faulty recovery: the version is read again when the row is locked.
RecoveryWrite_Late ==
    /\ recovery.pc = "read"
    /\ IF RecoveryMoves
         THEN Write(recovery.on, [Doc(recovery.on) EXCEPT !.status = RecoveryTarget])
         ELSE UNCHANGED rows
    /\ recovery' = NoRecovery
    /\ UNCHANGED <<links, manifests, lastNumber, form, bulk>>

\* transition() with the version that was read: a mismatch rolls the whole
\* ingest back, and the sender may try again.
RecoveryWrite ==
    /\ recovery.pc = "read"
    /\ IF RecoveryMoves /\ recovery.seen.ver = Doc(recovery.on).ver
         THEN Write(recovery.on, [Doc(recovery.on) EXCEPT !.status = RecoveryTarget])
         ELSE UNCHANGED rows
    /\ recovery' = NoRecovery
    /\ UNCHANGED <<links, manifests, lastNumber, form, bulk>>

-----------------------------------------------------------------------------
Next ==
    \/ \E t \in Tickets : \/ \E v \in Values : Create(t, v)
                          \/ Reopen(t) \/ BulkRead(t) \/ UndoRead(t)
                          \/ \E worked \in BOOLEAN : RecoveryCount(t, worked)
    \/ \E a \in Agents : \/ \E t \in Tickets : Open(a, t)
                         \/ \E v \in Values : Save(a, v)
                         \/ \E s \in Statuses : Transition(a, s)
                         \/ Dismiss(a)
    \/ \E s, t \in Tickets : Merge(s, t)
    \/ \E m \in manifests : RevertMerge(m)
    \/ \E set \in SUBSET Tickets, v \in Values, versioned \in BOOLEAN :
           BulkStart(set, v, versioned)
    \/ BulkWrite \/ BulkDone \/ UndoStart \/ UndoWrite \/ BulkForget
    \/ RecoveryRead \/ RecoveryWrite

Spec == Init /\ [][Next]_vars

-----------------------------------------------------------------------------
(* Properties *)

TypeOK ==
    /\ rows \in [Tickets -> [number : Nat, doc : Docs]]
    /\ links \in SUBSET (Tickets \X Tickets)
    /\ manifests \in SUBSET [id : Nat, source : Tickets, target : Tickets,
                             status : Statuses, into : Tickets \union {Nil}]
    /\ lastNumber \in Nat
    /\ form \in [Agents -> [on : Tickets \union {Nil}, seen : Docs]]
    /\ bulk \in [pc : {"idle", "next", "write", "done", "undo", "unwrite"},
                 todo : SUBSET Tickets, base : [Tickets -> Nat], value : Values \union {Nil},
                 seen : Docs, at : Tickets \union {Nil}, noted : SUBSET Tickets,
                 undo : [Tickets -> Undos]]
    /\ recovery \in [pc : {"idle", "counted", "read"}, on : Tickets \union {Nil},
                     worked : BOOLEAN, seen : Docs]

\* A snapshot taken of a ticket: the future versions are not in it, and it is
\* still true of the row as long as the version has not moved.
Faithful(t, seen) == /\ seen.ver <= Doc(t).ver
                     /\ seen.ver = Doc(t).ver => seen = Doc(t)

\* Optimistic locking is sound: whatever merge, revert, reopen, restore, bulk
\* action or recovery wrote in between, a version an agent, a bulk action or a
\* recovery still holds and finds unchanged stands for the very content it
\* read.  This is what makes "base = row_version" mean "nobody wrote since".
VersionIdentifiesContent ==
    /\ \A a \in Agents : form[a].on # Nil => Faithful(form[a].on, form[a].seen)
    /\ bulk.at # Nil => Faithful(bulk.at, bulk.seen)
    /\ recovery.pc = "read" => Faithful(recovery.on, recovery.seen)

\* A merge cancels its source for good: the ticket comes back by a revert,
\* with the status that a merge found, or because somebody who saw it cancelled
\* reinstates it.  A form, a reopening or the recovery of an alert that began
\* before the merge does not bring it back.
CancelledIsLeftKnowingly ==
    [][\A t \in Tickets :
          Doc(t).status = "cancelled" /\ rows'[t].doc.status # "cancelled" =>
             \/ \E a \in Agents : form[a].on = t /\ form[a].seen = Doc(t)
             \/ \E m \in manifests : /\ m.source = t
                                    /\ rows'[t].doc.status = m.status
                                    /\ rows'[t].doc.into = m.into]_vars

\* Numbers are given without gap and never twice, also when creations overlap
\* or take a number and roll back.
NumbersAreDense ==
    /\ {rows[t].number : t \in Tickets} \ {0} = 1..lastNumber
    /\ \A s, t \in Tickets : Exists(s) /\ rows[s].number = rows[t].number => s = t

\* A number stands for one ticket, and a version of it for one content.
NumberAndVersionIdentify == TypeOK /\ NumbersAreDense /\ VersionIdentifiesContent

\* An agent's edit replaces a value the agent had on the screen, never one
\* written since; so does a bulk action, whose undo entry is therefore the
\* value it replaced.
NoBlindOverwrite ==
    [][\A t \in Tickets : Exists(t) /\ rows'[t].doc.val # Doc(t).val =>
          \/ \E a \in Agents : form[a].on = t /\ form[a].seen = Doc(t)
          \/ bulk.pc = "write" /\ bulk.at = t /\ bulk'.undo[t].val = Doc(t).val
          \/ bulk.pc = "unwrite" /\ bulk.at = t /\ bulk.seen = Doc(t)]_vars
=============================================================================
