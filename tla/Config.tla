-------------------------------- MODULE Config --------------------------------
(***************************************************************************)
(* The configuration store (services/configObject.service.ts, with the     *)
(* import of a bundle of configBundle.service.ts and the rule toggle of    *)
(* rule.service.ts).                                                       *)
(*                                                                         *)
(* An object is one row: a body, a status and a version, and an append-    *)
(* only history of the bodies that were published.  The engines read the   *)
(* rows whose status is published.  Every operation reads the row without  *)
(* a lock, decides (publishing runs the linter, over its own connection),  *)
(* and then writes by id and commits; between the read and the write other *)
(* operations commit.                                                      *)
(***************************************************************************)
EXTENDS Naturals

CONSTANTS Objects,     \* (kind, slug) pairs
          Bodies,      \* what a body may say
          Broken,      \* the bodies the linter refuses
          Admins,      \* those who edit the configuration
          MaxVersion,  \* bound: version of a row
          MaxIds,      \* bound: rows ever inserted
          Nil

ASSUME BodiesAssumption ==
    /\ Nil \notin Bodies /\ Nil \notin Objects
    /\ Broken \subseteq Bodies
ASSUME BoundsAssumption == MaxVersion \in Nat /\ MaxIds \in Nat

VARIABLES
    rows,    \* [Objects -> row]; status "none" is no row
    history, \* config_object_versions: [id, version, body]
    lastId,  \* the sequence of config_objects.id
    tx,      \* [Admins -> the operation an administrator has under way]
    raced    \* history: objects written over a row that had changed since its read

configVars == <<rows, history, lastId, tx, raced>>

NoObject == [id |-> 0, status |-> "none", version |-> 0, body |-> Nil]
NoTx  == [pc |-> "idle", op |-> "none", on |-> Nil, arg |-> Nil, seen |-> NoObject,
          live |-> FALSE]

Exists(o) == rows[o].status # "none"

ConfigInit ==
    /\ rows = [o \in Objects |-> NoObject]
    /\ history = {}
    /\ lastId = 0
    /\ tx = [a \in Admins |-> NoTx]
    /\ raced = {}

\* lintObjects, with no finding of severity error.  What a body refers to is
\* taken to stay as it is.
Lints(b) == b \notin Broken

Step(a, new) == tx' = [tx EXCEPT ![a] = new]

\* The UPDATE or INSERT of a row with its version of the history, and the end
\* of the transaction.  Writing over a row that was deleted, or inserting one
\* that was inserted meanwhile, fails and rolls back.
CommitRow(a, new, versions, next) ==
    LET o == tx[a].on
    IN  /\ IF rows[o].id = tx[a].seen.id
             THEN /\ rows' = [rows EXCEPT ![o] = new]
                  /\ history' = history \union versions
                  /\ raced' = IF rows[o] = tx[a].seen THEN raced ELSE raced \union {o}
                  /\ lastId' = IF new.id > lastId THEN new.id ELSE lastId
                  /\ Step(a, next)
             ELSE Step(a, NoTx) /\ UNCHANGED <<rows, history, raced, lastId>>

\* A faulty history: a retried publish writes over the version.
Versioned_Upsert(id, v, b) == {[id |-> id, version |-> v, body |-> b]}

\* ON CONFLICT (config_object_id, version) DO NOTHING.
Versioned(id, v, b) ==
    IF \E h \in history : h.id = id /\ h.version = v THEN {}
    ELSE {[id |-> id, version |-> v, body |-> b]}

-----------------------------------------------------------------------------
(* Operations of one step: what they read does not matter to what they write *)

CreateDraft(o, b) ==
    /\ ~Exists(o) /\ lastId < MaxIds
    /\ rows' = [rows EXCEPT ![o] = [id |-> lastId + 1, status |-> "draft",
                                    version |-> 1, body |-> b]]
    /\ lastId' = lastId + 1
    /\ UNCHANGED <<history, tx, raced>>

Archive(o) ==
    /\ Exists(o) /\ rows[o].status # "archived"
    /\ rows' = [rows EXCEPT ![o].status = "archived"]
    /\ UNCHANGED <<history, lastId, tx, raced>>

\* A rollback is an edit: it lands as a draft.
Revert(o, h) ==
    /\ Exists(o) /\ h.id = rows[o].id
    /\ rows' = [rows EXCEPT ![o].body = h.body, ![o].status = "draft"]
    /\ UNCHANGED <<history, lastId, tx, raced>>

\* The history goes with the object (ON DELETE CASCADE).
Delete(o) ==
    /\ Exists(o)
    /\ rows' = [rows EXCEPT ![o] = NoObject]
    /\ history' = {h \in history : h.id # rows[o].id}
    /\ raced' = raced \ {o}
    /\ UNCHANGED <<lastId, tx>>

-----------------------------------------------------------------------------
(* Editing *)

\* The editor remembers the version it shows and sends it as baseVersion.
OpenEditor(a, o) ==
    /\ tx[a].pc = "idle" /\ Exists(o)
    /\ Step(a, [NoTx EXCEPT !.pc = "editor", !.on = o,
                            !.seen.version = rows[o].version])
    /\ UNCHANGED <<rows, history, lastId, raced>>

UpdateRead(a, b) ==
    LET o == tx[a].on
    IN  /\ tx[a].pc = "editor"
        /\ Exists(o) /\ rows[o].version = tx[a].seen.version
        /\ Step(a, [tx[a] EXCEPT !.pc = "write", !.op = "update", !.arg = b,
                                 !.seen = rows[o]])
        /\ UNCHANGED <<rows, history, lastId, raced>>

\* Faulty edits: the object stays published; a status that nothing else knows.
EditedStatus_Kept(seen) == seen.status
\* An edit takes the object back to draft.
EditedStatus(seen) == IF seen.status = "archived" THEN "archived" ELSE "draft"

UpdateWrite(a) ==
    LET o == tx[a].on
    IN  /\ tx[a].pc = "write" /\ tx[a].op \in {"update", "toggle"}
        /\ CommitRow(a, [rows[o] EXCEPT !.body = tx[a].arg,
                                        !.status = EditedStatus(tx[a].seen)],
                     {},
                     IF tx[a].live THEN [NoTx EXCEPT !.pc = "again", !.on = o] ELSE NoTx)

RestoreRead(a, o) ==
    /\ tx[a].pc = "idle" /\ rows[o].status = "archived"
    /\ Step(a, [NoTx EXCEPT !.pc = "write", !.op = "restore", !.on = o, !.seen = rows[o]])
    /\ UNCHANGED <<rows, history, lastId, raced>>

RestoreWrite(a) ==
    /\ tx[a].pc = "write" /\ tx[a].op = "restore"
    /\ CommitRow(a, [rows[tx[a].on] EXCEPT !.status = "draft"], {}, NoTx)

-----------------------------------------------------------------------------
(* Publishing *)

\* publishConfigObject, also as the second half of a rule toggle.
PublishRead(a, o) ==
    /\ tx[a].pc = "idle" \/ (tx[a].pc = "again" /\ tx[a].on = o)
    /\ Exists(o) /\ rows[o].version < MaxVersion
    /\ Step(a, [NoTx EXCEPT !.pc = "lint", !.op = "publish", !.on = o, !.seen = rows[o],
                            !.arg = rows[o].body])
    /\ UNCHANGED <<rows, history, lastId, raced>>

\* createConfigObject that publishes at once: the row is not yet visible.
CreateRead(a, o, b) ==
    /\ tx[a].pc = "idle" /\ ~Exists(o)
    /\ Step(a, [NoTx EXCEPT !.pc = "lint", !.op = "create", !.on = o, !.arg = b])
    /\ UNCHANGED <<rows, history, lastId, raced>>

\* A blocking finding rolls the transaction back.
Lint(a) ==
    /\ tx[a].pc = "lint"
    /\ Step(a, IF Lints(tx[a].arg) THEN [tx[a] EXCEPT !.pc = "write"] ELSE NoTx)
    /\ UNCHANGED <<rows, history, lastId, raced>>

\* publishWithin writes status and version, and leaves the row's body to be
\* whatever it is by now; the history gets the body that was read.
PublishWrite(a) ==
    LET v == tx[a].seen.version + 1
    IN  /\ tx[a].pc = "write" /\ tx[a].op = "publish"
        /\ CommitRow(a, [rows[tx[a].on] EXCEPT !.status = "published", !.version = v],
                     Versioned(tx[a].seen.id, v, tx[a].arg), NoTx)

CreateWrite(a) ==
    /\ tx[a].pc = "write" /\ tx[a].op = "create" /\ lastId < MaxIds
    /\ CommitRow(a, [id |-> lastId + 1, status |-> "published", version |-> 2,
                     body |-> tx[a].arg],
                 Versioned(lastId + 1, 2, tx[a].arg), NoTx)

\* applyImport: the plan lints the incoming body, the transaction then reads
\* the version of the row and writes the body over it, published.
ImportPlan(a, o, b) ==
    /\ tx[a].pc = "idle"
    /\ Lints(b)
    /\ Step(a, [NoTx EXCEPT !.pc = "import", !.op = "import", !.on = o, !.arg = b])
    /\ UNCHANGED <<rows, history, lastId, raced>>

ImportRead(a) ==
    /\ tx[a].pc = "import"
    /\ Step(a, [tx[a] EXCEPT !.pc = "write", !.seen = rows[tx[a].on]])
    /\ UNCHANGED <<rows, history, lastId, raced>>

ImportWrite(a) ==
    LET seen == tx[a].seen
        id   == IF seen.id = 0 THEN lastId + 1 ELSE seen.id
        v    == seen.version + 1
    IN  /\ tx[a].pc = "write" /\ tx[a].op = "import"
        /\ v <= MaxVersion /\ id <= MaxIds
        /\ CommitRow(a, [id |-> id, status |-> "published", version |-> v, body |-> tx[a].arg],
                     Versioned(id, v, tx[a].arg), NoTx)

-----------------------------------------------------------------------------
(* A rule is switched on or off, or moved: read, edit and publish, a         *)
(* transaction each.  The flag is data; the rest of the body is what it was. *)

ToggleRead(a, o) ==
    /\ tx[a].pc = "idle" /\ Exists(o)
    /\ Step(a, [NoTx EXCEPT !.pc = "toggle", !.on = o, !.arg = rows[o].body,
                            !.live = (rows[o].status = "published")])
    /\ UNCHANGED <<rows, history, lastId, raced>>

ToggleUpdate(a) ==
    /\ tx[a].pc = "toggle" /\ Exists(tx[a].on)
    /\ Step(a, [tx[a] EXCEPT !.pc = "write", !.op = "toggle", !.seen = rows[tx[a].on]])
    /\ UNCHANGED <<rows, history, lastId, raced>>

\* 404, 409, a failed statement, an editor closed, a process that dies: the
\* transaction under way is rolled back, those before it stay.
Abort(a) ==
    /\ tx[a].pc # "idle"
    /\ Step(a, NoTx)
    /\ UNCHANGED <<rows, history, lastId, raced>>

ConfigNext ==
    \/ \E o \in Objects : \/ \E b \in Bodies : CreateDraft(o, b)
                          \/ Archive(o) \/ Delete(o)
                          \/ \E h \in history : Revert(o, h)
    \/ \E a \in Admins, o \in Objects :
          \/ OpenEditor(a, o) \/ RestoreRead(a, o) \/ PublishRead(a, o) \/ ToggleRead(a, o)
          \/ \E b \in Bodies : CreateRead(a, o, b) \/ ImportPlan(a, o, b)
    \/ \E a \in Admins : \/ \E b \in Bodies : UpdateRead(a, b)
                         \/ UpdateWrite(a) \/ RestoreWrite(a) \/ Lint(a)
                         \/ PublishWrite(a) \/ CreateWrite(a)
                         \/ ImportRead(a) \/ ImportWrite(a)
                         \/ ToggleUpdate(a) \/ Abort(a)

ConfigSpec == ConfigInit /\ [][ConfigNext]_configVars

-----------------------------------------------------------------------------
(* Properties *)

Rows == [id : Nat, status : {"none", "draft", "published", "archived"}, version : Nat,
         body : Bodies \union {Nil}]

ConfigTypeOK ==
    /\ rows \in [Objects -> Rows]
    /\ history \in SUBSET [id : Nat, version : Nat, body : Bodies]
    /\ lastId \in Nat
    /\ tx \in [Admins -> [pc : {"idle", "editor", "lint", "write", "import", "toggle", "again"},
                          op : {"none", "update", "toggle", "restore", "publish", "create",
                                "import"},
                          on : Objects \union {Nil}, arg : Bodies \union {Nil},
                          seen : Rows, live : BOOLEAN]]
    /\ raced \in SUBSET Objects

\* No body that the linter refuses is in the history.
NothingRefused == \A h \in history : h.body \notin Broken

\* A version names one body, and the version an engine quotes is in the history.
VersionsAreKept ==
    /\ \A g, h \in history : g.id = h.id /\ g.version = h.version => g = h
    /\ \A o \in Objects : rows[o].status = "published" =>
          \E h \in history : h.id = rows[o].id /\ h.version = rows[o].version

\* Whatever administrators do at once, every version a decision may name is in
\* the history, names one body for good, also after a stale publish has set the
\* version back, and is never a body that the linter refused.
HistoryIsSound == ConfigTypeOK /\ NothingRefused /\ VersionsAreKept

\* What the engines run is the body that was linted and kept under its version.
ReplayIsExact(o) ==
    rows[o].status = "published" =>
        [id |-> rows[o].id, version |-> rows[o].version, body |-> rows[o].body] \in history

\* It is, as long as nobody wrote over a row that had changed since it was read.
ExactUnlessRaced == \A o \in Objects \ raced : ReplayIsExact(o)
=============================================================================
