------------------------------ MODULE BlobStore ------------------------------
(***************************************************************************)
(* Attachments: a row per content, links that count its uses, and a file   *)
(* on disk (services/attachment.service.ts, services/storage.service.ts).  *)
(*                                                                         *)
(* Rows and links change in transactions (READ COMMITTED); the file is     *)
(* put in place before the upload's transaction commits, and removed after *)
(* the transaction of the last unlink has committed.  One process is one   *)
(* request under way, or a client that has uploaded a file without a link  *)
(* and is to post the link later.  The uploads are of one month, so that   *)
(* one content has one path.                                               *)
(***************************************************************************)
EXTENDS Naturals, FiniteSets

CONSTANTS Processes, \* requests under way at once
          Contents,  \* what files may contain, one unit of bytes each
          Entities,  \* tickets and journal entries a file can hang on
          Quota,     \* bytes the tenant may use
          MaxRows,   \* bound: attachment rows ever inserted
          Nil

ASSUME ProcessesAssumption == IsFiniteSet(Processes) /\ Processes # {}
ASSUME QuotaAssumption  == Quota \in Nat
ASSUME BoundsAssumption == MaxRows \in Nat

VARIABLES
    rows,   \* [Contents -> id of the attachments row, 0 is no row]
    links,  \* attachment_links: <<id, entity>>
    files,  \* contents whose file is in its final place
    lastId, \* the sequence of attachments.id
    op,     \* [Processes -> the request it serves]
    raced,  \* history: contents whose file or link was taken by a removal that crossed
    leaked  \* history: contents whose row nobody is left to remove

vars == <<rows, links, files, lastId, op, raced, leaked>>

Free == [pc |-> "idle", content |-> Nil, id |-> 0, entity |-> Nil, draft |-> FALSE]

Init ==
    /\ rows = [c \in Contents |-> 0]
    /\ links = {}
    /\ files = {}
    /\ lastId = 0
    /\ op = [p \in Processes |-> Free]
    /\ raced = {}
    /\ leaked = {}

Goto(p, pc) == op' = [op EXCEPT ![p].pc = pc]

Finish(p) == op' = [op EXCEPT ![p] = Free]

At(pc, c) == {p \in Processes : op[p].pc = pc /\ op[p].content = c}

\* tenantUsage: what committed rows add up to.
Used == Cardinality({c \in Contents : rows[c] # 0})

-----------------------------------------------------------------------------
(* Upload of content c for entity e *)

\* A faulty quota: the row being added is not counted in.
MayStore_Exclusive == Used <= Quota

MayStore == Used + 1 <= Quota

\* The row of the same content is used again; a new one needs quota.  A draft is
\* an upload without a link: entity e is what the client links it to in the end.
UploadRead(p, c, e, draft) ==
    /\ op[p].pc = "idle"
    /\ rows[c] # 0 \/ MayStore
    /\ op' = [op EXCEPT ![p] = [pc |-> IF rows[c] = 0 THEN "staged"
                                       ELSE IF draft THEN "draft" ELSE "dedupe",
                                content |-> c, id |-> rows[c], entity |-> e,
                                draft |-> draft]]
    /\ UNCHANGED <<rows, links, files, lastId, raced, leaked>>

\* INSERT INTO attachments waits for another insert, or for a delete, of the
\* same content to end; a row that is then there is a unique violation, and
\* the staged file is discarded.
UploadInsert(p) ==
    LET c == op[p].content
    IN  /\ op[p].pc = "staged"
        /\ At("inserted", c) \union At("placed", c) \union At("deleted", c) = {}
        /\ IF rows[c] # 0
             THEN Finish(p) /\ UNCHANGED lastId
             ELSE /\ lastId < MaxRows
                  /\ lastId' = lastId + 1
                  /\ op' = [op EXCEPT ![p].pc = "inserted", ![p].id = lastId + 1]
        /\ UNCHANGED <<rows, links, files, raced, leaked>>

\* driver.commit: the staged file is renamed, or dropped for the file that is
\* already there.
UploadPlace(p) ==
    /\ op[p].pc = "inserted"
    /\ files' = files \union {op[p].content}
    /\ Goto(p, "placed")
    /\ UNCHANGED <<rows, links, lastId, raced, leaked>>

\* The row becomes visible, and its first link with it unless it is for a draft.
UploadCommit(p) ==
    /\ op[p].pc = "placed"
    /\ rows' = [rows EXCEPT ![op[p].content] = op[p].id]
    /\ IF op[p].draft
         THEN Goto(p, "draft") /\ UNCHANGED links
         ELSE Finish(p) /\ links' = links \union {<<op[p].id, op[p].entity>>}
    /\ UNCHANGED <<files, lastId, raced, leaked>>

\* linkAttachment, in the upload's transaction or of the draft: the foreign key
\* waits for a delete of the row under way, and there is nothing to
\* link when the row is gone.
DedupeLink(p) ==
    LET c == op[p].content
    IN  /\ op[p].pc \in {"dedupe", "draft"}
        /\ At("deleted", c) = {}
        /\ IF rows[c] = op[p].id THEN Goto(p, "linked") ELSE Finish(p)
        /\ UNCHANGED <<rows, links, files, lastId, raced, leaked>>

\* Until here the link holds a key-share lock on the row.
DedupeCommit(p) ==
    /\ op[p].pc = "linked"
    /\ links' = links \union {<<op[p].id, op[p].entity>>}
    /\ raced' = IF At("doomed", op[p].content) = {} THEN raced
                ELSE raced \union {op[p].content}
    /\ Finish(p)
    /\ UNCHANGED <<rows, files, lastId, leaked>>

-----------------------------------------------------------------------------
(* Removal of the link between content c and entity e *)

\* The requests that hold the deleted links of content c until they end.
Removing(c) == At("unlinked", c) \union At("kept", c) \union At("doomed", c)

\* The DELETE of the link waits for one of the same link, and for the delete of
\* its row, under way.
Unlink(p, c, e) ==
    /\ op[p].pc = "idle"
    /\ rows[c] # 0 /\ <<rows[c], e>> \in links
    /\ At("deleted", c) = {}
    /\ \A q \in Removing(c) : op[q].entity # e
    /\ op' = [op EXCEPT ![p] = [pc |-> "unlinked", content |-> c, id |-> rows[c],
                                entity |-> e, draft |-> FALSE]]
    /\ UNCHANGED <<rows, links, files, lastId, raced, leaked>>

\* The links a transaction counts after its own delete: those of others that
\* have committed, also those another transaction is about to delete.
Remaining(p) == {l \in links : l[1] = op[p].id /\ l[2] # op[p].entity}

\* Two removals of the last two links each count the other one's.
Crossed(p) == \A l \in Remaining(p) :
                 \E q \in Removing(op[p].content) :
                    q # p /\ <<op[q].id, op[q].entity>> = l

\* A faulty count: every row stays.
UnlinkKeep_Always(p) ==
    /\ op[p].pc = "unlinked"
    /\ Goto(p, "kept")
    /\ UNCHANGED <<rows, links, files, lastId, raced, leaked>>

\* A row with links left stays.
UnlinkKeep(p) ==
    /\ op[p].pc = "unlinked"
    /\ Remaining(p) # {}
    /\ Goto(p, "kept")
    /\ leaked' = IF Crossed(p) THEN leaked \union {op[p].content} ELSE leaked
    /\ UNCHANGED <<rows, links, files, lastId, raced>>

\* A faulty count: the link is gone, so is the row.
UnlinkLast_Always(p) ==
    /\ op[p].pc = "unlinked"
    /\ Goto(p, "doomed")
    /\ UNCHANGED <<rows, links, files, lastId, raced, leaked>>

UnlinkLast(p) ==
    /\ op[p].pc = "unlinked"
    /\ Remaining(p) = {}
    /\ Goto(p, "doomed")
    /\ UNCHANGED <<rows, links, files, lastId, raced, leaked>>

\* A faulty order: the file goes before the transaction that deletes its row
\* has committed.
UnlinkDelete_FileFirst(p) ==
    /\ op[p].pc = "doomed"
    /\ \A q \in At("linked", op[p].content) \union Removing(op[p].content) :
          q # p => op[q].id # op[p].id
    /\ files' = files \ {op[p].content}
    /\ Goto(p, "deleted")
    /\ UNCHANGED <<rows, links, lastId, raced, leaked>>

\* The DELETE of the row waits for links that are being added to it or removed.
UnlinkDelete(p) ==
    /\ op[p].pc = "doomed"
    /\ \A q \in At("linked", op[p].content) \union Removing(op[p].content) :
          q # p => op[q].id # op[p].id
    /\ Goto(p, "deleted")
    /\ UNCHANGED <<rows, links, files, lastId, raced, leaked>>

\* ON DELETE CASCADE takes every link that has been added meanwhile.
UnlinkCommit(p) ==
    LET c == op[p].content
    IN  /\ op[p].pc \in {"kept", "deleted"}
        /\ IF op[p].pc = "deleted"
             THEN /\ rows' = [rows EXCEPT ![c] = 0]
                  /\ links' = {l \in links : l[1] # op[p].id}
                  /\ raced' = raced \ {c} /\ leaked' = leaked \ {c}
                  /\ Goto(p, "remove")
             ELSE /\ links' = links \ {<<op[p].id, op[p].entity>>}
                  /\ Finish(p)
                  /\ UNCHANGED <<rows, raced, leaked>>
        /\ UNCHANGED <<files, lastId>>

\* After the commit the file goes, whoever uses its path by now.
UnlinkRemove(p) ==
    LET c == op[p].content
    IN  /\ op[p].pc = "remove"
        /\ files' = files \ {c}
        /\ raced' = IF rows[c] # 0 \/ At("placed", c) # {} THEN raced \union {c} ELSE raced
        /\ Finish(p)
        /\ UNCHANGED <<rows, links, lastId, leaked>>

-----------------------------------------------------------------------------
\* A request fails or its process dies: the transaction rolls back, and the
\* file keeps the place it has.  A draft that is not sent leaves its row.
Abort(p) ==
    /\ op[p].pc # "idle"
    /\ Finish(p)
    /\ leaked' = IF op[p].draft THEN leaked \union {op[p].content} ELSE leaked
    /\ UNCHANGED <<rows, links, files, lastId, raced>>

Next ==
    \E p \in Processes :
       \/ \E c \in Contents, e \in Entities : Unlink(p, c, e)
       \/ \E c \in Contents, e \in Entities, draft \in BOOLEAN : UploadRead(p, c, e, draft)
       \/ UploadInsert(p) \/ UploadPlace(p) \/ UploadCommit(p)
       \/ DedupeLink(p) \/ DedupeCommit(p)
       \/ UnlinkKeep(p) \/ UnlinkLast(p) \/ UnlinkDelete(p) \/ UnlinkCommit(p)
       \/ UnlinkRemove(p) \/ Abort(p)

Spec == Init /\ [][Next]_vars

-----------------------------------------------------------------------------
(* Properties *)

TypeOK ==
    /\ rows \in [Contents -> Nat]
    /\ links \in SUBSET (Nat \X Entities)
    /\ files \in SUBSET Contents
    /\ lastId \in Nat
    /\ op \in [Processes -> [pc : {"idle", "staged", "inserted", "placed", "dedupe", "linked",
                                   "draft", "unlinked", "kept", "doomed", "deleted", "remove"},
                             content : Contents \union {Nil}, id : Nat,
                             entity : Entities \union {Nil}, draft : BOOLEAN]]
    /\ raced \in SUBSET Contents /\ leaked \in SUBSET Contents

\* Every row that anybody can see has its file, whatever uploads and removals
\* fail half-way, unless the late removal of a file took it from a row that was
\* inserted since.
BytesUnlessRaced == \A c \in Contents \ raced : rows[c] # 0 => c \in files

\* A link outlives the row it counts for never, and never moves to the row
\* that a later upload inserts.
LinksCountTheirRow == \A l \in links : \E c \in Contents : rows[c] = l[1]

\* Uploads that check the quota at once may pass it together, by no more than
\* one file for each of the others.
OverrunIsBounded == Used <= Quota + Cardinality(Processes) - 1

\* A row lives no longer than its links and the drafts that hold it, unless two
\* removals of them crossed or a draft was dropped.
RowsAreUsed ==
    \A c \in Contents \ (raced \union leaked) : rows[c] # 0 =>
       \/ \E e \in Entities : <<rows[c], e>> \in links
       \/ \E p \in Processes : op[p].draft /\ op[p].id = rows[c]

\* A row and its links need each other.
RowsMatchLinks == TypeOK /\ LinksCountTheirRow /\ RowsAreUsed

\* A link ends by its own removal, unless it was added to a row that was about
\* to be deleted: nobody else's removal destroys a file that is still in use.
LinksEndByRemoval ==
    [][\A c \in Contents, e \in Entities :
          rows[c] # 0 /\ <<rows[c], e>> \in links \ links' /\ c \notin raced =>
             \E p \in At("kept", c) \union At("deleted", c) : op[p].entity = e]_vars
=============================================================================
