--------------------------- MODULE BlobStore_proofs ---------------------------
(***************************************************************************)
(* Attachments, for any number of requests, contents and entities and any  *)
(* quota: a row has its file, links and rows need each other, a link ends  *)
(* by its own removal, and the quota is overrun by the requests that check *)
(* it at once and no more.                                                 *)
(***************************************************************************)
EXTENDS BlobStore, FiniteSetTheorems, TLAPS

Ops == [pc : {"idle", "staged", "inserted", "placed", "dedupe", "linked",
              "draft", "unlinked", "kept", "doomed", "deleted", "remove"},
        content : Contents \union {Nil}, id : Nat,
        entity : Entities \union {Nil}, draft : BOOLEAN]

\* The requests that hold a lock on the row of their content.
Holding == {"linked", "unlinked", "kept", "doomed", "deleted"}

-----------------------------------------------------------------------------
(* The invariant *)

ServedOK == \A p \in Processes :
    /\ op[p].pc = "idle" => op[p] = Free /\ op[p].id = 0 /\ ~op[p].draft
    /\ op[p].pc # "idle" => op[p].content \in Contents /\ op[p].entity \in Entities
    /\ op[p].pc = "staged" => op[p].id = 0
    /\ op[p].draft => op[p].pc \notin {"unlinked", "kept", "doomed", "deleted", "remove"}
    /\ op[p].pc \in {"dedupe", "draft"} => op[p].id # 0

\* An id is one row's for good.
IdsOK ==
    /\ \A c \in Contents : rows[c] <= lastId
    /\ \A c, d \in Contents : rows[c] # 0 /\ rows[c] = rows[d] => c = d
    /\ \A p \in Processes : op[p].id <= lastId
    /\ \A p \in Processes, c \in Contents :
          op[p].id # 0 /\ rows[c] = op[p].id => c = op[p].content
    /\ \A l \in links : l[1] # 0
    /\ LinksCountTheirRow

\* A row that is being inserted is the only one of its content, and nobody
\* knows its id.
FreshOK == \A p \in Processes : op[p].pc \in {"inserted", "placed"} =>
    /\ op[p].id # 0 /\ rows[op[p].content] = 0
    /\ \A c \in Contents : rows[c] # op[p].id
    /\ \A q \in Processes \ {p} :
          /\ op[q].id # op[p].id
          /\ op[q].pc \in {"inserted", "placed"} => op[q].content # op[p].content

\* Whoever links or unlinks has the row, and deletes it alone.
HoldsOK == \A p \in Processes : op[p].pc \in Holding =>
    op[p].id # 0 /\ rows[op[p].content] = op[p].id
AloneOK == \A p, q \in Processes :
    p # q /\ op[p].pc = "deleted" /\ op[q].pc \in Holding => op[p].content # op[q].content

\* A file in place is there, or a removal that crossed has taken it.
PlacedOK == \A p \in Processes : op[p].pc = "placed" => op[p].content \in files \union raced

\* Of a row that stays, one link is removed by none of those that let it stay.
KeptOK == \A p \in Processes : op[p].pc = "kept" /\ op[p].content \notin raced \union leaked =>
    \E l \in links : /\ l[1] = op[p].id
                     /\ \A q \in Processes :
                           op[q].pc = "kept" /\ op[q].content = op[p].content => op[q].entity # l[2]

\* A row that goes has no link but the one that goes with it, unless raced.
DoomedOK == \A p \in Processes :
    op[p].pc \in {"doomed", "deleted"} /\ op[p].content \notin raced =>
       \A l \in links : l[1] = op[p].id => l[2] = op[p].entity

Shape == TypeOK /\ ServedOK
Locks == IdsOK /\ FreshOK /\ HoldsOK /\ AloneOK
Uses  == KeptOK /\ DoomedOK /\ RowsAreUsed
Bytes == PlacedOK /\ BytesUnlessRaced

IInv == Shape /\ Locks /\ Uses /\ Bytes

-----------------------------------------------------------------------------
(* Steps of one request *)

LEMMA FreeType == Free \in Ops /\ Free.pc = "idle" /\ Free.id = 0 /\ ~Free.draft
BY DEF Free, Ops

LEMMA OpType ==
    ASSUME Shape, NEW p \in Processes
    PROVE  /\ op[p] \in Ops /\ op \in [Processes -> Ops]
           /\ op[p].id \in Nat
BY DEF Shape, TypeOK, Ops

LEMMA GotoShows ==
    ASSUME Shape, NEW p \in Processes, NEW pc, Goto(p, pc)
    PROVE  /\ op' = [op EXCEPT ![p] = op'[p]] /\ op'[p].pc = pc
           /\ op'[p].content = op[p].content /\ op'[p].id = op[p].id
           /\ op'[p].entity = op[p].entity /\ op'[p].draft = op[p].draft
BY OpType DEF Goto, Ops

LEMMA FinishShows ==
    ASSUME Shape, NEW p \in Processes, Finish(p)
    PROVE  op' = [op EXCEPT ![p] = op'[p]] /\ op'[p] = Free
BY OpType DEF Finish

\* A step of p that leaves everything but its own request alone.
LEMMA OpStep ==
    ASSUME Shape, NEW p \in Processes, op' = [op EXCEPT ![p] = op'[p]]
    PROVE  \A q \in Processes \ {p} : op'[q] = op[q]
BY OpType

-----------------------------------------------------------------------------
(* Uploads *)

LEMMA UploadReadKeeps ==
    ASSUME IInv, NEW p \in Processes, NEW c \in Contents, NEW e \in Entities,
           NEW draft \in BOOLEAN, UploadRead(p, c, e, draft)
    PROVE  IInv'
<1> USE DEF IInv, Shape, Locks, Uses, Bytes
<1>1. /\ op[p].pc = "idle" /\ UNCHANGED <<rows, links, files, lastId, raced, leaked>>
  BY DEF UploadRead
<1>2. /\ op' = [op EXCEPT ![p] = op'[p]]
      /\ op'[p] = [pc |-> IF rows[c] = 0 THEN "staged" ELSE IF draft THEN "draft" ELSE "dedupe",
                   content |-> c, id |-> rows[c], entity |-> e, draft |-> draft]
  BY OpType DEF UploadRead
<1>3. /\ op'[p].pc \in {"staged", "draft", "dedupe"} /\ op'[p].content = c /\ op'[p].id = rows[c]
      /\ op'[p].entity = e /\ (op'[p].pc = "staged" <=> rows[c] = 0)
      /\ \A q \in Processes \ {p} : op'[q] = op[q]
      /\ op' \in [Processes -> Ops] /\ op'[p] \in Ops
  BY <1>2, OpType, OpStep DEF TypeOK, Ops
<1>4. TypeOK'
  BY <1>1, <1>3 DEF TypeOK, Ops
<1>5. ServedOK'
  BY <1>1, <1>3 DEF ServedOK, Free
<1>6. IdsOK'
  BY <1>1, <1>3 DEF IdsOK, LinksCountTheirRow
<1>7. FreshOK'
  BY <1>1, <1>3 DEF FreshOK
<1>8. HoldsOK'
  BY <1>1, <1>3 DEF HoldsOK, Holding
<1>9. AloneOK'
  BY <1>1, <1>3 DEF AloneOK, Holding
<1>10. PlacedOK'
  BY <1>1, <1>3 DEF PlacedOK
<1>11. KeptOK'
  BY <1>1, <1>3 DEF KeptOK
<1>12. DoomedOK'
  BY <1>1, <1>3 DEF DoomedOK
<1>13. BytesUnlessRaced'
  BY <1>1, <1>3 DEF BytesUnlessRaced
<1>14. RowsAreUsed'
  BY <1>1, <1>3 DEF RowsAreUsed, ServedOK
<1> QED BY <1>4, <1>5, <1>6, <1>7, <1>8, <1>9, <1>10, <1>11, <1>12, <1>13, <1>14

\* A request ends and leaves its row with a link, or gone, or leaked.
LEMMA EndsKeep ==
    ASSUME IInv, NEW p \in Processes, Finish(p), UNCHANGED <<rows, links, files, lastId, raced>>,
           leaked \subseteq leaked', leaked' \subseteq Contents,
           op[p].draft => \/ op[p].content \in leaked' \/ op[p].id = 0
                          \/ rows[op[p].content] # op[p].id
    PROVE  IInv'
<1> USE DEF IInv, Shape, Locks, Uses, Bytes
<1>1. /\ op'[p] = Free /\ op'[p].pc = "idle" /\ op'[p].id = 0 /\ ~op'[p].draft /\ lastId \in Nat
      /\ \A q \in Processes \ {p} : op'[q] = op[q]
      /\ op' \in [Processes -> Ops]
  BY OpType, FinishShows, FreeType, OpStep DEF Finish, TypeOK
<1>2. TypeOK'
  BY <1>1 DEF TypeOK, Ops
<1>3. ServedOK'
  BY <1>1 DEF ServedOK, Free
<1>4. IdsOK'
  BY <1>1 DEF IdsOK, LinksCountTheirRow
<1>5. FreshOK'
  BY <1>1 DEF FreshOK
<1>6. HoldsOK'
  BY <1>1 DEF HoldsOK, Holding
<1>7. AloneOK'
  BY <1>1 DEF AloneOK, Holding
<1>8. PlacedOK'
  BY <1>1 DEF PlacedOK
<1>9. KeptOK'
  BY <1>1 DEF KeptOK
<1>10. DoomedOK'
  BY <1>1 DEF DoomedOK
<1>11. BytesUnlessRaced'
  BY <1>1 DEF BytesUnlessRaced
<1>12. RowsAreUsed'
  <2> SUFFICES ASSUME NEW c \in Contents \ (raced \union leaked'), rows[c] # 0
               PROVE  \/ \E e \in Entities : <<rows[c], e>> \in links
                      \/ \E q \in Processes : op'[q].draft /\ op'[q].id = rows[c]
    BY <1>1 DEF RowsAreUsed
  <2>1. CASE \E e \in Entities : <<rows[c], e>> \in links
    BY <2>1
  <2>2. ASSUME NEW q \in Processes, op[q].draft, op[q].id = rows[c]
        PROVE  q # p
    BY <2>2 DEF IdsOK
  <2>3. CASE \E q \in Processes : op[q].draft /\ op[q].id = rows[c]
    BY <1>1, <2>2, <2>3
  <2> QED BY <2>1, <2>3 DEF RowsAreUsed
<1> QED BY <1>2, <1>3, <1>4, <1>5, <1>6, <1>7, <1>8, <1>9, <1>10, <1>11, <1>12

\* The row is inserted under an id of its own.
LEMMA InsertKeeps ==
    ASSUME IInv, NEW p \in Processes, op[p].pc = "staged", rows[op[p].content] = 0,
           At("inserted", op[p].content) \union At("placed", op[p].content)
               \union At("deleted", op[p].content) = {},
           lastId' = lastId + 1, UNCHANGED <<rows, links, files, raced, leaked>>,
           op' = [op EXCEPT ![p].pc = "inserted", ![p].id = lastId + 1]
    PROVE  IInv'
<1> USE DEF IInv, Shape, Locks, Uses, Bytes
<1>1. lastId \in Nat /\ op[p].content \in Contents
  BY DEF TypeOK, ServedOK
<1>2. /\ op' = [op EXCEPT ![p] = op'[p]]
      /\ op'[p] = [op[p] EXCEPT !.pc = "inserted", !.id = lastId + 1]
  BY OpType
<1>3. /\ op'[p].pc = "inserted" /\ op'[p].content = op[p].content /\ op'[p].id = lastId + 1
      /\ op'[p].entity = op[p].entity /\ op'[p].draft = op[p].draft
      /\ \A q \in Processes \ {p} : op'[q] = op[q]
      /\ op' \in [Processes -> Ops] /\ op'[p] \in Ops
  BY <1>1, <1>2, OpType, OpStep, SMTT(30) DEF Ops
<1>4. TypeOK'
  BY <1>1, <1>3 DEF TypeOK, Ops
<1>5. ServedOK'
  BY <1>1, <1>3 DEF ServedOK, Free
<1>6. IdsOK'
  <2>1. \A c \in Contents : rows[c] \in Nat /\ rows[c] <= lastId
    BY DEF TypeOK, IdsOK
  <2>2. \A q \in Processes : op[q].id \in Nat /\ op[q].id <= lastId
    BY OpType DEF IdsOK
  <2> QED BY <1>1, <1>3, <2>1, <2>2 DEF IdsOK, LinksCountTheirRow
<1>7. FreshOK'
  <2>1. \A c \in Contents : rows[c] \in Nat /\ rows[c] <= lastId
    BY DEF TypeOK, IdsOK
  <2>2. \A q \in Processes : op[q].id \in Nat /\ op[q].id <= lastId
    BY OpType DEF IdsOK
  <2>3. \A q \in Processes \ {p} :
           op[q].pc \in {"inserted", "placed"} => op[q].content # op[p].content
    BY DEF At
  <2> QED BY <1>1, <1>3, <2>1, <2>2, <2>3 DEF FreshOK
<1>8. HoldsOK'
  BY <1>1, <1>3 DEF HoldsOK, Holding
<1>9. AloneOK'
  BY <1>1, <1>3 DEF AloneOK, Holding
<1>10. PlacedOK'
  BY <1>1, <1>3 DEF PlacedOK
<1>11. KeptOK'
  BY <1>1, <1>3 DEF KeptOK
<1>12. DoomedOK'
  BY <1>1, <1>3 DEF DoomedOK
<1>13. BytesUnlessRaced'
  BY <1>1, <1>3 DEF BytesUnlessRaced
<1>14. RowsAreUsed'
  BY <1>1, <1>3 DEF RowsAreUsed, ServedOK, TypeOK
<1> QED BY <1>4, <1>5, <1>6, <1>7, <1>8, <1>9, <1>10, <1>11, <1>12, <1>13, <1>14

LEMMA UploadInsertKeeps ==
    ASSUME IInv, NEW p \in Processes, UploadInsert(p)
    PROVE  IInv'
<1> USE DEF IInv, Shape
<1>1. op[p].id = 0 /\ leaked \subseteq Contents
  BY DEF UploadInsert, ServedOK, TypeOK
<1>2. CASE rows[op[p].content] # 0
  BY <1>1, <1>2, EndsKeep DEF UploadInsert
<1>3. CASE rows[op[p].content] = 0
  BY <1>3, InsertKeeps DEF UploadInsert
<1> QED BY <1>2, <1>3

LEMMA UploadPlaceKeeps ==
    ASSUME IInv, NEW p \in Processes, UploadPlace(p)
    PROVE  IInv'
<1> USE DEF IInv, Shape, Locks, Uses, Bytes
<1>1. /\ op[p].pc = "inserted" /\ Goto(p, "placed")
      /\ UNCHANGED <<rows, links, lastId, raced, leaked>>
      /\ files' = files \union {op[p].content}
  BY DEF UploadPlace
<1>2. /\ op'[p].pc = "placed"
      /\ op'[p].content = op[p].content /\ op'[p].id = op[p].id
      /\ op'[p].entity = op[p].entity /\ op'[p].draft = op[p].draft
      /\ \A q \in Processes \ {p} : op'[q] = op[q]
      /\ op' \in [Processes -> Ops] /\ op'[p] \in Ops
  BY <1>1, OpType, GotoShows, OpStep DEF Goto, Ops
<1>3. TypeOK'
  BY <1>1, <1>2 DEF TypeOK, Ops, ServedOK
<1>4. ServedOK'
  BY <1>1, <1>2 DEF ServedOK, Free
<1>5. IdsOK'
  BY <1>1, <1>2 DEF IdsOK, LinksCountTheirRow
<1>6. FreshOK'
  BY <1>1, <1>2 DEF FreshOK
<1>7. HoldsOK'
  BY <1>1, <1>2 DEF HoldsOK, Holding
<1>8. AloneOK'
  BY <1>1, <1>2 DEF AloneOK, Holding
<1>9. PlacedOK'
  BY <1>1, <1>2 DEF PlacedOK
<1>10. KeptOK'
  BY <1>1, <1>2 DEF KeptOK
<1>11. DoomedOK'
  BY <1>1, <1>2 DEF DoomedOK
<1>12. BytesUnlessRaced'
  BY <1>1, <1>2 DEF BytesUnlessRaced
<1>13. RowsAreUsed'
  BY <1>1, <1>2 DEF RowsAreUsed, ServedOK
<1> QED BY <1>3, <1>4, <1>5, <1>6, <1>7, <1>8, <1>9, <1>10, <1>11, <1>12, <1>13

LEMMA UploadCommitKeeps ==
    ASSUME IInv, NEW p \in Processes, UploadCommit(p)
    PROVE  IInv'
<1> USE DEF IInv, Shape, Locks, Uses, Bytes
<1>1. /\ op[p].pc = "placed" /\ UNCHANGED <<files, lastId, raced, leaked>>
      /\ rows' = [rows EXCEPT ![op[p].content] = op[p].id]
      /\ \/ op[p].draft /\ Goto(p, "draft") /\ links' = links
         \/ ~op[p].draft /\ Finish(p) /\ links' = links \union {<<op[p].id, op[p].entity>>}
  BY DEF UploadCommit
<1>2. /\ \/ /\ op[p].draft /\ links' = links /\ op'[p].pc = "draft" /\ op'[p].draft
            /\ op'[p].content = op[p].content /\ op'[p].id = op[p].id
            /\ op'[p].entity = op[p].entity
         \/ /\ ~op[p].draft /\ op'[p] = Free
            /\ op'[p].pc = "idle" /\ op'[p].id = 0 /\ ~op'[p].draft
            /\ links' = links \union {<<op[p].id, op[p].entity>>}
      /\ \A q \in Processes \ {p} : op'[q] = op[q]
      /\ op' \in [Processes -> Ops] /\ op'[p] \in Ops
  BY <1>1, OpType, GotoShows, FinishShows, FreeType, OpStep DEF Goto, Finish, Ops
<1>3. /\ op[p].content \in Contents /\ op[p].entity \in Entities /\ op[p].id \in Nat
      /\ rows \in [Contents -> Nat] /\ links \subseteq Nat \X Entities
      /\ rows'[op[p].content] = op[p].id /\ rows' \in [Contents -> Nat]
      /\ \A c \in Contents \ {op[p].content} : rows'[c] = rows[c]
  BY <1>1, OpType DEF TypeOK, ServedOK
<1>4. TypeOK'
  BY <1>1, <1>2, <1>3 DEF TypeOK, Ops
<1>5. ServedOK'
  BY <1>1, <1>2, <1>3 DEF ServedOK, Free, FreshOK
<1>6. IdsOK'
  <2>1. /\ rows[op[p].content] = 0 /\ op[p].id # 0 /\ op[p].id <= lastId
        /\ \A c \in Contents : rows[c] # op[p].id
        /\ \A q \in Processes \ {p} : op[q].id # op[p].id
    BY <1>1 DEF FreshOK, IdsOK
  <2>2. \A q \in Processes, c \in Contents :
           op'[q].id # 0 /\ rows'[c] = op'[q].id => c = op'[q].content
    BY <1>1, <1>2, <1>3, <2>1 DEF IdsOK
  <2>3. \A c, d \in Contents : rows'[c] # 0 /\ rows'[c] = rows'[d] => c = d
    BY <1>1, <1>2, <1>3, <2>1 DEF IdsOK
  <2>4. \A c \in Contents : rows'[c] <= lastId
    BY <1>1, <1>2, <1>3, <2>1 DEF IdsOK
  <2>5. \A q \in Processes : op'[q].id <= lastId
    BY <1>1, <1>2, <1>3, <2>1 DEF IdsOK, TypeOK
  <2>6. \A l \in links' : l[1] # 0
    BY <1>1, <1>2, <1>3, <2>1 DEF IdsOK
  <2>7. LinksCountTheirRow'
    <3>1. \A l \in links : \E c \in Contents : rows'[c] = l[1]
      BY <1>1, <1>2, <1>3, <2>1 DEF IdsOK, LinksCountTheirRow
    <3> QED BY <1>1, <1>2, <1>3, <3>1 DEF LinksCountTheirRow
  <2> QED BY <1>1, <2>2, <2>3, <2>4, <2>5, <2>6, <2>7 DEF IdsOK
<1>7. FreshOK'
  BY <1>1, <1>2, <1>3 DEF FreshOK
<1>8. HoldsOK'
  BY <1>1, <1>2, <1>3 DEF HoldsOK, Holding, FreshOK
<1>9. AloneOK'
  BY <1>1, <1>2, <1>3 DEF AloneOK, Holding
<1>10. PlacedOK'
  BY <1>1, <1>2, <1>3 DEF PlacedOK
<1>11. KeptOK'
  BY <1>1, <1>2, <1>3 DEF KeptOK
<1>12. DoomedOK'
  BY <1>1, <1>2, <1>3 DEF DoomedOK, FreshOK
<1>13. BytesUnlessRaced'
  BY <1>1, <1>2, <1>3 DEF BytesUnlessRaced, PlacedOK
<1>14. RowsAreUsed'
  BY <1>1, <1>2, <1>3 DEF RowsAreUsed, ServedOK
<1> QED BY <1>4, <1>5, <1>6, <1>7, <1>8, <1>9, <1>10, <1>11, <1>12, <1>13, <1>14

LEMMA LinksKeep ==
    ASSUME IInv, NEW p \in Processes, op[p].pc \in {"dedupe", "draft"}, Goto(p, "linked"),
           UNCHANGED <<rows, links, files, lastId, raced, leaked>>,
           At("deleted", op[p].content) = {}, rows[op[p].content] = op[p].id
    PROVE  IInv'
<1> USE DEF IInv, Shape, Locks, Uses, Bytes
<1>1. /\ op[p].pc \in {"dedupe", "draft"} /\ Goto(p, "linked")
      /\ UNCHANGED <<rows, links, files, lastId, raced, leaked>>
      /\ At("deleted", op[p].content) = {} /\ rows[op[p].content] = op[p].id
  OBVIOUS
<1>2. /\ op'[p].pc = "linked"
      /\ op'[p].content = op[p].content /\ op'[p].id = op[p].id
      /\ op'[p].entity = op[p].entity /\ op'[p].draft = op[p].draft
      /\ \A q \in Processes \ {p} : op'[q] = op[q]
      /\ op' \in [Processes -> Ops] /\ op'[p] \in Ops
  BY <1>1, OpType, GotoShows, OpStep DEF Goto, Ops
<1>3. TypeOK'
  BY <1>1, <1>2 DEF TypeOK, Ops
<1>4. ServedOK'
  BY <1>1, <1>2 DEF ServedOK, Free
<1>5. IdsOK'
  BY <1>1, <1>2 DEF IdsOK, LinksCountTheirRow
<1>6. FreshOK'
  BY <1>1, <1>2 DEF FreshOK
<1>7. HoldsOK'
  BY <1>1, <1>2 DEF HoldsOK, Holding, ServedOK
<1>8. AloneOK'
  BY <1>1, <1>2 DEF AloneOK, Holding, At
<1>9. PlacedOK'
  BY <1>1, <1>2 DEF PlacedOK
<1>10. KeptOK'
  BY <1>1, <1>2 DEF KeptOK
<1>11. DoomedOK'
  BY <1>1, <1>2 DEF DoomedOK
<1>12. BytesUnlessRaced'
  BY <1>1, <1>2 DEF BytesUnlessRaced
<1>13. RowsAreUsed'
  BY <1>1, <1>2 DEF RowsAreUsed, ServedOK
<1> QED BY <1>3, <1>4, <1>5, <1>6, <1>7, <1>8, <1>9, <1>10, <1>11, <1>12, <1>13

LEMMA DedupeLinkKeeps ==
    ASSUME IInv, NEW p \in Processes, DedupeLink(p)
    PROVE  IInv'
<1>1. leaked \subseteq Contents
  BY DEF IInv, Shape, TypeOK
<1> QED BY <1>1, LinksKeep, EndsKeep DEF DedupeLink

LEMMA DedupeCommitKeeps ==
    ASSUME IInv, NEW p \in Processes, DedupeCommit(p)
    PROVE  IInv'
<1> USE DEF IInv, Shape, Locks, Uses, Bytes
<1>1. /\ op[p].pc = "linked" /\ UNCHANGED <<rows, files, lastId, leaked>> /\ Finish(p)
      /\ links' = links \union {<<op[p].id, op[p].entity>>}
      /\ raced' = IF At("doomed", op[p].content) = {} THEN raced ELSE raced \union {op[p].content}
  BY DEF DedupeCommit
<1>2. /\ op'[p] = Free /\ op'[p].pc = "idle" /\ op'[p].id = 0 /\ ~op'[p].draft
      /\ \A q \in Processes \ {p} : op'[q] = op[q]
      /\ op' \in [Processes -> Ops]
  BY <1>1, OpType, FinishShows, FreeType, OpStep DEF Finish
<1>3. /\ op[p].content \in Contents /\ op[p].entity \in Entities /\ op[p].id \in Nat
      /\ op[p].id # 0 /\ rows[op[p].content] = op[p].id /\ links \subseteq Nat \X Entities
      /\ raced \subseteq raced' /\ raced' \subseteq Contents /\ lastId \in Nat
  BY <1>1, OpType DEF TypeOK, ServedOK, HoldsOK, Holding
<1>4. TypeOK'
  BY <1>1, <1>2, <1>3 DEF TypeOK, Ops
<1>5. ServedOK'
  BY <1>1, <1>2, <1>3 DEF ServedOK, Free
<1>6. IdsOK'
  BY <1>1, <1>2, <1>3 DEF IdsOK, LinksCountTheirRow
<1>7. FreshOK'
  BY <1>1, <1>2, <1>3 DEF FreshOK
<1>8. HoldsOK'
  BY <1>1, <1>2, <1>3 DEF HoldsOK, Holding
<1>9. AloneOK'
  BY <1>1, <1>2, <1>3 DEF AloneOK, Holding
<1>10. PlacedOK'
  BY <1>1, <1>2, <1>3 DEF PlacedOK
<1>11. KeptOK'
  BY <1>1, <1>2, <1>3 DEF KeptOK
<1>12. DoomedOK'
  BY <1>1, <1>2, <1>3 DEF DoomedOK, At, AloneOK, Holding, IdsOK
<1>13. BytesUnlessRaced'
  BY <1>1, <1>2, <1>3 DEF BytesUnlessRaced
<1>14. RowsAreUsed'
  BY <1>1, <1>2, <1>3 DEF RowsAreUsed, ServedOK
<1> QED BY <1>4, <1>5, <1>6, <1>7, <1>8, <1>9, <1>10, <1>11, <1>12, <1>13, <1>14

-----------------------------------------------------------------------------
(* Removals *)

LEMMA UnlinkKeeps ==
    ASSUME IInv, NEW p \in Processes, NEW c \in Contents, NEW e \in Entities, Unlink(p, c, e)
    PROVE  IInv'
<1> USE DEF IInv, Shape, Locks, Uses, Bytes
<1>1. /\ op[p].pc = "idle" /\ UNCHANGED <<rows, links, files, lastId, raced, leaked>>
      /\ rows[c] # 0 /\ At("deleted", c) = {}
  BY DEF Unlink
<1>2. /\ op' = [op EXCEPT ![p] = op'[p]]
      /\ op'[p] = [pc |-> "unlinked", content |-> c, id |-> rows[c], entity |-> e, draft |-> FALSE]
      /\ op'[p] \in Ops
  BY OpType DEF Unlink, TypeOK, Ops
<1>3. /\ op'[p].pc = "unlinked" /\ op'[p].content = c /\ op'[p].id = rows[c] /\ op'[p].entity = e
      /\ ~op'[p].draft
      /\ \A q \in Processes \ {p} : op'[q] = op[q]
      /\ op' \in [Processes -> Ops] /\ op'[p] \in Ops
  BY <1>2, OpType, OpStep
<1>4. TypeOK'
  BY <1>1, <1>3 DEF TypeOK, Ops
<1>5. ServedOK'
  BY <1>1, <1>3 DEF ServedOK, Free
<1>6. IdsOK'
  BY <1>1, <1>3 DEF IdsOK, LinksCountTheirRow
<1>7. FreshOK'
  BY <1>1, <1>3 DEF FreshOK
<1>8. HoldsOK'
  BY <1>1, <1>3 DEF HoldsOK, Holding
<1>9. AloneOK'
  BY <1>1, <1>3 DEF AloneOK, Holding, At
<1>10. PlacedOK'
  BY <1>1, <1>3 DEF PlacedOK
<1>11. KeptOK'
  BY <1>1, <1>3 DEF KeptOK
<1>12. DoomedOK'
  BY <1>1, <1>3 DEF DoomedOK
<1>13. BytesUnlessRaced'
  BY <1>1, <1>3 DEF BytesUnlessRaced
<1>14. RowsAreUsed'
  BY <1>1, <1>3 DEF RowsAreUsed, ServedOK
<1> QED BY <1>4, <1>5, <1>6, <1>7, <1>8, <1>9, <1>10, <1>11, <1>12, <1>13, <1>14

LEMMA UnlinkKeepKeeps ==
    ASSUME IInv, NEW p \in Processes, UnlinkKeep(p)
    PROVE  IInv'
<1> USE DEF IInv, Shape, Locks, Uses, Bytes
<1>1. /\ op[p].pc = "unlinked"
      /\ UNCHANGED <<rows, links, files, lastId, raced>> /\ Goto(p, "kept")
      /\ Remaining(p) # {}
      /\ leaked' = IF Crossed(p) THEN leaked \union {op[p].content} ELSE leaked
  BY DEF UnlinkKeep
<1>2. /\ op'[p].pc = "kept"
      /\ op'[p].content = op[p].content /\ op'[p].id = op[p].id
      /\ op'[p].entity = op[p].entity /\ op'[p].draft = op[p].draft
      /\ \A q \in Processes \ {p} : op'[q] = op[q]
      /\ op' \in [Processes -> Ops] /\ op'[p] \in Ops
  BY <1>1, OpType, GotoShows, OpStep DEF Goto, Ops
<1>3. op[p].content \in Contents /\ leaked \subseteq leaked' /\ leaked' \subseteq Contents
  BY <1>1 DEF TypeOK, ServedOK
<1>4. TypeOK'
  BY <1>1, <1>2, <1>3 DEF TypeOK, Ops
<1>5. ServedOK'
  BY <1>1, <1>2, <1>3 DEF ServedOK, Free
<1>6. IdsOK'
  BY <1>1, <1>2, <1>3 DEF IdsOK, LinksCountTheirRow
<1>7. FreshOK'
  BY <1>1, <1>2, <1>3 DEF FreshOK
<1>8. HoldsOK'
  BY <1>1, <1>2, <1>3 DEF HoldsOK, Holding
<1>9. AloneOK'
  BY <1>1, <1>2, <1>3 DEF AloneOK, Holding
<1>10. PlacedOK'
  BY <1>1, <1>2, <1>3 DEF PlacedOK
<1>11. KeptOK'
  <2> SUFFICES ASSUME NEW q \in Processes, op'[q].pc = "kept",
                      op'[q].content \notin raced \union leaked'
               PROVE  \E l \in links :
                         /\ l[1] = op'[q].id
                         /\ \A r \in Processes :
                               op'[r].pc = "kept" /\ op'[r].content = op'[q].content =>
                                  op'[r].entity # l[2]
    BY <1>1 DEF KeptOK
  <2>1. CASE op'[q].content # op[p].content
    BY <1>1, <1>2, <1>3, <2>1 DEF KeptOK
  \* A link that nobody removes is left, or the removals have crossed.
  <2>2. CASE op'[q].content = op[p].content
    <3>1. PICK l \in Remaining(p) : \A r \in Removing(op[p].content) :
             r # p => <<op[r].id, op[r].entity>> # l
      BY <1>1, <1>2, <1>3, <2>2 DEF Crossed
    <3>2. l \in links /\ l[1] = op[p].id /\ l[2] # op[p].entity /\ l = <<l[1], l[2]>>
      BY <3>1 DEF Remaining, TypeOK
    <3>3. \A r \in Processes : op[r].pc = "kept" /\ op[r].content = op[p].content =>
             op[r].id = op[p].id
      BY <1>1 DEF HoldsOK, Holding
    <3>4. \A r \in Processes \ {p} : op[r].pc = "kept" /\ op[r].content = op[p].content =>
             op[r].entity # l[2]
      BY <3>1, <3>2, <3>3 DEF Removing, At
    <3>5. \A r \in Processes : op'[r].pc = "kept" /\ op'[r].content = op'[q].content =>
             op'[r].entity # l[2]
      BY <1>1, <1>2, <1>3, <2>2, <3>2, <3>4
    <3>6. op'[q].id = op[p].id
      BY <1>1, <1>2, <1>3, <2>2, <3>3
    <3> QED BY <3>2, <3>5, <3>6
  <2> QED BY <2>1, <2>2
<1>12. DoomedOK'
  BY <1>1, <1>2, <1>3 DEF DoomedOK
<1>13. BytesUnlessRaced'
  BY <1>1, <1>2, <1>3 DEF BytesUnlessRaced
<1>14. RowsAreUsed'
  BY <1>1, <1>2, <1>3 DEF RowsAreUsed, ServedOK
<1> QED BY <1>4, <1>5, <1>6, <1>7, <1>8, <1>9, <1>10, <1>11, <1>12, <1>13, <1>14

LEMMA UnlinkLastKeeps ==
    ASSUME IInv, NEW p \in Processes, UnlinkLast(p)
    PROVE  IInv'
<1> USE DEF IInv, Shape, Locks, Uses, Bytes
<1>1. /\ op[p].pc = "unlinked" /\ Goto(p, "doomed")
      /\ UNCHANGED <<rows, links, files, lastId, raced, leaked>>
      /\ Remaining(p) = {}
  BY DEF UnlinkLast
<1>2. /\ op'[p].pc = "doomed"
      /\ op'[p].content = op[p].content /\ op'[p].id = op[p].id
      /\ op'[p].entity = op[p].entity /\ op'[p].draft = op[p].draft
      /\ \A q \in Processes \ {p} : op'[q] = op[q]
      /\ op' \in [Processes -> Ops] /\ op'[p] \in Ops
  BY <1>1, OpType, GotoShows, OpStep DEF Goto, Ops
<1>3. TypeOK'
  BY <1>1, <1>2 DEF TypeOK, Ops
<1>4. ServedOK'
  BY <1>1, <1>2 DEF ServedOK, Free
<1>5. IdsOK'
  BY <1>1, <1>2 DEF IdsOK, LinksCountTheirRow
<1>6. FreshOK'
  BY <1>1, <1>2 DEF FreshOK
<1>7. HoldsOK'
  BY <1>1, <1>2 DEF HoldsOK, Holding
<1>8. AloneOK'
  BY <1>1, <1>2 DEF AloneOK, Holding
<1>9. PlacedOK'
  BY <1>1, <1>2 DEF PlacedOK
<1>10. KeptOK'
  BY <1>1, <1>2 DEF KeptOK
<1>11. DoomedOK'
  BY <1>1, <1>2 DEF DoomedOK, Remaining
<1>12. BytesUnlessRaced'
  BY <1>1, <1>2 DEF BytesUnlessRaced
<1>13. RowsAreUsed'
  BY <1>1, <1>2 DEF RowsAreUsed, ServedOK
<1> QED BY <1>3, <1>4, <1>5, <1>6, <1>7, <1>8, <1>9, <1>10, <1>11, <1>12, <1>13

LEMMA UnlinkDeleteKeeps ==
    ASSUME IInv, NEW p \in Processes, UnlinkDelete(p)
    PROVE  IInv'
<1> USE DEF IInv, Shape, Locks, Uses, Bytes
<1>1. /\ op[p].pc = "doomed" /\ Goto(p, "deleted")
      /\ UNCHANGED <<rows, links, files, lastId, raced, leaked>>
      /\ \A q \in At("linked", op[p].content) \union Removing(op[p].content) :
            q # p => op[q].id # op[p].id
  BY DEF UnlinkDelete
<1>2. /\ op'[p].pc = "deleted"
      /\ op'[p].content = op[p].content /\ op'[p].id = op[p].id
      /\ op'[p].entity = op[p].entity /\ op'[p].draft = op[p].draft
      /\ \A q \in Processes \ {p} : op'[q] = op[q]
      /\ op' \in [Processes -> Ops] /\ op'[p] \in Ops
  BY <1>1, OpType, GotoShows, OpStep DEF Goto, Ops
<1>3. TypeOK'
  BY <1>1, <1>2 DEF TypeOK, Ops
<1>4. ServedOK'
  BY <1>1, <1>2 DEF ServedOK, Free
<1>5. IdsOK'
  BY <1>1, <1>2 DEF IdsOK, LinksCountTheirRow
<1>6. FreshOK'
  BY <1>1, <1>2 DEF FreshOK
<1>7. HoldsOK'
  BY <1>1, <1>2 DEF HoldsOK, Holding
<1>8. AloneOK'
  <2>1. \A q \in Processes \ {p} : op[q].pc \in Holding => op[p].content # op[q].content
    <3> SUFFICES ASSUME NEW q \in Processes \ {p}, op[q].pc \in Holding,
                        op[p].content = op[q].content
                 PROVE  FALSE
      OBVIOUS
    <3>1. op[q].id = op[p].id
      BY <1>1 DEF HoldsOK, Holding
    <3>2. CASE op[q].pc = "deleted"
      BY <1>1, <3>2 DEF AloneOK, Holding
    <3> QED BY <1>1, <3>1, <3>2 DEF At, Removing, Holding
  <2> QED BY <1>1, <1>2, <2>1 DEF AloneOK, Holding
<1>9. PlacedOK'
  BY <1>1, <1>2 DEF PlacedOK
<1>10. KeptOK'
  BY <1>1, <1>2 DEF KeptOK
<1>11. DoomedOK'
  BY <1>1, <1>2 DEF DoomedOK
<1>12. BytesUnlessRaced'
  BY <1>1, <1>2 DEF BytesUnlessRaced
<1>13. RowsAreUsed'
  BY <1>1, <1>2 DEF RowsAreUsed, ServedOK
<1> QED BY <1>3, <1>4, <1>5, <1>6, <1>7, <1>8, <1>9, <1>10, <1>11, <1>12, <1>13

LEMMA RowGoes ==
    ASSUME IInv, NEW p \in Processes, op[p].pc = "deleted",
           UNCHANGED <<files, lastId>>, Goto(p, "remove"),
           rows' = [rows EXCEPT ![op[p].content] = 0],
           links' = {l \in links : l[1] # op[p].id},
           raced' = raced \ {op[p].content}, leaked' = leaked \ {op[p].content}
    PROVE  IInv'
<1> USE DEF IInv, Shape, Locks, Uses, Bytes
<1>1. /\ op[p].content \in Contents /\ op[p].id # 0 /\ rows[op[p].content] = op[p].id
      /\ rows \in [Contents -> Nat] /\ links \subseteq Nat \X Entities /\ lastId \in Nat
  BY DEF TypeOK, ServedOK, HoldsOK, Holding
<1>2. /\ op'[p].pc = "remove"
      /\ op'[p].content = op[p].content /\ op'[p].id = op[p].id
      /\ op'[p].entity = op[p].entity /\ op'[p].draft = op[p].draft
      /\ \A q \in Processes \ {p} : op'[q] = op[q]
      /\ op' \in [Processes -> Ops] /\ op'[p] \in Ops
  BY OpType, GotoShows, OpStep DEF Goto, Ops
<1>3. /\ rows' \in [Contents -> Nat] /\ rows'[op[p].content] = 0
      /\ \A c \in Contents \ {op[p].content} : rows'[c] = rows[c]
  BY <1>1
<1>4. \A q \in Processes \ {p} :
         op[q].pc \in Holding \union {"inserted", "placed"} => op[q].content # op[p].content
  BY <1>1 DEF AloneOK, FreshOK
<1>5. \A c \in Contents \ {op[p].content} : rows[c] # op[p].id
  BY <1>1 DEF IdsOK
<1>6. TypeOK'
  BY <1>1, <1>2, <1>3, <1>4, <1>5 DEF TypeOK, Ops
<1>7. ServedOK'
  BY <1>1, <1>2, <1>3, <1>4, <1>5 DEF ServedOK, Free
<1>8. IdsOK'
  <2>1. LinksCountTheirRow'
    BY <1>1, <1>2, <1>3, <1>4, <1>5 DEF IdsOK, LinksCountTheirRow
  <2>2. \A c, d \in Contents : rows'[c] # 0 /\ rows'[c] = rows'[d] => c = d
    BY <1>3 DEF IdsOK
  <2>3. \A c \in Contents : rows'[c] <= lastId
    BY <1>1, <1>3 DEF IdsOK
  <2>4. \A q \in Processes : op'[q].id = op[q].id /\ op'[q].content = op[q].content
    BY <1>2
  <2>5. \A q \in Processes, c \in Contents :
           op[q].id # 0 /\ rows'[c] = op[q].id => c = op[q].content
    BY <1>3 DEF IdsOK
  <2>6. \A l \in links' : l \in links
    OBVIOUS
  <2> QED BY <2>1, <2>2, <2>3, <2>4, <2>5, <2>6 DEF IdsOK
<1>9. FreshOK'
  BY <1>1, <1>2, <1>3, <1>4, <1>5 DEF FreshOK
<1>10. HoldsOK'
  BY <1>1, <1>2, <1>3, <1>4, <1>5 DEF HoldsOK, Holding
<1>11. AloneOK'
  BY <1>1, <1>2, <1>3, <1>4, <1>5 DEF AloneOK, Holding
<1>12. PlacedOK'
  BY <1>1, <1>2, <1>3, <1>4, <1>5 DEF PlacedOK
<1>13. KeptOK'
  <2> SUFFICES ASSUME NEW q \in Processes, op'[q].pc = "kept",
                      op'[q].content \notin raced' \union leaked'
               PROVE  \E l \in links' :
                         /\ l[1] = op'[q].id
                         /\ \A r \in Processes :
                               op'[r].pc = "kept" /\ op'[r].content = op'[q].content =>
                                  op'[r].entity # l[2]
    BY DEF KeptOK
  <2>1. q # p /\ op'[q] = op[q] /\ op[q].content # op[p].content
    BY <1>2, <1>4 DEF Holding
  <2>2. PICK l \in links : /\ l[1] = op[q].id
                           /\ \A r \in Processes :
                                 op[r].pc = "kept" /\ op[r].content = op[q].content =>
                                    op[r].entity # l[2]
    BY <2>1 DEF KeptOK
  <2>3. rows[op[q].content] = op[q].id /\ op[q].content \in Contents
    BY <2>1 DEF HoldsOK, Holding, ServedOK
  <2>4. l \in links'
    BY <1>5, <2>1, <2>2, <2>3
  <2> QED BY <1>2, <2>1, <2>2, <2>4
<1>14. DoomedOK'
  <2> SUFFICES ASSUME NEW q \in Processes, op'[q].pc \in {"doomed", "deleted"},
                      op'[q].content \notin raced', NEW l \in links', l[1] = op'[q].id
               PROVE  l[2] = op'[q].entity
    BY DEF DoomedOK
  <2>1. q # p /\ op'[q] = op[q] /\ op[q].content # op[p].content
    BY <1>2, <1>4 DEF Holding
  <2> QED BY <2>1 DEF DoomedOK
<1>15. BytesUnlessRaced'
  BY <1>1, <1>2, <1>3, <1>4, <1>5 DEF BytesUnlessRaced
<1>16. RowsAreUsed'
  <2> SUFFICES ASSUME NEW c \in Contents \ (raced' \union leaked'), rows'[c] # 0
               PROVE  \/ \E e \in Entities : <<rows'[c], e>> \in links'
                      \/ \E q \in Processes : op'[q].draft /\ op'[q].id = rows'[c]
    BY DEF RowsAreUsed
  <2>1. c # op[p].content /\ rows'[c] = rows[c] /\ rows[c] # op[p].id
    BY <1>3, <1>5
  <2>2. CASE \E e \in Entities : <<rows[c], e>> \in links
    <3>1. PICK e \in Entities : <<rows[c], e>> \in links
      BY <2>2
    <3>2. <<rows[c], e>> \in links'
      BY <2>1, <3>1
    <3> QED BY <2>1, <3>2
  <2>3. CASE \E q \in Processes : op[q].draft /\ op[q].id = rows[c]
    BY <1>2, <2>1, <2>3
  <2> QED BY <2>1, <2>2, <2>3 DEF RowsAreUsed
<1> QED BY <1>6, <1>7, <1>8, <1>9, <1>10, <1>11, <1>12, <1>13, <1>14, <1>15, <1>16

LEMMA LinkGoes ==
    ASSUME IInv, NEW p \in Processes, op[p].pc = "kept",
           UNCHANGED <<rows, files, lastId, raced, leaked>>, Finish(p),
           links' = links \ {<<op[p].id, op[p].entity>>}
    PROVE  IInv'
<1> USE DEF IInv, Shape, Locks, Uses, Bytes
<1>1. /\ op[p].content \in Contents /\ op[p].id # 0 /\ rows[op[p].content] = op[p].id
  BY DEF TypeOK, ServedOK, HoldsOK, Holding
<1>2. /\ op'[p] = Free /\ op'[p].pc = "idle" /\ op'[p].id = 0 /\ ~op'[p].draft /\ lastId \in Nat
      /\ \A q \in Processes \ {p} : op'[q] = op[q]
      /\ op' \in [Processes -> Ops]
  BY OpType, FinishShows, FreeType, OpStep DEF Finish, TypeOK
<1>3. TypeOK'
  BY <1>1, <1>2 DEF TypeOK, Ops
<1>4. ServedOK'
  BY <1>1, <1>2 DEF ServedOK, Free
<1>5. IdsOK'
  BY <1>1, <1>2 DEF IdsOK, LinksCountTheirRow
<1>6. FreshOK'
  BY <1>1, <1>2 DEF FreshOK
<1>7. HoldsOK'
  BY <1>1, <1>2 DEF HoldsOK, Holding
<1>8. AloneOK'
  BY <1>1, <1>2 DEF AloneOK, Holding
<1>9. PlacedOK'
  BY <1>1, <1>2 DEF PlacedOK
<1>10. KeptOK'
  <2> SUFFICES ASSUME NEW q \in Processes, op'[q].pc = "kept",
                      op'[q].content \notin raced \union leaked
               PROVE  \E l \in links' :
                         /\ l[1] = op'[q].id
                         /\ \A r \in Processes :
                               op'[r].pc = "kept" /\ op'[r].content = op'[q].content =>
                                  op'[r].entity # l[2]
    BY <1>1 DEF KeptOK
  <2>1. q # p /\ op'[q] = op[q]
    BY <1>2
  <2>2. PICK l \in links : /\ l[1] = op[q].id
                           /\ \A r \in Processes :
                                 op[r].pc = "kept" /\ op[r].content = op[q].content =>
                                    op[r].entity # l[2]
    BY <2>1 DEF KeptOK
  <2>3. rows[op[q].content] = op[q].id /\ op[q].content \in Contents
    BY <2>1 DEF HoldsOK, Holding, ServedOK
  <2>4. l[1] # op[p].id \/ l[2] # op[p].entity
    BY <1>1, <2>2, <2>3 DEF IdsOK
  <2>5. l \in links'
    BY <2>4
  <2> QED BY <1>2, <2>1, <2>2, <2>5
<1>11. DoomedOK'
  BY <1>1, <1>2 DEF DoomedOK
<1>12. BytesUnlessRaced'
  BY <1>1, <1>2 DEF BytesUnlessRaced
<1>13. RowsAreUsed'
  <2> SUFFICES ASSUME NEW c \in Contents \ (raced \union leaked), rows[c] # 0
               PROVE  \/ \E e \in Entities : <<rows[c], e>> \in links'
                      \/ \E q \in Processes : op'[q].draft /\ op'[q].id = rows[c]
    BY <1>1 DEF RowsAreUsed
  <2>1. CASE c = op[p].content
    <3>1. PICK l \in links : l[1] = op[p].id /\ l[2] # op[p].entity
      BY <2>1 DEF KeptOK
    <3>2. l[2] \in Entities /\ l = <<rows[c], l[2]>>
      BY <1>1, <2>1, <3>1 DEF TypeOK
    <3>3. l \in links'
      BY <3>1
    <3> QED BY <3>2, <3>3
  <2>2. CASE c # op[p].content
    <3>1. rows[c] # op[p].id
      BY <1>1, <2>2 DEF IdsOK
    <3>2. \A e \in Entities : <<rows[c], e>> \in links => <<rows[c], e>> \in links'
      BY <3>1
    <3>3. \A q \in Processes : op[q].draft => op'[q] = op[q]
      BY <1>2 DEF ServedOK
    <3> QED BY <3>2, <3>3 DEF RowsAreUsed
  <2> QED BY <2>1, <2>2
<1> QED BY <1>3, <1>4, <1>5, <1>6, <1>7, <1>8, <1>9, <1>10, <1>11, <1>12, <1>13

LEMMA UnlinkCommitKeeps ==
    ASSUME IInv, NEW p \in Processes, UnlinkCommit(p)
    PROVE  IInv'
BY RowGoes, LinkGoes DEF UnlinkCommit

LEMMA UnlinkRemoveKeeps ==
    ASSUME IInv, NEW p \in Processes, UnlinkRemove(p)
    PROVE  IInv'
<1> USE DEF IInv, Shape, Locks, Uses, Bytes
<1>1. /\ op[p].pc = "remove" /\ UNCHANGED <<rows, links, lastId, leaked>> /\ Finish(p)
      /\ files' = files \ {op[p].content}
      /\ raced' = IF rows[op[p].content] # 0 \/ At("placed", op[p].content) # {}
                     THEN raced \union {op[p].content} ELSE raced
  BY DEF UnlinkRemove
<1>2. /\ op'[p] = Free /\ op'[p].pc = "idle" /\ op'[p].id = 0 /\ ~op'[p].draft /\ lastId \in Nat
      /\ \A q \in Processes \ {p} : op'[q] = op[q]
      /\ op' \in [Processes -> Ops]
  BY <1>1, OpType, FinishShows, FreeType, OpStep DEF Finish, TypeOK
<1>3. op[p].content \in Contents /\ raced \subseteq raced' /\ raced' \subseteq Contents
  BY <1>1 DEF TypeOK, ServedOK
<1>4. TypeOK'
  BY <1>1, <1>2, <1>3 DEF TypeOK, Ops
<1>5. ServedOK'
  BY <1>1, <1>2, <1>3 DEF ServedOK, Free
<1>6. IdsOK'
  BY <1>1, <1>2, <1>3 DEF IdsOK, LinksCountTheirRow
<1>7. FreshOK'
  BY <1>1, <1>2, <1>3 DEF FreshOK
<1>8. HoldsOK'
  BY <1>1, <1>2, <1>3 DEF HoldsOK, Holding
<1>9. AloneOK'
  BY <1>1, <1>2, <1>3 DEF AloneOK, Holding
<1>10. PlacedOK'
  BY <1>1, <1>2, <1>3 DEF PlacedOK, At
<1>11. KeptOK'
  BY <1>1, <1>2, <1>3 DEF KeptOK
<1>12. DoomedOK'
  BY <1>1, <1>2, <1>3 DEF DoomedOK
<1>13. BytesUnlessRaced'
  BY <1>1, <1>2, <1>3 DEF BytesUnlessRaced
<1>14. RowsAreUsed'
  BY <1>1, <1>2, <1>3 DEF RowsAreUsed, ServedOK
<1> QED BY <1>4, <1>5, <1>6, <1>7, <1>8, <1>9, <1>10, <1>11, <1>12, <1>13, <1>14

LEMMA AbortKeeps ==
    ASSUME IInv, NEW p \in Processes, Abort(p)
    PROVE  IInv'
<1>1. leaked \subseteq Contents /\ op[p].content \in Contents
  BY DEF IInv, Shape, TypeOK, ServedOK, Abort
<1> QED BY <1>1, EndsKeep DEF Abort

-----------------------------------------------------------------------------
(* The quota *)

Stored  == {c \in Contents : rows[c] # 0}
Uploads == {p \in Processes : op[p].pc \in {"staged", "inserted", "placed"}}

\* What is stored and what is being uploaded: each upload was one file within
\* the quota when it looked, and the others are no more than the other requests.
QuotaOK == /\ IsFiniteSet(Stored)
           /\ Cardinality(Stored) + Cardinality(Uploads) <= Quota + Cardinality(Processes) - 1

LEMMA Counts ==
    /\ Cardinality(Processes) \in Nat /\ Cardinality(Processes) >= 1
    /\ IsFiniteSet(Uploads) /\ Cardinality(Uploads) \in Nat
    /\ Cardinality(Uploads) <= Cardinality(Processes)
<1>1. IsFiniteSet(Processes) /\ Processes # {}
  BY ProcessesAssumption
<1>2. Cardinality(Processes) \in Nat /\ Cardinality(Processes) # 0
  BY <1>1, FS_CardinalityType, FS_EmptySet
<1>3. Uploads \subseteq Processes
  BY DEF Uploads
<1>4. IsFiniteSet(Uploads) /\ Cardinality(Uploads) <= Cardinality(Processes)
  BY <1>1, <1>3, FS_Subset
<1>5. Cardinality(Uploads) \in Nat
  BY <1>4, FS_CardinalityType
<1> QED BY <1>2, <1>4, <1>5

\* A step that neither stores nor begins to upload.
LEMMA QuotaRests ==
    ASSUME QuotaOK, Stored' \subseteq Stored, Uploads' \subseteq Uploads
    PROVE  QuotaOK'
<1>1. /\ IsFiniteSet(Stored') /\ Cardinality(Stored') <= Cardinality(Stored)
      /\ IsFiniteSet(Uploads') /\ Cardinality(Uploads') <= Cardinality(Uploads)
  BY Counts, FS_Subset DEF QuotaOK
<1>2. /\ Cardinality(Stored') \in Nat /\ Cardinality(Uploads') \in Nat
      /\ Cardinality(Stored) \in Nat /\ Cardinality(Uploads) \in Nat
  BY <1>1, Counts, FS_CardinalityType DEF QuotaOK
<1> QED BY <1>1, <1>2, Counts, QuotaAssumption DEF QuotaOK

LEMMA QuotaUploadRead ==
    ASSUME IInv, QuotaOK, NEW p \in Processes, NEW c \in Contents, NEW e \in Entities,
           NEW draft \in BOOLEAN, UploadRead(p, c, e, draft)
    PROVE  QuotaOK'
<1> DEFINE pc == IF rows[c] = 0 THEN "staged" ELSE IF draft THEN "draft" ELSE "dedupe"
<1>1. op \in [Processes -> Ops] /\ Stored' = Stored
  BY OpType DEF IInv, Stored, UploadRead
<1>2. op' = [op EXCEPT ![p] = [pc |-> pc, content |-> c, id |-> rows[c], entity |-> e,
                              draft |-> draft]]
  BY DEF UploadRead
<1>3. op'[p].pc = pc /\ \A q \in Processes \ {p} : op'[q] = op[q]
  BY <1>1, <1>2
<1>4. CASE rows[c] # 0
  <2>1. Uploads' \subseteq Uploads
    BY <1>3, <1>4 DEF Uploads
  <2> QED BY <1>1, <2>1, QuotaRests
<1>5. CASE rows[c] = 0
  <2>1. Cardinality(Stored) + 1 <= Quota /\ Cardinality(Stored) \in Nat
    BY <1>5, FS_CardinalityType DEF UploadRead, MayStore, Used, Stored, QuotaOK
  <2>2. Cardinality(Uploads)' \in Nat /\ Cardinality(Uploads)' <= Cardinality(Processes)
    <3>1. Uploads' \subseteq Processes /\ IsFiniteSet(Processes)
      BY ProcessesAssumption DEF Uploads
    <3>2. IsFiniteSet(Uploads') /\ Cardinality(Uploads') <= Cardinality(Processes)
      BY <3>1, FS_Subset
    <3> QED BY <3>2, FS_CardinalityType
  <2> QED BY <1>1, <2>1, <2>2, Counts, QuotaAssumption DEF QuotaOK
<1> QED BY <1>4, <1>5

LEMMA QuotaUploadCommit ==
    ASSUME IInv, QuotaOK, NEW p \in Processes, UploadCommit(p)
    PROVE  QuotaOK'
<1> USE DEF IInv
<1> DEFINE c == op[p].content
<1>1. /\ op[p].pc = "placed" /\ c \in Contents /\ rows[c] = 0 /\ op[p].id # 0
      /\ op \in [Processes -> Ops] /\ rows \in [Contents -> Nat]
  BY OpType DEF UploadCommit, Shape, ServedOK, Locks, FreshOK, TypeOK
<1>2. /\ rows' = [rows EXCEPT ![c] = op[p].id]
      /\ Goto(p, "draft") \/ Finish(p)
  BY DEF UploadCommit
<1>3. Stored' = Stored \union {c} /\ c \notin Stored
  BY <1>1, <1>2 DEF Stored
<1>4. op'[p].pc \in {"draft", "idle"} /\ \A q \in Processes \ {p} : op'[q] = op[q]
  BY <1>1, <1>2, FreeType DEF Goto, Finish, Ops
<1>5. Uploads' = Uploads \ {p} /\ p \in Uploads
  BY <1>1, <1>4 DEF Uploads
<1>6. IsFiniteSet(Stored') /\ Cardinality(Stored') = Cardinality(Stored) + 1
  BY <1>3, FS_AddElement DEF QuotaOK
<1>7. Cardinality(Uploads') = Cardinality(Uploads) - 1
  BY <1>5, Counts, FS_RemoveElement
<1>8. Cardinality(Stored) \in Nat
  BY FS_CardinalityType DEF QuotaOK
<1> QED BY <1>6, <1>7, <1>8, Counts, QuotaAssumption DEF QuotaOK

\* The other steps.
LEMMA QuotaOthers ==
    ASSUME IInv, QuotaOK, NEW p \in Processes,
           \/ \E c \in Contents, e \in Entities : Unlink(p, c, e)
           \/ UploadInsert(p) \/ UploadPlace(p)
           \/ DedupeLink(p) \/ DedupeCommit(p)
           \/ UnlinkKeep(p) \/ UnlinkLast(p) \/ UnlinkDelete(p) \/ UnlinkCommit(p)
           \/ UnlinkRemove(p) \/ Abort(p)
    PROVE  QuotaOK'
<1>1. op \in [Processes -> Ops] /\ rows \in [Contents -> Nat]
  BY OpType DEF IInv, Shape, TypeOK
<1>2. Stored' \subseteq Stored
  <2>1. CASE UnlinkCommit(p)
    BY <1>1, <2>1 DEF UnlinkCommit, Stored
  <2>2. CASE UNCHANGED rows
    BY <2>2 DEF Stored
  <2> QED BY <2>1, <2>2 DEF Unlink, UploadInsert, UploadPlace, DedupeLink, DedupeCommit,
                           UnlinkKeep, UnlinkLast, UnlinkDelete, UnlinkRemove, Abort
<1>3. ASSUME NEW pc, Goto(p, pc), pc \notin {"staged", "inserted", "placed"} \/ p \in Uploads
      PROVE  Uploads' \subseteq Uploads
  BY <1>1, <1>3 DEF Goto, Uploads, Ops
<1>4. ASSUME Finish(p)
      PROVE  Uploads' \subseteq Uploads
  BY <1>1, <1>4, FreeType DEF Finish, Uploads
<1>5. ASSUME NEW c \in Contents, NEW e \in Entities, Unlink(p, c, e)
      PROVE  Uploads' \subseteq Uploads
  BY <1>1, <1>5 DEF Unlink, Uploads
<1>6. CASE UploadInsert(p)
  <2>1. op[p].pc = "staged" /\ p \in Uploads
    BY <1>6 DEF UploadInsert, Uploads
  <2>2. CASE Finish(p)
    BY <1>2, <1>4, <2>2, QuotaRests
  <2>3. CASE op' = [op EXCEPT ![p].pc = "inserted", ![p].id = lastId + 1]
    <3>1. \A q \in Processes \ {p} : op'[q] = op[q]
      BY <1>1, <2>3
    <3>2. Uploads' \subseteq Uploads
      BY <2>1, <3>1 DEF Uploads
    <3> QED BY <1>2, <3>2, QuotaRests
  <2> QED BY <1>6, <2>2, <2>3 DEF UploadInsert
<1>7. CASE UploadPlace(p)
  <2>1. p \in Uploads /\ Goto(p, "placed")
    BY <1>7 DEF UploadPlace, Uploads
  <2>2. Uploads' \subseteq Uploads
    BY <1>3, <2>1
  <2> QED BY <1>2, <2>2, QuotaRests
<1>8. CASE \/ DedupeLink(p) \/ DedupeCommit(p)
           \/ UnlinkKeep(p) \/ UnlinkLast(p) \/ UnlinkDelete(p) \/ UnlinkCommit(p)
           \/ UnlinkRemove(p) \/ Abort(p)
  <2>1. \/ Finish(p) \/ Goto(p, "linked") \/ Goto(p, "kept") \/ Goto(p, "doomed")
        \/ Goto(p, "deleted") \/ Goto(p, "remove")
    BY <1>8 DEF DedupeLink, DedupeCommit, UnlinkKeep, UnlinkLast, UnlinkDelete,
                UnlinkCommit, UnlinkRemove, Abort
  <2>2. Uploads' \subseteq Uploads
    BY <1>3, <1>4, <2>1
  <2> QED BY <1>2, <2>2, QuotaRests
<1> QED BY <1>2, <1>5, <1>6, <1>7, <1>8, QuotaRests

-----------------------------------------------------------------------------
(* The invariant of the specification *)

LEMMA InitIInv == Init => IInv /\ QuotaOK
<1> SUFFICES ASSUME Init PROVE IInv /\ QuotaOK
  OBVIOUS
<1>1. /\ rows = [c \in Contents |-> 0] /\ links = {} /\ files = {} /\ lastId = 0
      /\ op = [p \in Processes |-> Free] /\ raced = {} /\ leaked = {}
  BY DEF Init
<1>2. \A p \in Processes : /\ op[p] = Free /\ op[p].pc = "idle" /\ op[p].id = 0
                           /\ ~op[p].draft
  BY <1>1, FreeType
<1>3. TypeOK
  BY <1>1, FreeType DEF TypeOK, Ops
<1>4. Shape
  BY <1>2, <1>3 DEF Shape, ServedOK
<1>5. Locks
  BY <1>1, <1>2 DEF Locks, IdsOK, LinksCountTheirRow, FreshOK, HoldsOK, AloneOK, Holding
<1>6. Uses /\ Bytes
  BY <1>1, <1>2 DEF Uses, KeptOK, DoomedOK, RowsAreUsed, Bytes, PlacedOK, BytesUnlessRaced
<1>7. QuotaOK
  <2>1. Stored = {} /\ Uploads = {}
    BY <1>1, <1>2 DEF Stored, Uploads
  <2>2. IsFiniteSet(Stored) /\ Cardinality(Stored) = 0 /\ Cardinality(Uploads) = 0
    BY <2>1, FS_EmptySet
  <2> QED BY <2>2, Counts, QuotaAssumption DEF QuotaOK
<1> QED BY <1>4, <1>5, <1>6, <1>7 DEF IInv

LEMMA StepIInv == IInv /\ QuotaOK /\ [Next]_vars => (IInv /\ QuotaOK)'
<1> SUFFICES ASSUME IInv, QuotaOK, [Next]_vars PROVE (IInv /\ QuotaOK)'
  OBVIOUS
<1>1. CASE UNCHANGED vars
  <2>1. /\ rows' = rows /\ links' = links /\ files' = files /\ lastId' = lastId
        /\ op' = op /\ raced' = raced /\ leaked' = leaked
    BY <1>1 DEF vars
  <2>2. Shape /\ Locks /\ Uses /\ Bytes
    BY DEF IInv
  <2>3. TypeOK'
    BY <2>1, <2>2 DEF Shape, TypeOK
  <2>4. ServedOK'
    BY <2>1, <2>2 DEF Shape, ServedOK
  <2>5. LinksCountTheirRow'
    <3> SUFFICES ASSUME NEW l \in links' PROVE \E c \in Contents : rows'[c] = l[1]
      BY DEF LinksCountTheirRow
    <3>1. l \in links
      BY <2>1
    <3>2. LinksCountTheirRow
      BY <2>2 DEF Locks, IdsOK
    <3>3. PICK c \in Contents : rows[c] = l[1]
      BY <3>1, <3>2 DEF LinksCountTheirRow
    <3> QED BY <2>1, <3>3
  <2>6. IdsOK'
    <3>1. \A l \in links' : l[1] # 0
      <4> SUFFICES ASSUME NEW l \in links' PROVE l[1] # 0
        OBVIOUS
      <4> QED BY <2>1, <2>2 DEF Locks, IdsOK
    <3>2. \A c \in Contents : rows'[c] <= lastId'
      BY <2>1, <2>2 DEF Locks, IdsOK
    <3>3. \A c, d \in Contents : rows'[c] # 0 /\ rows'[c] = rows'[d] => c = d
      BY <2>1, <2>2 DEF Locks, IdsOK
    <3>4. \A p \in Processes : op'[p].id <= lastId'
      BY <2>1, <2>2 DEF Locks, IdsOK
    <3>5. \A p \in Processes, c \in Contents :
             op'[p].id # 0 /\ rows'[c] = op'[p].id => c = op'[p].content
      BY <2>1, <2>2 DEF Locks, IdsOK
    <3> QED BY <2>5, <3>1, <3>2, <3>3, <3>4, <3>5 DEF IdsOK
  <2>7. FreshOK'
    BY <2>1, <2>2 DEF Locks, FreshOK
  <2>8. HoldsOK'
    BY <2>1, <2>2 DEF Locks, HoldsOK
  <2>9. AloneOK'
    BY <2>1, <2>2 DEF Locks, AloneOK
  <2>10. KeptOK'
    BY <2>1, <2>2 DEF Uses, KeptOK
  <2>11. DoomedOK'
    BY <2>1, <2>2 DEF Uses, DoomedOK
  <2>12. RowsAreUsed'
    BY <2>1, <2>2 DEF Uses, RowsAreUsed
  <2>13. PlacedOK'
    BY <2>1, <2>2 DEF Bytes, PlacedOK
  <2>14. BytesUnlessRaced'
    BY <2>1, <2>2 DEF Bytes, BytesUnlessRaced
  <2>15. QuotaOK'
    BY <2>1 DEF QuotaOK, Stored, Uploads
  <2> QED
    BY <2>3, <2>4, <2>5, <2>6, <2>7, <2>8, <2>9, <2>10, <2>11, <2>12, <2>13, <2>14, <2>15
    DEF IInv, Shape, Locks, Uses, Bytes
<1>2. ASSUME NEW p \in Processes, NEW c \in Contents, NEW e \in Entities,
             NEW draft \in BOOLEAN, UploadRead(p, c, e, draft)
      PROVE  (IInv /\ QuotaOK)'
  BY <1>2, UploadReadKeeps, QuotaUploadRead
<1>3. ASSUME NEW p \in Processes, UploadCommit(p)
      PROVE  (IInv /\ QuotaOK)'
  BY <1>3, UploadCommitKeeps, QuotaUploadCommit
<1>4. ASSUME NEW p \in Processes,
             \/ \E c \in Contents, e \in Entities : Unlink(p, c, e)
             \/ UploadInsert(p) \/ UploadPlace(p)
             \/ DedupeLink(p) \/ DedupeCommit(p)
             \/ UnlinkKeep(p) \/ UnlinkLast(p) \/ UnlinkDelete(p) \/ UnlinkCommit(p)
             \/ UnlinkRemove(p) \/ Abort(p)
      PROVE  (IInv /\ QuotaOK)'
  <2>1. IInv'
    BY <1>4, UnlinkKeeps, UploadInsertKeeps, UploadPlaceKeeps, DedupeLinkKeeps,
       DedupeCommitKeeps, UnlinkKeepKeeps, UnlinkLastKeeps, UnlinkDeleteKeeps,
       UnlinkCommitKeeps, UnlinkRemoveKeeps, AbortKeeps
  <2>2. QuotaOK'
    BY <1>4, QuotaOthers
  <2> QED BY <2>1, <2>2
<1> QED BY <1>1, <1>2, <1>3, <1>4 DEF Next

LEMMA SpecIInv == Spec => [](IInv /\ QuotaOK)
BY InitIInv, StepIInv, PTL DEF Spec

\* A row that anybody can see has its file, whatever uploads and removals of the
\* content cross or fail half-way, unless the late removal of a file took it
\* from a row that was inserted since (driver.commit before the commit,
\* driver.remove after it).
THEOREM BlobBytesUnlessRaced == Spec => []BytesUnlessRaced
<1>1. IInv => BytesUnlessRaced
  BY DEF IInv, Bytes
<1> QED BY <1>1, SpecIInv, PTL

\* Links count a row that is there, and a row is there for its links and for the
\* drafts that hold it, unless two removals crossed or a draft was dropped
\* (uploadAttachment, linkAttachment, unlinkAttachment).
THEOREM BlobRowsMatchLinks == Spec => []RowsMatchLinks
<1>1. IInv => RowsMatchLinks
  BY DEF IInv, Shape, Locks, IdsOK, Uses, RowsMatchLinks
<1> QED BY <1>1, SpecIInv, PTL

\* Uploads that check the quota at once pass it together by no more than one
\* file for each of the other requests (the quota check of uploadAttachment).
THEOREM BlobOverrunIsBounded == Spec => []OverrunIsBounded
<1>1. IInv /\ QuotaOK => OverrunIsBounded
  <2> SUFFICES ASSUME QuotaOK PROVE OverrunIsBounded
    OBVIOUS
  <2>1. Cardinality(Stored) \in Nat
    BY FS_CardinalityType DEF QuotaOK
  <2> QED BY <2>1, Counts, QuotaAssumption DEF QuotaOK, OverrunIsBounded, Used, Stored
<1> QED BY <1>1, SpecIInv, PTL

\* A link ends by its own removal: the removal of another one takes it only when
\* it was added to a row that was about to be deleted (unlinkAttachment, the
\* cascade of attachment_links).
THEOREM BlobLinksEndByRemoval == Spec => LinksEndByRemoval
<1>1. IInv /\ [Next]_vars =>
         [\A c \in Contents, e \in Entities :
             rows[c] # 0 /\ <<rows[c], e>> \in links \ links' /\ c \notin raced =>
                \E p \in At("kept", c) \union At("deleted", c) : op[p].entity = e]_vars
  <2> SUFFICES ASSUME IInv, [Next]_vars, NEW c \in Contents, NEW e \in Entities,
                      rows[c] # 0, <<rows[c], e>> \in links, <<rows[c], e>> \notin links',
                      c \notin raced
               PROVE  \E p \in At("kept", c) \union At("deleted", c) : op[p].entity = e
    OBVIOUS
  <2>1. PICK p \in Processes : UnlinkCommit(p)
    BY DEF vars, Next, Unlink, UploadRead, UploadInsert, UploadPlace, UploadCommit, DedupeLink,
           DedupeCommit, UnlinkKeep, UnlinkLast, UnlinkDelete, UnlinkRemove, Abort
  <2>2. op[p].pc \in {"kept", "deleted"} /\ op[p].id # 0
    BY <2>1 DEF UnlinkCommit, IInv, Locks, HoldsOK, Holding
  <2>3. CASE op[p].pc = "kept"
    <3>1. <<rows[c], e>> = <<op[p].id, op[p].entity>>
      BY <2>1, <2>3 DEF UnlinkCommit
    <3>2. c = op[p].content /\ op[p].entity = e
      BY <2>2, <3>1 DEF IInv, Locks, IdsOK
    <3> QED BY <2>3, <3>2 DEF At
  <2>4. CASE op[p].pc = "deleted"
    <3>1. rows[c] = op[p].id
      BY <2>1, <2>4 DEF UnlinkCommit
    <3>2. c = op[p].content
      BY <2>2, <3>1 DEF IInv, Locks, IdsOK
    <3>3. op[p].entity = e
      BY <2>4, <3>1, <3>2 DEF IInv, Uses, DoomedOK
    <3> QED BY <2>4, <3>2, <3>3 DEF At
  <2> QED BY <2>2, <2>3, <2>4
<1> QED BY <1>1, SpecIInv, PTL DEF Spec, LinksEndByRemoval
=============================================================================
