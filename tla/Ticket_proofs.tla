---------------------------- MODULE Ticket_proofs ----------------------------
(***************************************************************************)
(* Tickets, for any sets of tickets, agents and values and any bounds: a   *)
(* version of a row stands for one content, numbers are dense, nothing is  *)
(* written over unseen, and a cancelled ticket is not revived by accident. *)
(***************************************************************************)
EXTENDS Ticket, FiniteSetTheorems, TLAPS

Bulks == [pc : {"idle", "next", "write", "done", "undo", "unwrite"},
          todo : SUBSET Tickets, base : [Tickets -> Nat], value : Values \union {Nil},
          seen : Docs, at : Tickets \union {Nil}, noted : SUBSET Tickets,
          undo : [Tickets -> Undos]]
Forms == [on : Tickets \union {Nil}, seen : Docs]
Recoveries == [pc : {"idle", "counted", "read"}, on : Tickets \union {Nil},
               worked : BOOLEAN, seen : Docs]
Manifests == [id : Nat, source : Tickets, target : Tickets,
              status : Statuses, into : Tickets \union {Nil}]

\* The table: a ticket without a number has no content.
RowsOK == /\ rows \in [Tickets -> [number : Nat, doc : Docs]] /\ lastNumber \in Nat
          /\ NumbersAreDense
          /\ \A t \in Tickets : ~Exists(t) => Doc(t) = NoDoc

FormOK == /\ form \in [Agents -> Forms]
          /\ \A a \in Agents : form[a].on # Nil =>
                Exists(form[a].on) /\ Faithful(form[a].on, form[a].seen)

\* The browser read a ticket before the bulk action did.
BulkOK == /\ bulk \in Bulks
          /\ \A t \in bulk.todo \union bulk.noted : Exists(t)
          /\ \A t \in Tickets : bulk.base[t] <= Doc(t).ver
          /\ bulk.pc \in {"write", "unwrite"} => bulk.at # Nil
          /\ bulk.at # Nil => Exists(bulk.at) /\ Faithful(bulk.at, bulk.seen)
          /\ bulk.pc = "write" => bulk.base[bulk.at] <= bulk.seen.ver

RecoveryOK == /\ recovery \in Recoveries
              /\ recovery.pc # "idle" => recovery.on # Nil /\ Exists(recovery.on)
              /\ recovery.pc = "read" => Faithful(recovery.on, recovery.seen)

MergeOK == /\ IsFiniteSet(manifests)
           /\ links \in SUBSET (Tickets \X Tickets) /\ manifests \in SUBSET Manifests
           /\ \A m \in manifests : Exists(m.source)

IInv == RowsOK /\ FormOK /\ BulkOK /\ RecoveryOK /\ MergeOK

-----------------------------------------------------------------------------
(* Rows: what a step may do to them *)

\* A row is left alone, or its version is counted up by one; none goes away.
Advances == \A t \in Tickets : /\ Doc(t)' = Doc(t) \/ Doc(t)'.ver = Doc(t).ver + 1
                               /\ Exists(t) => Exists(t)'

LEMMA RowType ==
    ASSUME RowsOK, NEW t \in Tickets
    PROVE  /\ rows[t] \in [number : Nat, doc : Docs] /\ Doc(t) = rows[t].doc
           /\ Doc(t) \in Docs /\ Doc(t).ver \in Nat /\ rows[t].number \in Nat
BY DEF RowsOK, Doc, Docs

\* A row that is written.
LEMMA WriteRow ==
    ASSUME RowsOK, NEW t \in Tickets, NEW new \in Docs, Write(t, new)
    PROVE  /\ rows' \in [Tickets -> [number : Nat, doc : Docs]]
           /\ Doc(t)' = [new EXCEPT !.ver = Doc(t).ver + 1] /\ Doc(t)'.ver = Doc(t).ver + 1
           /\ \A s \in Tickets \ {t} : rows'[s] = rows[s]
           /\ \A s \in Tickets : rows'[s].number = rows[s].number
<1>1. rows \in [Tickets -> [number : Nat, doc : Docs]] /\ Doc(t).ver + 1 \in Nat
  BY RowType DEF RowsOK
<1>2. [new EXCEPT !.ver = Doc(t).ver + 1] \in Docs
  BY <1>1 DEF Docs
<1>3. [new EXCEPT !.ver = Doc(t).ver + 1].ver = Doc(t).ver + 1
  BY DEF Docs
<1> DEFINE doc == Bumped(rows[t].doc, new)
<1>4. rows' = [rows EXCEPT ![t].doc = doc]
  BY DEF Write
<1>5. doc = [new EXCEPT !.ver = Doc(t).ver + 1]
  BY DEF Bumped, Doc
<1> HIDE DEF doc
<1> QED BY <1>1, <1>2, <1>3, <1>4, <1>5 DEF Doc

LEMMA WriteKeeps ==
    ASSUME RowsOK, NEW t \in Tickets, Exists(t), NEW new \in Docs, Write(t, new),
           UNCHANGED lastNumber
    PROVE  RowsOK' /\ Advances
<1>1. /\ rows' \in [Tickets -> [number : Nat, doc : Docs]] /\ Doc(t)'.ver = Doc(t).ver + 1
      /\ \A s \in Tickets \ {t} : rows'[s] = rows[s]
      /\ \A s \in Tickets : rows'[s].number = rows[s].number
  BY WriteRow
<1>2. NumbersAreDense'
  <2>1. {rows'[s].number : s \in Tickets} = {rows[s].number : s \in Tickets}
    BY <1>1
  <2> QED BY <1>1, <2>1 DEF RowsOK, NumbersAreDense, Exists
<1>3. \A s \in Tickets : ~Exists(s)' => Doc(s)' = NoDoc
  BY <1>1 DEF RowsOK, Exists, Doc
<1>4. Advances
  BY <1>1 DEF Advances, Exists, Doc
<1> QED BY <1>1, <1>2, <1>3, <1>4 DEF RowsOK

LEMMA RowsRest ==
    ASSUME RowsOK, UNCHANGED <<rows, lastNumber>>
    PROVE  RowsOK' /\ Advances
BY DEF RowsOK, Advances, NumbersAreDense, Exists, Doc

\* A snapshot that was true of a row stays so.
LEMMA FaithfulStays ==
    ASSUME RowsOK, Advances, NEW t \in Tickets, NEW seen \in Docs, Faithful(t, seen)
    PROVE  Faithful(t, seen)'
<1>1. Doc(t).ver \in Nat /\ seen.ver \in Nat
  BY RowType DEF Docs
<1> QED BY <1>1 DEF Advances, Faithful

LEMMA FormRests ==
    ASSUME RowsOK, Advances, FormOK, UNCHANGED form
    PROVE  FormOK'
<1> SUFFICES ASSUME NEW a \in Agents, form[a].on # Nil
             PROVE  Exists(form[a].on)' /\ Faithful(form[a].on, form[a].seen)'
  BY DEF FormOK
<1>1. form[a].on \in Tickets /\ form[a].seen \in Docs
  BY DEF FormOK, Forms
<1> QED BY <1>1, FaithfulStays DEF FormOK, Advances

LEMMA BulkRests ==
    ASSUME RowsOK, Advances, BulkOK, UNCHANGED bulk
    PROVE  BulkOK'
<1>1. /\ bulk.at # Nil => bulk.at \in Tickets
      /\ bulk.seen \in Docs /\ bulk.todo \union bulk.noted \subseteq Tickets
      /\ bulk.base \in [Tickets -> Nat]
  BY DEF BulkOK, Bulks
<1>2. \A t \in Tickets : bulk.base[t] <= Doc(t)'.ver
  BY <1>1, RowType DEF BulkOK, Advances
<1>3. \A t \in bulk.todo \union bulk.noted : Exists(t)'
  BY <1>1 DEF BulkOK, Advances
<1>4. bulk.at # Nil => Exists(bulk.at)' /\ Faithful(bulk.at, bulk.seen)'
  BY <1>1, FaithfulStays DEF BulkOK, Advances
<1> QED BY <1>2, <1>3, <1>4 DEF BulkOK

LEMMA RecoveryRests ==
    ASSUME RowsOK, Advances, RecoveryOK, UNCHANGED recovery
    PROVE  RecoveryOK'
<1>1. recovery.on # Nil => recovery.on \in Tickets /\ recovery.seen \in Docs
  BY DEF RecoveryOK, Recoveries
<1> QED BY <1>1, FaithfulStays DEF RecoveryOK, Advances

LEMMA MergeRests ==
    ASSUME RowsOK, Advances, MergeOK, UNCHANGED <<links, manifests>>
    PROVE  MergeOK'
BY DEF MergeOK, Manifests, Advances

-----------------------------------------------------------------------------
LEMMA InitIInv == Init => IInv
<1> SUFFICES ASSUME Init PROVE IInv
  OBVIOUS
<1>1. NoDoc \in Docs /\ NoUndo \in Undos /\ NoDoc.ver = 0
  BY DEF NoDoc, Docs, NoUndo, Undos, Statuses
<1>2. NoBulk \in Bulks /\ NoForm \in Forms /\ NoRecovery \in Recoveries
  BY <1>1 DEF NoBulk, Bulks, NoForm, Forms, NoRecovery, Recoveries
<1>3. RowsOK
  BY <1>1 DEF Init, RowsOK, NumbersAreDense, Exists, Doc
<1>4. FormOK /\ RecoveryOK /\ MergeOK
  BY <1>2, FS_EmptySet DEF Init, FormOK, RecoveryOK, MergeOK, NoForm, NoRecovery
<1>5. BulkOK
  BY <1>1, <1>2 DEF Init, BulkOK, NoBulk, Doc
<1> QED BY <1>3, <1>4, <1>5 DEF IInv

LEMMA CreateKeeps ==
    ASSUME IInv, NEW t \in Tickets, NEW v \in Values, Create(t, v)
    PROVE  IInv'
<1> USE DEF IInv
<1> DEFINE doc == [NoDoc EXCEPT !.ver = 1, !.val = v]
<1>1. doc \in Docs /\ doc.ver = 1 /\ NoDoc.ver = 0 /\ lastNumber \in Nat
  BY DEF NoDoc, Docs, Statuses, RowsOK
<1>2. /\ rows' = [rows EXCEPT ![t] = [number |-> lastNumber + 1, doc |-> doc]]
      /\ lastNumber' = lastNumber + 1 /\ ~Exists(t)
      /\ UNCHANGED <<links, manifests, form, bulk, recovery>>
  BY DEF Create, Allocated
<1> HIDE DEF doc
<1>3. /\ rows' \in [Tickets -> [number : Nat, doc : Docs]]
      /\ rows'[t].number = lastNumber + 1 /\ rows'[t].doc = doc
      /\ \A s \in Tickets \ {t} : rows'[s] = rows[s]
  BY <1>1, <1>2 DEF RowsOK
<1>4. Advances
  BY <1>1, <1>2, <1>3 DEF Advances, RowsOK, Exists, Doc
<1>5. NumbersAreDense'
  <2>1. \A s \in Tickets : Exists(s) => rows[s].number \in 1..lastNumber
    BY DEF RowsOK, NumbersAreDense, Exists
  <2>2. \A s \in Tickets : Exists(s) => s # t /\ rows'[s].number = rows[s].number
    BY <1>2, <1>3
  <2>3. \A n \in 1..lastNumber : \E s \in Tickets : rows[s].number = n /\ Exists(s)
    BY DEF RowsOK, NumbersAreDense, Exists
  <2>4. {rows'[s].number : s \in Tickets} \ {0} = 1..(lastNumber + 1)
    <3>1. ASSUME NEW s \in Tickets, rows'[s].number # 0
          PROVE  rows'[s].number \in 1..(lastNumber + 1)
      BY <3>1, <1>1, <1>3, <2>1 DEF Exists
    <3>2. ASSUME NEW n \in 1..(lastNumber + 1)
          PROVE  \E s \in Tickets : rows'[s].number = n
      <4>1. CASE n = lastNumber + 1
        BY <4>1, <1>3
      <4>2. CASE n # lastNumber + 1
        BY <4>2, <1>1, <2>2, <2>3
      <4> QED BY <4>1, <4>2
    <3> QED BY <3>1, <3>2, <1>1
  <2>5. \A s, u \in Tickets : Exists(s)' /\ rows'[u].number = rows'[s].number => u = s
    <3>1. \A s \in Tickets : s # t => rows'[s].number # lastNumber + 1
      BY <1>1, <1>3, <2>1 DEF Exists
    <3> QED BY <1>3, <3>1 DEF Exists, RowsOK, NumbersAreDense
  <2> QED BY <1>2, <2>4, <2>5 DEF NumbersAreDense
<1>6. RowsOK'
  BY <1>1, <1>2, <1>3, <1>5 DEF RowsOK, Exists, Doc
<1> QED BY <1>2, <1>4, <1>6, FormRests, BulkRests, RecoveryRests, MergeRests
-----------------------------------------------------------------------------
(* The forms *)

LEMMA OpenKeeps ==
    ASSUME IInv, NEW a \in Agents, NEW t \in Tickets, Open(a, t)
    PROVE  IInv'
<1> USE DEF IInv
<1>1. UNCHANGED <<rows, links, manifests, lastNumber, bulk, recovery>>
  BY DEF Open
<1>2. RowsOK' /\ Advances
  BY <1>1, RowsRest
<1>3. FormOK'
  <2>1. /\ [on |-> t, seen |-> Doc(t)] \in Forms /\ Exists(t)
        /\ form' = [form EXCEPT ![a] = [on |-> t, seen |-> Doc(t)]]
    BY RowType DEF Forms, Open
  <2>2. \A b \in Agents : form'[b] = form[b] \/ form'[b] = [on |-> t, seen |-> Doc(t)]
    BY <2>1 DEF FormOK
  <2>3. Faithful(t, Doc(t))
    BY RowType DEF Faithful
  <2> QED BY <1>1, <2>1, <2>2, <2>3 DEF FormOK, Faithful, Exists, Doc
<1> QED BY <1>1, <1>2, <1>3, BulkRests, RecoveryRests, MergeRests

\* Closing a form, whatever has been written.
LEMMA CloseFormKeeps ==
    ASSUME IInv, Advances, NEW a \in Agents, CloseForm(a)
    PROVE  FormOK'
<1>1. NoForm \in Forms /\ NoForm.on = Nil
  BY DEF NoForm, Forms, NoDoc, Docs, Statuses
<1>2. form' \in [Agents -> Forms] /\ \A b \in Agents : form'[b] = form[b] \/ form'[b] = NoForm
  BY <1>1 DEF CloseForm, IInv, FormOK
<1>3. ASSUME NEW b \in Agents, form'[b].on # Nil
      PROVE  (Exists(form[b].on) /\ Faithful(form[b].on, form[b].seen))'
  <2>1. form'[b] = form[b]
    BY <1>1, <1>2, <1>3
  <2>2. form[b].on \in Tickets /\ form[b].seen \in Docs
    BY <1>3, <2>1 DEF IInv, FormOK, Forms
  <2>3. Exists(form[b].on) /\ Faithful(form[b].on, form[b].seen) /\ RowsOK
    BY <1>3, <2>1 DEF IInv, FormOK
  <2>4. \A t \in Tickets, seen \in Docs : Faithful(t, seen) => Faithful(t, seen)'
    BY <2>3, FaithfulStays
  <2>5. Faithful(form[b].on, form[b].seen)'
    BY <2>1, <2>2, <2>3, <2>4 DEF Faithful
  <2>6. Exists(form[b].on)'
    BY <2>1, <2>2, <2>3 DEF Advances, Exists
  <2> QED BY <2>5, <2>6
<1> QED BY <1>2, <1>3 DEF FormOK

\* The ticket of a form that is current is as the form shows it.
LEMMA CurrentIsSeen ==
    ASSUME IInv, NEW a \in Agents, Current(a)
    PROVE  /\ form[a].on \in Tickets /\ Exists(form[a].on)
           /\ form[a].seen = Doc(form[a].on)
BY DEF Current, IInv, FormOK, Forms, Faithful

LEMMA SaveKeeps ==
    ASSUME IInv, NEW a \in Agents,
           \/ \E v \in Values : Save(a, v)
           \/ \E s \in Statuses : Transition(a, s)
           \/ Dismiss(a)
    PROVE  IInv'
<1> USE DEF IInv
<1>1. CloseForm(a) /\ UNCHANGED <<links, manifests, lastNumber, bulk, recovery>>
  BY DEF Save, Transition, Dismiss
<1>2. RowsOK' /\ Advances
  <2>1. ASSUME NEW v \in Values, Save(a, v) PROVE RowsOK' /\ Advances
    <3>1. [Doc(form[a].on) EXCEPT !.val = v] \in Docs /\ form[a].on \in Tickets
      BY <2>1, CurrentIsSeen, RowType DEF Save, Docs
    <3> QED BY <2>1, <3>1, CurrentIsSeen, WriteKeeps DEF Save
  <2>2. ASSUME NEW s \in Statuses, Transition(a, s) PROVE RowsOK' /\ Advances
    <3>1. [Doc(form[a].on) EXCEPT !.status = s] \in Docs /\ form[a].on \in Tickets
      BY <2>2, CurrentIsSeen, RowType DEF Transition, Docs
    <3> QED BY <2>2, <3>1, CurrentIsSeen, WriteKeeps DEF Transition
  <2>3. CASE Dismiss(a)
    BY <2>3, RowsRest DEF Dismiss
  <2> QED BY <2>1, <2>2, <2>3
<1> QED BY <1>1, <1>2, CloseFormKeeps, BulkRests, RecoveryRests, MergeRests

-----------------------------------------------------------------------------
(* Reopening, merging and its revert *)

LEMMA ReopenKeeps ==
    ASSUME IInv, NEW t \in Tickets, Reopen(t)
    PROVE  IInv'
<1> USE DEF IInv
<1>1. [Doc(t) EXCEPT !.status = "open"] \in Docs
  BY RowType DEF Docs, Statuses
<1>2. RowsOK' /\ Advances
  BY <1>1, WriteKeeps DEF Reopen
<1> QED BY <1>2, FormRests, BulkRests, RecoveryRests, MergeRests DEF Reopen

LEMMA MergeKeeps ==
    ASSUME IInv, NEW source \in Tickets, NEW target \in Tickets, Merge(source, target)
    PROVE  IInv'
<1> USE DEF IInv
<1>1. [Doc(source) EXCEPT !.into = target, !.status = "cancelled"] \in Docs
  BY RowType DEF Docs, Statuses
<1>2. RowsOK' /\ Advances
  BY <1>1, WriteKeeps DEF Merge
<1>3. MergeOK'
  <2> DEFINE m == [id |-> Cardinality(manifests) + 1, source |-> source, target |-> target,
                   status |-> Doc(source).status, into |-> Doc(source).into]
  <2>1. manifests' = manifests \union {m} /\ links' = links \union {<<source, target>>}
    BY DEF Merge
  <2>2. Cardinality(manifests) + 1 \in Nat /\ IsFiniteSet(manifests \union {m})
    <3>1. IsFiniteSet(manifests)
      BY DEF MergeOK
    <3>2. Cardinality(manifests) \in Nat
      BY <3>1, FS_CardinalityType
    <3>3. IsFiniteSet(manifests \union {m})
      BY <3>1, FS_AddElement
    <3> QED BY <3>2, <3>3
  <2>3. m \in Manifests /\ m.source = source /\ Exists(source)
    BY <2>2, RowType DEF Docs, Manifests, Merge
  <2> HIDE DEF m
  <2> QED BY <1>2, <2>1, <2>2, <2>3 DEF MergeOK, Manifests, Advances
<1> QED BY <1>2, <1>3, FormRests, BulkRests, RecoveryRests DEF Merge

LEMMA RevertMergeKeeps ==
    ASSUME IInv, NEW m \in manifests, RevertMerge(m)
    PROVE  IInv'
<1> USE DEF IInv
<1>1. m \in Manifests /\ m.source \in Tickets /\ Exists(m.source)
  BY DEF MergeOK, Manifests
<1>2. [Doc(m.source) EXCEPT !.into = m.into, !.status = m.status] \in Docs
  BY <1>1, RowType, ZenonT(30) DEF Docs, Manifests
<1>3. RowsOK' /\ Advances
  BY <1>1, <1>2, WriteKeeps DEF RevertMerge
<1>4. MergeOK'
  BY <1>3 DEF MergeOK, Manifests, Advances, RevertMerge
<1> QED BY <1>3, <1>4, FormRests, BulkRests, RecoveryRests DEF RevertMerge
-----------------------------------------------------------------------------
(* Bulk actions and their undo *)

LEMMA BulkReadsKeep ==
    ASSUME IInv,
           \/ \E set \in SUBSET Tickets, v \in Values, versioned \in BOOLEAN :
                  BulkStart(set, v, versioned)
           \/ \E t \in Tickets : BulkRead(t) \/ UndoRead(t)
           \/ BulkDone \/ UndoStart \/ BulkForget
    PROVE  IInv'
<1> USE DEF IInv
<1>1. UNCHANGED <<rows, links, manifests, lastNumber, form, recovery>>
  BY DEF BulkStart, BulkRead, UndoRead, BulkDone, UndoStart, BulkForget
<1>2. RowsOK' /\ Advances
  BY <1>1, RowsRest
<1>3. /\ NoBulk \in Bulks /\ NoBulk.pc = "idle" /\ NoBulk.todo = {} /\ NoBulk.noted = {}
      /\ NoBulk.at = Nil /\ NoBulk.base = [t \in Tickets |-> 0]
  BY DEF NoBulk, Bulks, NoDoc, Docs, NoUndo, Undos, Statuses
<1>4. bulk \in Bulks /\ \A t \in Tickets : Doc(t)' = Doc(t) /\ (Exists(t)' <=> Exists(t))
  BY <1>1 DEF BulkOK, Doc, Exists
<1>5. BulkOK'
  <2>1. ASSUME NEW set \in SUBSET Tickets, NEW v \in Values, NEW versioned \in BOOLEAN,
               BulkStart(set, v, versioned)
        PROVE  BulkOK'
    <3> DEFINE base == [t \in Tickets |-> IF versioned /\ t \in set THEN Doc(t).ver ELSE 0]
    <3>1. base \in [Tickets -> Nat] /\ \A t \in Tickets : base[t] <= Doc(t).ver
      BY RowType
    <3>2. /\ bulk' = [NoBulk EXCEPT !.pc = "next", !.todo = set, !.value = v, !.base = base]
          /\ \A t \in set : Exists(t)
      BY <2>1 DEF BulkStart
    <3> HIDE DEF base
    <3>3. /\ bulk' \in Bulks /\ bulk'.pc = "next" /\ bulk'.todo = set /\ bulk'.base = base
          /\ bulk'.at = Nil /\ bulk'.noted = {}
      BY <1>3, <3>1, <3>2 DEF Bulks
    <3> QED BY <1>4, <3>1, <3>2, <3>3 DEF BulkOK
  <2>2. ASSUME NEW t \in Tickets, NEW next \in {"write", "unwrite"},
               bulk' = [bulk EXCEPT !.pc = next, !.at = t, !.seen = Doc(t), !.todo = @ \ {t}],
               t \in bulk.todo
        PROVE  BulkOK'
    <3>1. /\ bulk' \in Bulks /\ bulk'.pc = next /\ bulk'.at = t /\ bulk'.seen = Doc(t)
          /\ bulk'.todo = bulk.todo \ {t} /\ bulk'.base = bulk.base /\ bulk'.noted = bulk.noted
      BY <1>4, <2>2, RowType DEF Bulks
    <3>2. Exists(t) /\ Faithful(t, Doc(t)) /\ bulk.base[t] <= Doc(t).ver
      BY <2>2, RowType DEF BulkOK, Faithful
    <3>3. (Exists(bulk.at) /\ Faithful(bulk.at, bulk.seen))'
      BY <1>1, <3>1, <3>2 DEF Exists, Faithful, Doc
    <3>4. \A s \in bulk'.todo \union bulk'.noted : Exists(s)'
      BY <1>1, <3>1 DEF BulkOK, Exists
    <3>5. \A s \in Tickets : bulk'.base[s] <= Doc(s)'.ver
      BY <1>4, <3>1 DEF BulkOK
    <3>6. bulk'.at # Nil /\ bulk'.base[bulk'.at] <= bulk'.seen.ver
      BY <3>1, <3>2, NilAssumption
    <3> QED BY <3>1, <3>3, <3>4, <3>5, <3>6 DEF BulkOK
  <2>3. ASSUME NEW t \in Tickets, BulkRead(t) \/ UndoRead(t) PROVE BulkOK'
    BY <2>2, <2>3 DEF BulkRead, UndoRead
  <2>4. CASE bulk' = NoBulk
    BY <1>3, <1>4, <2>4, RowType DEF BulkOK
  <2>5. CASE BulkDone /\ bulk' # NoBulk
    <3>1. bulk' = [NoBulk EXCEPT !.pc = "done", !.noted = bulk.noted, !.undo = bulk.undo]
      BY <2>5 DEF BulkDone
    <3>2. /\ bulk' \in Bulks /\ bulk'.pc = "done" /\ bulk'.noted = bulk.noted /\ bulk'.todo = {}
          /\ bulk'.at = Nil /\ bulk'.base = [t \in Tickets |-> 0]
      BY <1>3, <1>4, <3>1 DEF Bulks
    <3>3. \A t \in Tickets : bulk'.base[t] <= Doc(t)'.ver
      BY <1>4, <3>2, RowType
    <3>4. \A t \in bulk'.todo \union bulk'.noted : Exists(t)'
      BY <1>1, <3>2 DEF BulkOK, Exists
    <3> QED BY <3>2, <3>3, <3>4 DEF BulkOK
  <2>6. CASE UndoStart
    <3>1. /\ bulk' \in Bulks /\ bulk'.pc = "undo" /\ bulk'.todo = bulk.noted /\ bulk'.noted = {}
          /\ bulk'.at = bulk.at /\ bulk'.seen = bulk.seen /\ bulk'.base = bulk.base
      BY <1>4, <2>6 DEF UndoStart, Bulks
    <3> QED BY <1>1, <1>4, <3>1 DEF BulkOK, Faithful, Exists, Doc
  <2> QED BY <2>1, <2>3, <2>4, <2>5, <2>6 DEF BulkForget
<1> QED BY <1>1, <1>2, <1>5, FormRests, RecoveryRests, MergeRests

\* The bulk action puts a ticket down: what is left of it is what was.
LEMMA PutDown ==
    ASSUME RowsOK, BulkOK, Advances, NEW t \in Tickets, Exists(t),
           bulk' \in Bulks, bulk'.pc \in {"next", "undo"}, bulk'.at = Nil,
           bulk'.todo = bulk.todo, bulk'.noted \subseteq bulk.noted \union {t},
           \A s \in Tickets : bulk'.base[s] = 0 \/ bulk'.base[s] = bulk.base[s]
    PROVE  BulkOK'
<1>1. \A s \in Tickets : /\ Doc(s).ver \in Nat /\ Doc(s)'.ver \in Nat
                         /\ Doc(s).ver <= Doc(s)'.ver
  BY RowType DEF Advances
<1>2. bulk.base \in [Tickets -> Nat] /\ bulk.todo \union bulk.noted \subseteq Tickets
  BY DEF BulkOK, Bulks
<1>3. \A s \in Tickets : bulk'.base[s] <= Doc(s)'.ver
  <2>1. \A s \in Tickets : bulk.base[s] \in Nat /\ bulk.base[s] <= Doc(s).ver
    BY <1>2 DEF BulkOK
  <2> QED BY <1>1, <2>1
<1>4. \A s \in bulk'.todo \union bulk'.noted : Exists(s)'
  BY <1>2 DEF BulkOK, Advances
<1> QED BY <1>3, <1>4 DEF BulkOK

\* The ticket the bulk action has in hand, as it was read.
LEMMA InHand ==
    ASSUME IInv, bulk.pc \in {"write", "unwrite"}
    PROVE  /\ bulk.at \in Tickets /\ Exists(bulk.at) /\ bulk.seen \in Docs
           /\ Faithful(bulk.at, bulk.seen)
BY DEF IInv, BulkOK, Bulks

\* What a bulk action may write to is still as it was read: the browser's
\* version is no later than the one that was read, and that one than the row's.
LEMMA BulkSees ==
    ASSUME IInv, bulk.pc = "write", BulkMayWrite(bulk.at)
    PROVE  bulk.seen = Doc(bulk.at)
<1>1. bulk.at \in Tickets /\ bulk.seen \in Docs /\ Faithful(bulk.at, bulk.seen)
  BY InHand
<1>2. bulk.base[bulk.at] \in Nat /\ bulk.base[bulk.at] <= bulk.seen.ver
  BY <1>1 DEF IInv, BulkOK, Bulks
<1>3. bulk.seen.ver \in Nat /\ Doc(bulk.at).ver \in Nat
  BY <1>1, RowType DEF IInv, Docs
<1>4. bulk.seen.ver = Doc(bulk.at).ver
  BY <1>1, <1>2, <1>3 DEF BulkMayWrite, Faithful
<1> QED BY <1>1, <1>4 DEF Faithful

LEMMA BulkWriteKeeps ==
    ASSUME IInv, BulkWrite
    PROVE  IInv'
<1> USE DEF IInv
<1> DEFINE t == bulk.at
<1>1. UNCHANGED <<links, manifests, lastNumber, form, recovery>> /\ bulk.pc = "write"
  BY DEF BulkWrite
<1>2. /\ t \in Tickets /\ Exists(t) /\ bulk.seen \in Docs /\ bulk \in Bulks
      /\ NoDoc \in Docs
  BY <1>1, InHand DEF BulkOK, NoDoc, Docs, Statuses
<1>3. CASE BulkMayWrite(t)
  <2>1. \/ UNCHANGED rows
        \/ Write(t, [Doc(t) EXCEPT !.val = bulk.value])
    BY <1>3 DEF BulkWrite
  <2>2. bulk' = [bulk EXCEPT !.pc = "next", !.at = Nil, !.seen = NoDoc,
                             !.base[t] = 0, !.noted = @ \union {t},
                             !.undo[t] = [val |-> bulk.seen.val,
                                          was |-> bulk.seen.status]]
    BY <1>3 DEF BulkWrite
  <2>3. [Doc(t) EXCEPT !.val = bulk.value] \in Docs
    BY <1>2, RowType DEF Docs, Bulks
  <2>4. RowsOK' /\ Advances
    BY <1>1, <1>2, <2>1, <2>3, RowsRest, WriteKeeps
  <2>5. [val |-> bulk.seen.val, was |-> bulk.seen.status] \in Undos
    BY <1>2 DEF Docs, Undos
  <2>6. /\ [bulk.base EXCEPT ![t] = 0] \in [Tickets -> Nat]
        /\ [bulk.undo EXCEPT ![t] = [val |-> bulk.seen.val, was |-> bulk.seen.status]]
                \in [Tickets -> Undos]
        /\ bulk.noted \union {t} \in SUBSET Tickets
    BY <1>2, <2>5 DEF Bulks
  <2>7. /\ bulk' \in Bulks /\ bulk'.pc = "next" /\ bulk'.at = Nil /\ bulk'.todo = bulk.todo
        /\ bulk'.noted = bulk.noted \union {t} /\ bulk'.base = [bulk.base EXCEPT ![t] = 0]
    BY <1>2, <2>2, <2>6 DEF Bulks
  <2>8. \A s \in Tickets : bulk'.base[s] = 0 \/ bulk'.base[s] = bulk.base[s]
    BY <1>2, <2>7 DEF Bulks
  <2>9. BulkOK'
    BY <1>2, <2>4, <2>7, <2>8, PutDown
  <2> QED BY <1>1, <2>4, <2>9, FormRests, RecoveryRests, MergeRests
<1>4. CASE ~BulkMayWrite(t)
  <2>1. /\ UNCHANGED rows
        /\ bulk' = [bulk EXCEPT !.pc = "next", !.at = Nil, !.seen = NoDoc, !.base[t] = 0]
    BY <1>4 DEF BulkWrite
  <2>2. RowsOK' /\ Advances
    BY <1>1, <2>1, RowsRest
  <2>3. [bulk.base EXCEPT ![t] = 0] \in [Tickets -> Nat]
    BY <1>2 DEF Bulks
  <2>4. /\ bulk' \in Bulks /\ bulk'.pc = "next" /\ bulk'.at = Nil /\ bulk'.todo = bulk.todo
        /\ bulk'.noted = bulk.noted /\ bulk'.base = [bulk.base EXCEPT ![t] = 0]
    BY <1>2, <2>1, <2>3 DEF Bulks
  <2>5. \A s \in Tickets : bulk'.base[s] = 0 \/ bulk'.base[s] = bulk.base[s]
    BY <1>2, <2>4 DEF Bulks
  <2>6. BulkOK'
    BY <1>2, <2>2, <2>4, <2>5, PutDown
  <2> QED BY <1>1, <2>2, <2>6, FormRests, RecoveryRests, MergeRests
<1> QED BY <1>3, <1>4

LEMMA UndoWriteKeeps ==
    ASSUME IInv, UndoWrite
    PROVE  IInv'
<1> USE DEF IInv
<1> DEFINE t == bulk.at
<1>1. /\ UNCHANGED <<links, manifests, lastNumber, form, recovery>> /\ bulk.pc = "unwrite"
      /\ bulk' = [bulk EXCEPT !.pc = "undo", !.at = Nil, !.seen = NoDoc, !.undo[t] = NoUndo]
      /\ UNCHANGED rows \/ Write(t, [Doc(t) EXCEPT !.val = bulk.undo[t].val])
  BY DEF UndoWrite
<1>2. /\ t \in Tickets /\ Exists(t) /\ bulk \in Bulks /\ NoDoc \in Docs /\ NoUndo \in Undos
  BY <1>1, InHand DEF BulkOK, NoDoc, Docs, NoUndo, Undos, Statuses
<1>3. /\ bulk.undo[t].val \in Values \union {Nil}
      /\ [bulk.undo EXCEPT ![t] = NoUndo] \in [Tickets -> Undos]
  BY <1>2 DEF Bulks, Undos
<1>4. [Doc(t) EXCEPT !.val = bulk.undo[t].val] \in Docs
  BY <1>2, <1>3, RowType DEF Docs
<1>5. RowsOK' /\ Advances
  BY <1>1, <1>2, <1>4, RowsRest, WriteKeeps
<1>6. /\ bulk' \in Bulks /\ bulk'.pc = "undo" /\ bulk'.at = Nil /\ bulk'.todo = bulk.todo
      /\ bulk'.noted = bulk.noted /\ bulk'.base = bulk.base
  BY <1>1, <1>2, <1>3 DEF Bulks
<1>7. BulkOK'
  BY <1>2, <1>5, <1>6, PutDown
<1> QED BY <1>1, <1>5, <1>7, FormRests, RecoveryRests, MergeRests

-----------------------------------------------------------------------------
(* The recovery of an alert *)

LEMMA RecoveryKeeps ==
    ASSUME IInv,
           \/ \E t \in Tickets, worked \in BOOLEAN : RecoveryCount(t, worked)
           \/ RecoveryRead \/ RecoveryWrite
    PROVE  IInv'
<1> USE DEF IInv
<1>1. UNCHANGED <<links, manifests, lastNumber, form, bulk>>
  BY DEF RecoveryCount, RecoveryRead, RecoveryWrite
<1>2. /\ recovery \in Recoveries /\ NoRecovery \in Recoveries /\ NoRecovery.pc = "idle"
  BY DEF RecoveryOK, NoRecovery, Recoveries, NoDoc, Docs, Statuses
<1>3. ASSUME NEW t \in Tickets, NEW worked \in BOOLEAN, RecoveryCount(t, worked)
      PROVE  IInv'
  <2>1. /\ UNCHANGED rows /\ Exists(t)
        /\ recovery' = [NoRecovery EXCEPT !.pc = "counted", !.on = t, !.worked = worked]
    BY <1>3 DEF RecoveryCount
  <2>2. /\ recovery' \in Recoveries /\ recovery'.pc = "counted" /\ recovery'.on = t /\ t # Nil
    BY <1>2, <2>1, NilAssumption DEF Recoveries
  <2>3. RowsOK' /\ Advances
    BY <1>1, <2>1, RowsRest
  <2>4. RecoveryOK'
    BY <2>1, <2>2 DEF RecoveryOK, Exists
  <2> QED BY <1>1, <2>3, <2>4, FormRests, BulkRests, MergeRests
<1>4. CASE RecoveryRead
  <2>1. /\ UNCHANGED rows /\ recovery.pc = "counted"
        /\ recovery' = [recovery EXCEPT !.pc = "read", !.seen = Doc(recovery.on)]
    BY <1>4 DEF RecoveryRead
  <2>2. recovery.on \in Tickets /\ recovery.on # Nil /\ Exists(recovery.on)
    BY <1>2, <2>1 DEF RecoveryOK, Recoveries
  <2>3. Doc(recovery.on) \in Docs /\ Doc(recovery.on).ver \in Nat
    BY <2>2, RowType
  <2>4. /\ recovery' \in Recoveries /\ recovery'.pc = "read" /\ recovery'.on = recovery.on
        /\ recovery'.seen = Doc(recovery.on)
    BY <1>2, <2>1, <2>3 DEF Recoveries
  <2>5. RowsOK' /\ Advances
    BY <1>1, <2>1, RowsRest
  <2>6. RecoveryOK'
    BY <2>1, <2>2, <2>3, <2>4 DEF RecoveryOK, Exists, Faithful, Doc
  <2> QED BY <1>1, <2>5, <2>6, FormRests, BulkRests, MergeRests
<1>5. CASE RecoveryWrite
  <2>1. /\ recovery.pc = "read" /\ recovery' = NoRecovery
        /\ UNCHANGED rows \/ Write(recovery.on, [Doc(recovery.on) EXCEPT !.status = RecoveryTarget])
    BY <1>5 DEF RecoveryWrite
  <2>2. recovery.on \in Tickets /\ recovery.seen \in Docs /\ Exists(recovery.on)
    BY <1>2, <2>1 DEF RecoveryOK, Recoveries
  <2>3. RecoveryTarget \in Statuses
    BY DEF RecoveryTarget, Statuses, Terminal
  <2>4. [Doc(recovery.on) EXCEPT !.status = RecoveryTarget] \in Docs
    BY <2>2, <2>3, RowType DEF Docs
  <2>5. RowsOK' /\ Advances
    BY <1>1, <2>1, <2>2, <2>4, RowsRest, WriteKeeps
  <2>6. RecoveryOK'
    BY <1>2, <2>1 DEF RecoveryOK
  <2> QED BY <1>1, <2>5, <2>6, FormRests, BulkRests, MergeRests
<1> QED BY <1>3, <1>4, <1>5

-----------------------------------------------------------------------------
(* The invariant *)

LEMMA StepIInv == IInv /\ [Next]_vars => IInv'
<1> SUFFICES ASSUME IInv, [Next]_vars PROVE IInv'
  OBVIOUS
<1>1. CASE UNCHANGED vars
  <2>1. UNCHANGED <<rows, links, manifests, lastNumber, form, bulk, recovery>>
    BY <1>1 DEF vars
  <2>2. RowsOK' /\ Advances
    BY <2>1, RowsRest DEF IInv
  <2> QED BY <2>1, <2>2, FormRests, BulkRests, RecoveryRests, MergeRests DEF IInv
<1>2. CASE \E t \in Tickets, v \in Values : Create(t, v)
  BY <1>2, CreateKeeps
<1>3. CASE \E t \in Tickets : Reopen(t)
  BY <1>3, ReopenKeeps
<1>4. CASE \E a \in Agents, t \in Tickets : Open(a, t)
  BY <1>4, OpenKeeps
<1>5. CASE \E a \in Agents : \/ \E v \in Values : Save(a, v)
                             \/ \E s \in Statuses : Transition(a, s)
                             \/ Dismiss(a)
  BY <1>5, SaveKeeps
<1>6. CASE \E s, t \in Tickets : Merge(s, t)
  BY <1>6, MergeKeeps
<1>7. CASE \E m \in manifests : RevertMerge(m)
  BY <1>7, RevertMergeKeeps
<1>8. CASE \/ \E set \in SUBSET Tickets, v \in Values, versioned \in BOOLEAN :
                  BulkStart(set, v, versioned)
           \/ \E t \in Tickets : BulkRead(t) \/ UndoRead(t)
           \/ BulkDone \/ UndoStart \/ BulkForget
  BY <1>8, BulkReadsKeep
<1>9. CASE BulkWrite
  BY <1>9, BulkWriteKeeps
<1>10. CASE UndoWrite
  BY <1>10, UndoWriteKeeps
<1>11. CASE \/ \E t \in Tickets, worked \in BOOLEAN : RecoveryCount(t, worked)
            \/ RecoveryRead \/ RecoveryWrite
  BY <1>11, RecoveryKeeps
<1> QED BY <1>1, <1>2, <1>3, <1>4, <1>5, <1>6, <1>7, <1>8, <1>9, <1>10, <1>11 DEF Next

LEMMA SpecIInv == Spec => []IInv
BY InitIInv, StepIInv, PTL DEF Spec

\* A number stands for one ticket and a version of it for one content, however
\* the forms, the bulk actions, the merges and their reverts, the reopenings
\* and the recoveries interleave (allocateTicketNumber, lockTicket, update,
\* transition, bulkApply, mergeTickets, revertMerge, reopen,
\* applyAlertRecovery): what is still at the version somebody read is what they
\* read.
THEOREM TicketNumberAndVersionIdentify == Spec => []NumberAndVersionIdentify
<1>1. IInv => NumberAndVersionIdentify
  <2> SUFFICES ASSUME IInv PROVE NumberAndVersionIdentify
    OBVIOUS
  <2>1. TypeOK
    BY DEF IInv, TypeOK, RowsOK, FormOK, Forms, BulkOK, Bulks, RecoveryOK, Recoveries,
           MergeOK, Manifests
  <2>2. NumbersAreDense
    BY DEF IInv, RowsOK
  <2>3. VersionIdentifiesContent
    BY DEF IInv, VersionIdentifiesContent, FormOK, BulkOK, RecoveryOK
  <2> QED BY <2>1, <2>2, <2>3 DEF NumberAndVersionIdentify
<1> QED BY <1>1, SpecIInv, PTL

-----------------------------------------------------------------------------
(* What a step changes of a ticket *)

\* A write of one row, column by column.
LEMMA WriteShows ==
    ASSUME RowsOK, NEW t \in Tickets, NEW new \in Docs, Write(t, new), NEW s \in Tickets
    PROVE  /\ s # t => Doc(s)' = Doc(s)
           /\ s = t => /\ Doc(s)'.val = new.val
                       /\ Doc(s)'.status = new.status
                       /\ Doc(s)'.into = new.into
<1>1. /\ Doc(t)' = [new EXCEPT !.ver = Doc(t).ver + 1]
      /\ s # t => rows'[s] = rows[s]
  BY WriteRow
<1> QED BY <1>1 DEF Doc, Docs

\* Whoever writes a ticket, and what of it.
LEMMA WhoWrites ==
    ASSUME IInv, [Next]_vars, NEW t \in Tickets, Exists(t), Doc(t)' # Doc(t)
    PROVE  \/ \E a \in Agents : /\ form[a].on = t /\ form[a].seen = Doc(t)
           \/ /\ Doc(t).status \in {"resolved", "closed"} /\ Doc(t)'.val = Doc(t).val
           \/ /\ Doc(t)'.status = "cancelled" /\ Doc(t)'.val = Doc(t).val
           \/ \E m \in manifests : /\ m.source = t /\ Doc(t)'.val = Doc(t).val
                                   /\ Doc(t)'.status = m.status /\ Doc(t)'.into = m.into
           \/ /\ bulk.pc = "write" /\ bulk.at = t /\ bulk'.undo[t].val = Doc(t).val
              /\ Doc(t)'.status = Doc(t).status
           \/ /\ bulk.pc = "unwrite" /\ bulk.at = t /\ bulk.seen = Doc(t)
              /\ Doc(t)'.status = Doc(t).status
           \/ /\ Doc(t).status \notin Terminal /\ Doc(t)'.val = Doc(t).val
<1> USE DEF IInv
<1>1. rows' # rows
  BY DEF Doc
<1>2. ASSUME NEW u \in Tickets, NEW v \in Values, Create(u, v)
      PROVE  FALSE
  BY <1>2 DEF Create, Exists, Doc, RowsOK
<1>3. ASSUME NEW u \in Tickets, Reopen(u)
      PROVE  Doc(t).status \in {"resolved", "closed"} /\ Doc(t)'.val = Doc(t).val
  <2>1. [Doc(u) EXCEPT !.status = "open"] \in Docs /\ Doc(u) \in Docs
    BY RowType DEF Docs, Statuses
  <2>2. [Doc(u) EXCEPT !.status = "open"].val = Doc(u).val
    BY <2>1 DEF Docs
  <2>3. /\ Doc(u).status \in {"resolved", "closed"}
        /\ Write(u, [Doc(u) EXCEPT !.status = "open"])
    BY <1>3 DEF Reopen
  <2> QED BY <2>1, <2>2, <2>3, WriteShows
<1>4. ASSUME NEW a \in Agents, Current(a), NEW new \in Docs, Write(form[a].on, new)
      PROVE  form[a].on = t /\ form[a].seen = Doc(t)
  BY <1>4, CurrentIsSeen, WriteShows
<1>5. ASSUME NEW a \in Agents, NEW v \in Values, Save(a, v)
      PROVE  form[a].on = t /\ form[a].seen = Doc(t)
  <2>1. [Doc(form[a].on) EXCEPT !.val = v] \in Docs
    BY <1>5, CurrentIsSeen, RowType DEF Save, Docs
  <2> QED BY <1>4, <1>5, <2>1 DEF Save
<1>6. ASSUME NEW a \in Agents, NEW s \in Statuses, Transition(a, s)
      PROVE  form[a].on = t /\ form[a].seen = Doc(t)
  <2>1. [Doc(form[a].on) EXCEPT !.status = s] \in Docs
    BY <1>6, CurrentIsSeen, RowType DEF Transition, Docs
  <2> QED BY <1>4, <1>6, <2>1 DEF Transition
<1>7. ASSUME NEW source \in Tickets, NEW target \in Tickets, Merge(source, target)
      PROVE  Doc(t)'.status = "cancelled" /\ Doc(t)'.val = Doc(t).val
  <2> DEFINE new == [Doc(source) EXCEPT !.into = target, !.status = "cancelled"]
  <2>1. new \in Docs /\ new.val = Doc(source).val /\ new.status = "cancelled"
    BY RowType DEF Docs, Statuses
  <2>2. Write(source, new)
    BY <1>7 DEF Merge
  <2> HIDE DEF new
  <2> QED BY <2>1, <2>2, WriteShows
<1>8. ASSUME NEW m \in manifests, RevertMerge(m)
      PROVE  /\ m.source = t /\ Doc(t)'.val = Doc(t).val
             /\ Doc(t)'.status = m.status /\ Doc(t)'.into = m.into
  <2> DEFINE new == [Doc(m.source) EXCEPT !.into = m.into, !.status = m.status]
  <2>1. m.source \in Tickets /\ m \in Manifests
    BY DEF MergeOK, Manifests
  <2>2. /\ new \in Docs /\ new.val = Doc(m.source).val /\ new.status = m.status
        /\ new.into = m.into
    BY <2>1, RowType, ZenonT(30) DEF Docs, Manifests
  <2>3. Write(m.source, new)
    BY <1>8 DEF RevertMerge
  <2> HIDE DEF new
  <2> QED BY <2>1, <2>2, <2>3, WriteShows
<1>9. ASSUME BulkWrite
      PROVE  /\ bulk.pc = "write" /\ bulk.at = t /\ bulk'.undo[t].val = Doc(t).val
             /\ Doc(t)'.status = Doc(t).status
  <2> DEFINE u == bulk.at
             new == [Doc(u) EXCEPT !.val = bulk.value]
  <2>1. bulk.pc = "write" /\ BulkMayWrite(u) /\ Write(u, new)
    BY <1>1, <1>9 DEF BulkWrite
  <2>2. u \in Tickets /\ bulk.seen = Doc(u) /\ bulk \in Bulks
    BY <2>1, InHand, BulkSees DEF BulkOK
  <2>3. new \in Docs /\ new.status = Doc(u).status
    BY <2>2, RowType DEF Docs, Bulks
  <2> HIDE DEF new
  <2>4. u = t /\ Doc(t)'.status = Doc(t).status
    BY <2>1, <2>2, <2>3, WriteShows
  <2>5. bulk'.undo = [bulk.undo EXCEPT ![u] = [val |-> bulk.seen.val,
                                               was |-> bulk.seen.status]]
    BY <1>9, <2>1, <2>2 DEF BulkWrite, Bulks
  <2>6. bulk'.undo[u].val = bulk.seen.val
    BY <2>2, <2>5 DEF Bulks
  <2> QED BY <2>1, <2>2, <2>4, <2>6
<1>10. ASSUME UndoWrite
       PROVE  /\ bulk.pc = "unwrite" /\ bulk.at = t /\ bulk.seen = Doc(t)
              /\ Doc(t)'.status = Doc(t).status
  <2> DEFINE u == bulk.at
             new == [Doc(u) EXCEPT !.val = bulk.undo[u].val]
  <2>1. bulk.pc = "unwrite" /\ bulk.seen.ver = Doc(u).ver /\ Write(u, new)
    BY <1>1, <1>10 DEF UndoWrite
  <2>2. u \in Tickets /\ bulk.seen = Doc(u) /\ bulk \in Bulks
    BY <2>1, InHand DEF BulkOK, Faithful
  <2>3. bulk.undo[u] \in Undos
    BY <2>2 DEF Bulks
  <2>4. new \in Docs /\ new.status = Doc(u).status
    BY <2>2, <2>3, RowType DEF Docs, Undos
  <2> HIDE DEF new
  <2> QED BY <2>1, <2>2, <2>4, WriteShows
<1>11. ASSUME RecoveryWrite
       PROVE  Doc(t).status \notin Terminal /\ Doc(t)'.val = Doc(t).val
  <2> DEFINE u == recovery.on
             new == [Doc(u) EXCEPT !.status = RecoveryTarget]
  <2>1. /\ recovery.pc = "read" /\ RecoveryMoves /\ recovery.seen.ver = Doc(u).ver
        /\ Write(u, new)
    BY <1>1, <1>11 DEF RecoveryWrite
  <2>2. u \in Tickets /\ recovery.seen = Doc(u)
    BY <2>1 DEF RecoveryOK, Recoveries, Faithful
  <2>3. RecoveryTarget \in Statuses
    BY DEF RecoveryTarget, Statuses, Terminal
  <2>4. new \in Docs /\ new.val = Doc(u).val
    BY <2>2, <2>3, RowType DEF Docs
  <2>5. Doc(u).status \notin Terminal
    BY <2>1, <2>2 DEF RecoveryMoves
  <2> HIDE DEF new
  <2> QED BY <2>1, <2>2, <2>4, <2>5, WriteShows
<1>12. \/ UNCHANGED rows
       \/ \E u \in Tickets : Reopen(u) \/ \E v \in Values : Create(u, v)
       \/ \E a \in Agents : \/ \E v \in Values : Save(a, v)
                            \/ \E s \in Statuses : Transition(a, s)
       \/ \E s, u \in Tickets : Merge(s, u)
       \/ \E m \in manifests : RevertMerge(m)
       \/ BulkWrite \/ UndoWrite \/ RecoveryWrite
  BY DEF Next, vars, Open, Dismiss, BulkStart, BulkRead, BulkDone, UndoStart, UndoRead,
         BulkForget, RecoveryCount, RecoveryRead
<1>13. CASE \E a \in Agents : \/ \E v \in Values : Save(a, v)
                              \/ \E s \in Statuses : Transition(a, s)
  BY <1>5, <1>6, <1>13
<1>14. CASE \E m \in manifests : RevertMerge(m)
  BY <1>8, <1>14
<1>15. CASE \/ \E u \in Tickets : Reopen(u) \/ \E v \in Values : Create(u, v)
            \/ \E s, u \in Tickets : Merge(s, u)
  BY <1>2, <1>3, <1>7, <1>15
<1>16. CASE BulkWrite \/ UndoWrite \/ RecoveryWrite
  BY <1>9, <1>10, <1>11, <1>16
<1> QED BY <1>1, <1>12, <1>13, <1>14, <1>15, <1>16

\* A value is replaced by somebody who had it in hand: an agent whose form shows
\* the ticket as it is, a bulk action that notes it for its undo, or an undo
\* that has just read it.  The other writers leave it alone (update, bulkApply,
\* bulkUndo).
THEOREM TicketNoBlindOverwrite == Spec => NoBlindOverwrite
<1>1. IInv /\ [Next]_vars =>
         [\A t \in Tickets : Exists(t) /\ rows'[t].doc.val # Doc(t).val =>
             \/ \E a \in Agents : form[a].on = t /\ form[a].seen = Doc(t)
             \/ bulk.pc = "write" /\ bulk.at = t /\ bulk'.undo[t].val = Doc(t).val
             \/ bulk.pc = "unwrite" /\ bulk.at = t /\ bulk.seen = Doc(t)]_vars
  <2> SUFFICES ASSUME IInv, [Next]_vars, NEW t \in Tickets, Exists(t),
                      Doc(t)'.val # Doc(t).val
               PROVE  \/ \E a \in Agents : form[a].on = t /\ form[a].seen = Doc(t)
                      \/ bulk.pc = "write" /\ bulk.at = t /\ bulk'.undo[t].val = Doc(t).val
                      \/ bulk.pc = "unwrite" /\ bulk.at = t /\ bulk.seen = Doc(t)
    BY DEF Doc
  <2> QED BY WhoWrites
<1> QED BY <1>1, SpecIInv, PTL DEF Spec, NoBlindOverwrite

\* A ticket that was cancelled, by a merge or by an agent, comes back only
\* because somebody saw it cancelled and moved it, or because a merge is
\* reverted: the reopening refuses it and a recovery that read it before finds
\* another version (reopen, revertMerge, applyAlertRecovery).
THEOREM TicketCancelledIsLeftKnowingly == Spec => CancelledIsLeftKnowingly
<1>1. IInv /\ [Next]_vars =>
         [\A t \in Tickets :
             Doc(t).status = "cancelled" /\ rows'[t].doc.status # "cancelled" =>
                \/ \E a \in Agents : form[a].on = t /\ form[a].seen = Doc(t)
                \/ \E m \in manifests : /\ m.source = t
                                       /\ rows'[t].doc.status = m.status
                                       /\ rows'[t].doc.into = m.into]_vars
  <2> SUFFICES ASSUME IInv, [Next]_vars, NEW t \in Tickets,
                      Doc(t).status = "cancelled", Doc(t)'.status # "cancelled"
               PROVE  \/ \E a \in Agents : form[a].on = t /\ form[a].seen = Doc(t)
                      \/ \E m \in manifests : /\ m.source = t
                                             /\ Doc(t)'.status = m.status
                                             /\ Doc(t)'.into = m.into
    BY DEF Doc
  <2>1. Exists(t)
    BY DEF IInv, RowsOK, NoDoc
  <2>2. Doc(t).status \in Terminal /\ Doc(t).status \notin {"resolved", "closed"}
    BY DEF Terminal
  <2> QED BY <2>1, <2>2, WhoWrites
<1> QED BY <1>1, SpecIInv, PTL DEF Spec, CancelledIsLeftKnowingly
=============================================================================
