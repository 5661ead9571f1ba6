--------------------------- MODULE Records_proofs ---------------------------
(***************************************************************************)
(* What holds of two kinds of records that are kept for good, for every    *)
(* value of the constants: the audit chain (module Audit) and the history  *)
(* of the configuration store (module Config).                             *)
(*                                                                         *)
(* Audit.  A fork has a row of each writer, no link dangles, and what      *)
(* verifyChain reports, or passes, means what it says.  The heart is that  *)
(* a transaction which has the lock of its writer sees every row of that   *)
(* writer that exists, so that it inserts after all of them (Newest,       *)
(* Between).                                                               *)
(*                                                                         *)
(* Config.  Every version that was ever published stays in the history     *)
(* under one body that the linter accepted, and what the engines run is    *)
(* that body unless somebody wrote over a row that had changed under them. *)
(***************************************************************************)
EXTENDS Audit, Config, TLAPS

\* Rows some transaction may still see: committed ones and those in flight.
Alive(i) == i \in log \/ \E w \in Writers : i \in own[w]

\* Allocated ids, each in the log or with one transaction.
Allocated ==
    /\ \A i \in Ids : Alive(i) => i < nextId
    /\ \A w \in Writers : \A i \in own[w] : i \notin log
    /\ \A w, v \in Writers : w # v => own[w] \cap own[v] = {}

\* Open transactions that use one writer exclude each other.
Locks ==
    /\ \A w \in Writers : phase[w] = "idle" => own[w] = {}
    /\ \A w, v \in Writers :
          w # v /\ phase[w] # "idle" /\ phase[v] # "idle" => kind[w] # kind[v]
    /\ \A w \in Writers : \A i \in own[w] : row[i].kind = kind[w]

\* Links lead back, inside what the transaction sees.
Links ==
    /\ ChainsBack
    /\ \A w \in Writers : \A i \in own[w] :
          row[i].prev < i /\ (row[i].prev = 0 \/ row[i].prev \in Visible(w))

\* No row of the same writer lies between a row and its predecessor, ...
Between ==
    \A i, j \in Ids :
        Alive(i) /\ Alive(j) /\ row[i].kind = row[j].kind /\ j < i => j <= row[i].prev

\* ... nor after the newest row a transaction has read, ...
Newest ==
    \A w \in Writers : phase[w] = "tail" =>
        /\ tail[w] < nextId
        /\ tail[w] = 0 \/ tail[w] \in Visible(w)
        /\ \A j \in Ids : Alive(j) /\ row[j].kind = kind[w] => j <= tail[w]

\* ... and rows in flight are newer than the committed ones of their writer.
InFlight ==
    \A w \in Writers : \A i \in own[w] : \A j \in log : row[j].kind = kind[w] => j < i

\* The walk stands on a row of record, or has not begun.
Cursor ==
    /\ cursor # 0 => cursor \in log /\ row[cursor].kind = "record"
    /\ \A i \in log : i <= cursor /\ row[i].kind = "record" /\ row[i].prev # 0 =>
          row[row[i].prev].kind = "record"

\* A name in a row is only ever lost.
Names == \A i \in Ids : row[i].actor \in {row[i].signed, Nobody}

IInv ==
    /\ TypeOK /\ Allocated /\ Locks /\ Links /\ Between /\ Newest /\ InFlight
    /\ Cursor /\ Names /\ NoFalseAlarm

-----------------------------------------------------------------------------
(* What the invariant says of the log.                                      *)

LEMMA ForkNeedsBoth == IInv => ForksAreMixed
<1> SUFFICES ASSUME IInv, NEW i \in log, NEW j \in log,
                    row[i].prev = row[j].prev, row[i].kind = row[j].kind, i # j
             PROVE  FALSE
  BY DEF ForksAreMixed
<1>1. i \in Ids /\ j \in Ids /\ Alive(i) /\ Alive(j)
  BY DEF IInv, TypeOK, Alive
<1>2. row[i].prev \in Nat /\ row[i].prev < i /\ row[i].prev < j
  BY <1>1 DEF IInv, TypeOK, Row, Links, ChainsBack
<1>3. CASE i < j
  BY <1>1, <1>2, <1>3 DEF IInv, Between, Ids
<1>4. CASE j < i
  BY <1>1, <1>2, <1>4 DEF IInv, Between, Ids
<1> QED
  BY <1>1, <1>3, <1>4 DEF Ids

LEMMA PassedIsOneChain == IInv => CleanScanIsOneChain
<1> SUFFICES ASSUME IInv, NEW i \in log, i <= cursor, row[i].kind = "record"
             PROVE  /\ row[i].prev # 0 => row[row[i].prev].kind = "record"
                    /\ \A j \in log : j < i /\ row[j].kind = "record" => j <= row[i].prev
  BY DEF CleanScanIsOneChain
<1>1. row[i].prev # 0 => row[row[i].prev].kind = "record"
  BY DEF IInv, Cursor
<1>2. ASSUME NEW j \in log, j < i, row[j].kind = "record"
      PROVE  j <= row[i].prev
  BY <1>2 DEF IInv, TypeOK, Between, Alive
<1> QED
  BY <1>1, <1>2

-----------------------------------------------------------------------------
(* The first state, and types.                                              *)

LEMMA TypeInit == Init => TypeOK
BY AuditAssumption DEF Init, TypeOK, Ids, Row, NoRow, Kinds

LEMMA InvInit == Init => IInv
<1> SUFFICES ASSUME Init PROVE IInv
  OBVIOUS
<1>1. TypeOK
  BY TypeInit
<1>2. \A i : ~Alive(i)
  BY DEF Init, Alive
<1>3. Allocated /\ Locks /\ Links /\ Between /\ Newest /\ InFlight
  BY <1>2 DEF Init, Allocated, Locks, Links, ChainsBack, Between, Newest, InFlight
<1>4. Cursor /\ Names /\ NoFalseAlarm
  BY DEF Init, Cursor, Names, NoRow, NoFalseAlarm
<1> QED
  BY <1>1, <1>3, <1>4 DEF IInv

LEMMA TypeNext == TypeOK /\ [Next]_vars => TypeOK'
<1> SUFFICES ASSUME TypeOK, [Next]_vars PROVE TypeOK'
  OBVIOUS
<1> USE AuditAssumption
<1>1. ASSUME NEW w \in Writers, NEW k \in Kinds, ReadTail(w, k)
      PROVE  TypeOK'
  <2>1. PICK p \in Visible(w) \cup {0} : tail' = [tail EXCEPT ![w] = p]
    BY <1>1 DEF ReadTail
  <2>2. p \in 0..MaxId
    BY DEF TypeOK, Visible, Ids
  <2> QED
    BY <1>1, <2>1, <2>2 DEF TypeOK, ReadTail, scan
<1>2. ASSUME NEW w \in Writers, NEW a \in Users \cup {Nobody}, Insert(w, a)
      PROVE  TypeOK'
  BY <1>2 DEF TypeOK, Insert, Row, Ids, scan
<1>3. ASSUME NEW w \in Writers, NEW u \in Users, DeleteUser(w, u)
      PROVE  TypeOK'
  BY <1>3 DEF TypeOK, DeleteUser, scan
<1>4. ASSUME NEW w \in Writers, Commit(w)
      PROVE  TypeOK'
  <2>1. \A i \in Ids : [row[i] EXCEPT !.actor = Nobody] \in Row
    BY DEF TypeOK, Row
  <2>2. row' \in [Ids -> Row]
    BY <1>4, <2>1 DEF Commit, Blanked, TypeOK
  <2> QED
    BY <1>4, <2>2 DEF TypeOK, Commit, Close, Kinds, scan
<1>5. ASSUME NEW w \in Writers, Rollback(w)
      PROVE  TypeOK'
  <2>1. NoRow \in Row
    BY DEF NoRow, Row, Kinds
  <2>2. row' \in [Ids -> Row]
    BY <1>5, <2>1 DEF Rollback, TypeOK
  <2> QED
    BY <1>5, <2>2 DEF TypeOK, Rollback, Close, Kinds, scan
<1>6. CASE StartScan
  BY <1>6 DEF TypeOK, StartScan, open
<1>7. CASE ScanRow
  BY <1>7 DEF TypeOK, ScanRow, open, Ids
<1>8. CASE UNCHANGED vars
  BY <1>8 DEF TypeOK, vars
<1> QED
  BY <1>1, <1>2, <1>3, <1>4, <1>5, <1>6, <1>7, <1>8 DEF Next

-----------------------------------------------------------------------------
(* One lemma for each step.                                                 *)

LEMMA ReadTailKeeps ==
    ASSUME IInv, TypeOK', NEW w \in Writers, NEW k \in Kinds, ReadTail(w, k)
    PROVE  IInv'
<1> USE DEF IInv
<1>1. UNCHANGED <<log, row, nextId, own, cursor, alarm>>
  BY DEF ReadTail, scan
<1>2. phase' = [phase EXCEPT ![w] = "tail"] /\ kind' = [kind EXCEPT ![w] = k]
  BY DEF ReadTail
<1>3. \A i \in own[w] : row[i].kind = k
  BY DEF ReadTail, Locks
<1>4. \A v \in Writers \ {w} : phase[v] # "idle" => kind[v] # k
  BY DEF ReadTail, LockFree
<1>5. Allocated'
  BY <1>1 DEF Allocated, Alive
<1>6. Locks'
  BY <1>1, <1>2, <1>3, <1>4 DEF Locks, TypeOK
<1>7. Links' /\ Between'
  BY <1>1 DEF Links, ChainsBack, Visible, Between, Alive
<1>8. Newest'
  <2>1. PICK p \in Visible(w) \cup {0} :
           (\A q \in Visible(w) : q <= p) /\ tail' = [tail EXCEPT ![w] = p]
    BY DEF ReadTail
  <2>2. p < nextId
    BY DEF Visible, Allocated, Alive, TypeOK, Ids
  <2>3. ASSUME NEW j \in Ids, Alive(j), row[j].kind = k
        PROVE  j \in Visible(w)
    <3>1. ASSUME NEW v \in Writers \ {w}, j \in own[v]
          PROVE  FALSE
      BY <1>4, <2>3, <3>1 DEF Locks
    <3> QED
      BY <2>3, <3>1 DEF Alive, Visible
  <2>4. ASSUME NEW j \in Ids, Alive(j), row[j].kind = k
        PROVE  j <= p
    BY <2>1, <2>3, <2>4
  <2>5. ASSUME NEW v \in Writers, phase'[v] = "tail"
        PROVE  /\ tail'[v] < nextId
               /\ tail'[v] = 0 \/ tail'[v] \in Visible(v)
               /\ \A j \in Ids : Alive(j) /\ row[j].kind = kind'[v] => j <= tail'[v]
    <3>1. CASE v = w
      BY <1>2, <2>1, <2>2, <2>4, <3>1 DEF TypeOK
    <3>2. CASE v # w
      BY <1>2, <2>1, <2>5, <3>2 DEF TypeOK, Newest
    <3> QED
      BY <3>1, <3>2
  <2> QED
    BY <1>1, <2>5 DEF Newest, Visible, Alive
<1>9. InFlight'
  <2>1. ASSUME NEW v \in Writers, NEW i \in own[v], NEW j \in log, row[j].kind = kind'[v]
        PROVE  j < i
    <3>1. kind'[v] = kind[v]
      BY <1>2, <1>3 DEF TypeOK, Locks
    <3> QED
      BY <2>1, <3>1 DEF InFlight
  <2> QED
    BY <1>1, <2>1 DEF InFlight
<1>10. Cursor' /\ Names' /\ NoFalseAlarm'
  BY <1>1 DEF Cursor, Names, NoFalseAlarm, Recomputes
<1> QED
  BY <1>5, <1>6, <1>7, <1>8, <1>9, <1>10

LEMMA InsertKeeps ==
    ASSUME IInv, TypeOK', NEW w \in Writers, NEW a \in Users \cup {Nobody}, Insert(w, a)
    PROVE  IInv'
<1> USE DEF IInv
<1>1. UNCHANGED <<log, kind, tail, cursor, alarm>>
  BY DEF Insert, scan
<1>2. phase' = [phase EXCEPT ![w] = "open"] /\ phase[w] = "tail"
  BY DEF Insert
<1>3. /\ nextId \in Ids /\ nextId \in Nat /\ nextId' = nextId + 1
      /\ own' = [own EXCEPT ![w] = @ \cup {nextId}]
  BY DEF Insert, Ids
<1>4. row'[nextId].prev = tail[w] /\ row'[nextId].kind = kind[w]
  BY <1>3 DEF Insert, TypeOK
<1>5. \A i \in Ids : i # nextId => row'[i] = row[i]
  BY DEF Insert, TypeOK
<1>6. ~Alive(nextId)
  BY <1>3 DEF Allocated
<1>7. \A i : Alive(i)' <=> Alive(i) \/ i = nextId
  BY <1>1, <1>3 DEF Alive, TypeOK
<1>8. Allocated'
  <2>1. \A i \in Ids : Alive(i)' => i < nextId'
    BY <1>3, <1>7 DEF Allocated, Ids
  <2>2. \A v \in Writers : \A i \in own'[v] : i \notin log
    BY <1>3, <1>6 DEF Allocated, Alive, TypeOK
  <2>3. \A x, v \in Writers : x # v => own'[x] \cap own'[v] = {}
    BY <1>3, <1>6 DEF Allocated, Alive, TypeOK
  <2> QED
    BY <1>1, <2>1, <2>2, <2>3 DEF Allocated
<1>9. Locks'
  <2>1. \A v \in Writers : phase'[v] = "idle" => own'[v] = {}
    BY <1>2, <1>3 DEF Locks, TypeOK
  <2>2. \A x, v \in Writers :
           x # v /\ phase'[x] # "idle" /\ phase'[v] # "idle" => kind[x] # kind[v]
    BY <1>2 DEF Locks, TypeOK
  <2>3. \A v \in Writers : \A i \in own'[v] : row'[i].kind = kind[v]
    BY <1>3, <1>4, <1>5, <1>6 DEF Locks, Alive, TypeOK
  <2> QED
    BY <1>1, <2>1, <2>2, <2>3 DEF Locks
<1>10. tail[w] < nextId /\ (tail[w] = 0 \/ tail[w] \in Visible(w))
  BY <1>2 DEF Newest
<1>11. Links'
  <2>1. ChainsBack'
    BY <1>1, <1>5, <1>6 DEF Links, ChainsBack, Alive, TypeOK
  <2>2. ASSUME NEW v \in Writers, NEW i \in own'[v]
        PROVE  row'[i].prev < i /\ (row'[i].prev = 0 \/ row'[i].prev \in Visible(v)')
    <3>1. Visible(v) \subseteq Visible(v)'
      BY <1>1, <1>3 DEF Visible, TypeOK
    <3>2. CASE i \in own[v]
      BY <1>5, <1>6, <3>1, <3>2 DEF Links, Alive, TypeOK
    <3>3. CASE i \notin own[v]
      BY <1>3, <1>4, <1>10, <3>1, <3>3 DEF TypeOK
    <3> QED
      BY <3>2, <3>3
  <2> QED
    BY <2>1, <2>2 DEF Links
<1>12. \A j \in Ids : Alive(j) /\ row[j].kind = kind[w] => j <= tail[w]
  BY <1>2 DEF Newest
<1>13. Between'
  <2>1. ASSUME NEW i \in Ids, NEW j \in Ids, Alive(i)', Alive(j)',
               row'[i].kind = row'[j].kind, j < i
        PROVE  j <= row'[i].prev
    <3>1. j # nextId
      BY <1>3, <1>7, <2>1 DEF Allocated, Ids
    <3>2. CASE i = nextId
      BY <1>4, <1>5, <1>7, <1>12, <2>1, <3>1, <3>2
    <3>3. CASE i # nextId
      BY <1>5, <1>7, <2>1, <3>1, <3>3 DEF Between
    <3> QED
      BY <3>2, <3>3
  <2> QED
    BY <2>1 DEF Between
<1>14. Newest'
  <2>1. ASSUME NEW v \in Writers, phase'[v] = "tail"
        PROVE  /\ tail[v] < nextId'
               /\ tail[v] = 0 \/ tail[v] \in Visible(v)'
               /\ \A j \in Ids : Alive(j)' /\ row'[j].kind = kind[v] => j <= tail[v]
    <3>1. v # w /\ phase[v] = "tail"
      BY <1>2, <2>1 DEF TypeOK
    <3>2. kind[v] # kind[w]
      BY <1>2, <3>1 DEF Locks
    <3>3. tail[v] < nextId'
      BY <1>3, <3>1 DEF Newest, TypeOK
    <3>4. tail[v] = 0 \/ tail[v] \in Visible(v)'
      BY <1>1, <1>3, <3>1 DEF Newest, Visible, TypeOK
    <3>5. ASSUME NEW j \in Ids, Alive(j)', row'[j].kind = kind[v]
          PROVE  j <= tail[v]
      <4>1. j # nextId
        BY <1>4, <3>2, <3>5
      <4> QED
        BY <1>5, <1>7, <3>1, <3>5, <4>1 DEF Newest
    <3> QED
      BY <3>3, <3>4, <3>5
  <2> QED
    BY <1>1, <2>1 DEF Newest
<1>15. InFlight'
  <2>1. ASSUME NEW v \in Writers, NEW i \in own'[v], NEW j \in log, row'[j].kind = kind[v]
        PROVE  j < i
    <3>1. j \in Ids /\ Alive(j) /\ j # nextId /\ row[j].kind = kind[v]
      BY <1>5, <1>6, <2>1 DEF Alive, TypeOK
    <3>2. CASE i \in own[v]
      BY <3>1, <3>2 DEF InFlight
    <3>3. CASE i \notin own[v]
      BY <1>3, <3>1, <3>3 DEF Allocated, TypeOK
    <3> QED
      BY <3>2, <3>3
  <2> QED
    BY <1>1, <2>1 DEF InFlight
<1>16. Cursor'
  <2>1. \A i \in log : row'[i] = row[i]
    BY <1>5, <1>6 DEF Alive, TypeOK
  <2> QED
    BY <1>1, <2>1 DEF Cursor, Links, ChainsBack
<1>17. NoFalseAlarm'
  <2>1. \A i \in log : row'[i] = row[i]
    BY <1>5, <1>6 DEF Alive, TypeOK
  <2> QED
    BY <1>1, <2>1 DEF NoFalseAlarm, Recomputes
<1>18. Names'
  <2>1. row'[nextId].signed = a /\ row'[nextId].actor = a
    BY <1>3 DEF Insert, TypeOK
  <2> QED
    BY <1>5, <2>1 DEF Names
<1> QED
  BY <1>8, <1>9, <1>11, <1>13, <1>14, <1>15, <1>16, <1>17, <1>18

LEMMA DeleteUserKeeps ==
    ASSUME IInv, TypeOK', NEW w \in Writers, NEW u \in Users, DeleteUser(w, u)
    PROVE  IInv'
<1>1. UNCHANGED <<log, row, nextId, phase, kind, tail, own, cursor, alarm>>
  BY DEF DeleteUser, scan
<1>2. Allocated' /\ Locks' /\ InFlight'
  BY <1>1 DEF IInv, Allocated, Alive, Locks, InFlight
<1>3. Links' /\ Between' /\ Newest'
  BY <1>1 DEF IInv, Links, ChainsBack, Visible, Between, Alive, Newest
<1>4. Cursor' /\ Names' /\ NoFalseAlarm'
  BY <1>1 DEF IInv, Cursor, Names, NoFalseAlarm, Recomputes
<1> QED
  BY <1>2, <1>3, <1>4 DEF IInv

\* The end of a transaction leaves the others alone.
LEMMA CloseKeeps ==
    ASSUME IInv, TypeOK', NEW w \in Writers, Close(w), NEW v \in Writers, v # w
    PROVE  /\ phase'[v] = phase[v] /\ kind'[v] = kind[v] /\ tail'[v] = tail[v]
           /\ own'[v] = own[v]
BY DEF IInv, TypeOK, Close

LEMMA CloseEnds ==
    ASSUME IInv, NEW w \in Writers, Close(w)
    PROVE  phase'[w] = "idle" /\ own'[w] = {}
BY DEF IInv, TypeOK, Close

LEMMA CommitKeeps ==
    ASSUME IInv, TypeOK', NEW w \in Writers, Commit(w)
    PROVE  IInv'
<1> USE DEF IInv
<1>1. /\ log' = log \cup own[w] /\ nextId' = nextId
      /\ cursor' = cursor /\ alarm' = alarm
  BY DEF Commit, scan
<1>2. Close(w) /\ phase'[w] = "idle" /\ own'[w] = {}
  BY CloseEnds DEF Commit
<1>3. \A v \in Writers : v # w =>
         /\ phase'[v] = phase[v] /\ kind'[v] = kind[v] /\ tail'[v] = tail[v]
         /\ own'[v] = own[v]
  BY <1>2, CloseKeeps
<1>4. \A i \in Ids : row'[i].prev = row[i].prev /\ row'[i].kind = row[i].kind
  BY DEF Commit, Blanked, TypeOK, Row
<1>5. \A i : Alive(i)' <=> Alive(i)
  BY <1>1, <1>2, <1>3 DEF Alive
<1>6. Allocated'
  <2>1. \A v \in Writers : \A i \in own'[v] : i \notin log'
    BY <1>1, <1>2, <1>3 DEF Allocated
  <2>2. \A x, v \in Writers : x # v => own'[x] \cap own'[v] = {}
    BY <1>2, <1>3 DEF Allocated
  <2> QED
    BY <1>1, <1>5, <2>1, <2>2 DEF Allocated
<1>7. Locks'
  <2>1. \A v \in Writers : \A i \in own'[v] : row'[i].kind = kind'[v]
    BY <1>2, <1>3, <1>4 DEF Locks, TypeOK
  <2> QED
    BY <1>2, <1>3, <2>1 DEF Locks
<1>8. Links'
  <2>1. ChainsBack'
    BY <1>1, <1>4 DEF Links, ChainsBack, Visible, TypeOK
  <2>2. ASSUME NEW v \in Writers, NEW i \in own'[v]
        PROVE  row'[i].prev < i /\ (row'[i].prev = 0 \/ row'[i].prev \in Visible(v)')
    <3>1. v # w
      BY <1>2, <2>2
    <3> QED
      BY <1>1, <1>3, <1>4, <2>2, <3>1 DEF Links, Visible, TypeOK
  <2> QED
    BY <2>1, <2>2 DEF Links
<1>9. Between'
  BY <1>4, <1>5 DEF Between
<1>10. Newest'
  <2>1. ASSUME NEW v \in Writers, phase'[v] = "tail"
        PROVE  /\ tail'[v] < nextId'
               /\ tail'[v] = 0 \/ tail'[v] \in Visible(v)'
               /\ \A j \in Ids : Alive(j)' /\ row'[j].kind = kind'[v] => j <= tail'[v]
    <3>1. v # w
      BY <1>2, <2>1
    <3>2. tail'[v] = 0 \/ tail'[v] \in Visible(v)'
      BY <1>1, <1>3, <2>1, <3>1 DEF Newest, Visible
    <3> QED
      BY <1>1, <1>3, <1>4, <1>5, <2>1, <3>1, <3>2 DEF Newest
  <2> QED
    BY <2>1 DEF Newest
<1>11. InFlight'
  <2>1. ASSUME NEW v \in Writers, NEW i \in own'[v], NEW j \in log', row'[j].kind = kind'[v]
        PROVE  j < i
    <3>1. v # w /\ i \in own[v] /\ kind'[v] = kind[v]
      BY <1>2, <1>3, <2>1
    <3>2. j \in Ids /\ row[j].kind = kind[v]
      BY <1>4, <2>1, <3>1 DEF TypeOK
    <3>3. CASE j \in log
      BY <3>1, <3>2, <3>3 DEF InFlight
    <3>4. CASE j \in own[w]
      <4>1. phase[v] # "idle" /\ phase[w] # "idle"
        BY <3>1, <3>4 DEF Locks
      <4>2. kind[v] # kind[w]
        BY <3>1, <4>1 DEF Locks
      <4> QED
        BY <3>2, <3>4, <4>2 DEF Locks
    <3> QED
      BY <1>1, <2>1, <3>3, <3>4
  <2> QED
    BY <2>1 DEF InFlight
<1>12. Cursor'
  <2>1. ASSUME cursor # 0
        PROVE  cursor \in log' /\ row'[cursor].kind = "record"
    BY <1>1, <1>4, <2>1 DEF Cursor, TypeOK
  <2>2. ASSUME NEW i \in log', i <= cursor, row'[i].kind = "record", row'[i].prev # 0
        PROVE  row'[row'[i].prev].kind = "record"
    <3>1. i \in Ids /\ row[i].kind = "record" /\ row[i].prev # 0
      BY <1>4, <2>2 DEF TypeOK
    <3>2. i \in log
      <4>1. SUFFICES ASSUME i \in own[w] PROVE FALSE
        BY <1>1, <2>2
      <4>2. cursor # 0
        BY <2>2, <3>1 DEF Ids
      <4>3. cursor < i
        BY <3>1, <4>1, <4>2 DEF Cursor, InFlight, Locks
      <4> QED
        BY <2>2, <4>3, <3>1 DEF TypeOK, Ids
    <3>3. row[i].prev \in Ids
      BY <3>1, <3>2 DEF Links, ChainsBack, TypeOK
    <3> QED
      BY <1>4, <2>2, <3>1, <3>2, <3>3 DEF Cursor
  <2> QED
    BY <1>1, <2>1, <2>2 DEF Cursor
<1>13. NoFalseAlarm'
  <2>1. ASSUME NEW i \in log, ~Recomputes(i)
        PROVE  ~Recomputes(i)'
    <3>1. CASE row[i].kind # "record"
      BY <1>4, <3>1 DEF Recomputes, TypeOK
    <3>2. CASE row[i].signed # row[i].actor
      <4>1. i \in Ids /\ row[i].actor = Nobody /\ Nobody \notin gone[w]
        BY <3>2, AuditAssumption DEF Names, TypeOK
      <4>2. row'[i] = row[i]
        BY <4>1 DEF Commit, Blanked
      <4> QED
        BY <3>2, <4>2 DEF Recomputes
    <3> QED
      BY <2>1, <3>1, <3>2 DEF Recomputes
  <2> QED
    BY <1>1, <2>1 DEF NoFalseAlarm
<1>14. Names'
  <2>1. ASSUME NEW i \in Ids
        PROVE  row'[i].actor \in {row'[i].signed, Nobody}
    <3>1. CASE row'[i] = row[i]
      BY <3>1 DEF Names
    <3>2. CASE row'[i] = [row[i] EXCEPT !.actor = Nobody]
      BY <3>2 DEF TypeOK, Row
    <3> QED
      BY <3>1, <3>2 DEF Commit, Blanked
  <2> QED
    BY <2>1 DEF Names
<1> QED
  BY <1>6, <1>7, <1>8, <1>9, <1>10, <1>11, <1>12, <1>13, <1>14

LEMMA RollbackKeeps ==
    ASSUME IInv, TypeOK', NEW w \in Writers, Rollback(w)
    PROVE  IInv'
<1> USE DEF IInv
<1>1. /\ log' = log /\ nextId' = nextId
      /\ cursor' = cursor /\ alarm' = alarm
  BY DEF Rollback, scan
<1>2. Close(w) /\ phase'[w] = "idle" /\ own'[w] = {}
  BY CloseEnds DEF Rollback
<1>3. \A v \in Writers : v # w =>
         /\ phase'[v] = phase[v] /\ kind'[v] = kind[v] /\ tail'[v] = tail[v]
         /\ own'[v] = own[v]
  BY <1>2, CloseKeeps DEF Rollback
<1>4. \A i \in Ids \ own[w] : row'[i] = row[i]
  BY DEF Rollback
<1>5. \A i \in Ids : Alive(i)' => Alive(i) /\ i \notin own[w]
  BY <1>1, <1>2, <1>3 DEF Alive, Allocated
<1>6. \A i \in log : i \in Ids /\ row'[i] = row[i]
  BY <1>4 DEF Allocated, TypeOK
<1>7. \A v \in Writers : v # w => \A i \in own[v] : i \in Ids /\ row'[i] = row[i]
  BY <1>4 DEF Allocated, TypeOK
<1>8. Allocated'
  BY <1>1, <1>2, <1>3, <1>5 DEF Allocated
<1>9. Locks'
  BY <1>2, <1>3, <1>7 DEF Locks
<1>10. Links'
  <2>1. ChainsBack'
    BY <1>1, <1>6 DEF Links, ChainsBack
  <2>2. ASSUME NEW v \in Writers, NEW i \in own'[v]
        PROVE  row'[i].prev < i /\ (row'[i].prev = 0 \/ row'[i].prev \in Visible(v)')
    BY <1>1, <1>2, <1>3, <1>7, <2>2 DEF Links, Visible
  <2> QED
    BY <2>1, <2>2 DEF Links
<1>11. Between'
  BY <1>4, <1>5 DEF Between
<1>12. Newest'
  <2>1. ASSUME NEW v \in Writers, phase'[v] = "tail"
        PROVE  /\ tail'[v] < nextId'
               /\ tail'[v] = 0 \/ tail'[v] \in Visible(v)'
               /\ \A j \in Ids : Alive(j)' /\ row'[j].kind = kind'[v] => j <= tail'[v]
    <3>1. v # w
      BY <1>2, <2>1
    <3>2. tail'[v] = 0 \/ tail'[v] \in Visible(v)'
      BY <1>1, <1>3, <2>1, <3>1 DEF Newest, Visible
    <3> QED
      BY <1>1, <1>3, <1>4, <1>5, <2>1, <3>1, <3>2 DEF Newest
  <2> QED
    BY <2>1 DEF Newest
<1>13. InFlight'
  BY <1>1, <1>2, <1>3, <1>6 DEF InFlight
<1>14. Cursor'
  <2>1. ASSUME NEW i \in log, i <= cursor, row'[i].kind = "record", row'[i].prev # 0
        PROVE  row'[row'[i].prev].kind = "record"
    <3>1. row'[i] = row[i] /\ row[i].prev \in log
      BY <1>6, <2>1 DEF Links, ChainsBack
    <3> QED
      BY <1>6, <2>1, <3>1 DEF Cursor
  <2> QED
    BY <1>1, <1>6, <2>1 DEF Cursor
<1>15. Names'
  BY DEF Rollback, Names, NoRow
<1>16. NoFalseAlarm'
  BY <1>1, <1>6 DEF NoFalseAlarm, Recomputes
<1> QED
  BY <1>8, <1>9, <1>10, <1>11, <1>12, <1>13, <1>14, <1>15, <1>16

LEMMA ScanKeeps ==
    ASSUME IInv, TypeOK', StartScan \/ ScanRow
    PROVE  IInv'
<1> USE DEF IInv
<1>1. UNCHANGED <<log, row, nextId, phase, kind, tail, own>>
  BY DEF StartScan, ScanRow, open
<1>2. Allocated' /\ Locks' /\ InFlight' /\ Names'
  BY <1>1 DEF Allocated, Alive, Locks, InFlight, Names
<1>3. Links' /\ Between' /\ Newest'
  BY <1>1 DEF Links, ChainsBack, Visible, Between, Alive, Newest
<1>4. CASE StartScan
  <2>1. cursor' = 0 /\ alarm' = 0
    BY <1>4 DEF StartScan
  <2>2. \A i \in log : ~(i <= 0)
    BY DEF TypeOK, Ids
  <2> QED
    BY <1>1, <1>2, <1>3, <2>1, <2>2 DEF Cursor, NoFalseAlarm
<1>5. CASE ScanRow
  <2>1. PICK i \in log :
          /\ i > cursor
          /\ \A j \in log : j > cursor => i <= j
          /\ IF row[i].prev = cursor /\ Recomputes(i)
             THEN cursor' = i /\ alarm' = 0
             ELSE cursor' = cursor /\ alarm' = i
    BY <1>5 DEF ScanRow
  <2>2. i \in Ids /\ Alive(i) /\ row[i] \in Row
    BY DEF TypeOK, Alive
  <2>3. CASE row[i].prev = cursor /\ Recomputes(i)
    <3>1. cursor' = i /\ alarm' = 0 /\ row[i].kind = "record"
      BY <2>1, <2>3 DEF Recomputes
    <3>2. ASSUME NEW j \in log, j <= i, row[j].kind = "record", row[j].prev # 0
          PROVE  row[row[j].prev].kind = "record"
      <4>1. j <= cursor \/ j = i
        BY <2>1, <2>2, <3>2 DEF TypeOK, Ids
      <4> QED
        BY <2>3, <3>2, <4>1 DEF Cursor
    <3>3. Cursor' /\ NoFalseAlarm'
      BY <1>1, <3>1, <3>2 DEF Cursor, NoFalseAlarm
    <3> QED
      BY <1>2, <1>3, <3>3
  <2>4. CASE ~Recomputes(i)
    <3>1. alarm' = i /\ cursor' = cursor
      BY <2>1, <2>4
    <3>2. Recomputes(i)' <=> Recomputes(i)
      BY <1>1 DEF Recomputes
    <3>3. NoFalseAlarm'
      BY <1>1, <2>4, <3>1, <3>2 DEF NoFalseAlarm, Recomputes
    <3>4. Cursor'
      BY <1>1, <3>1 DEF Cursor
    <3> QED
      BY <1>2, <1>3, <3>3, <3>4
  <2>5. CASE row[i].prev # cursor /\ Recomputes(i)
    <3>1. alarm' = i /\ cursor' = cursor /\ row[i].kind = "record"
      BY <2>1, <2>5 DEF Recomputes
    <3>2. row[i].prev < i /\ (row[i].prev = 0 \/ row[i].prev \in log)
      BY DEF Links, ChainsBack
    <3>3. row[i].prev < cursor
      BY <2>1, <2>2, <2>5, <3>2 DEF TypeOK, Ids, Row
    <3>4. cursor \in log /\ row[cursor].kind = "record" /\ Alive(cursor) /\ cursor \in Ids
      BY <2>2, <3>3 DEF Cursor, TypeOK, Ids, Row, Alive
    <3>5. FALSE
      BY <2>1, <2>2, <3>1, <3>3, <3>4 DEF Between, Row, Ids
    <3> QED
      BY <3>5
  <2> QED
    BY <2>3, <2>4, <2>5
<1> QED
  BY <1>4, <1>5

-----------------------------------------------------------------------------

LEMMA Inductive == Spec => []IInv
<1>1. Init => IInv
  BY InvInit
<1>2. IInv /\ [Next]_vars => IInv'
  <2> SUFFICES ASSUME IInv, [Next]_vars PROVE IInv'
    OBVIOUS
  <2>1. TypeOK'
    BY TypeNext DEF IInv
  <2>2. CASE UNCHANGED vars
    <3>1. UNCHANGED <<log, row, nextId, phase, kind, tail, own, cursor, alarm>>
      BY <2>2 DEF vars
    <3>2. Allocated' /\ Locks' /\ InFlight' /\ Names' /\ Cursor' /\ NoFalseAlarm'
      BY <3>1 DEF IInv, Allocated, Alive, Locks, InFlight, Names, Cursor, NoFalseAlarm, Recomputes
    <3>3. Links' /\ Between' /\ Newest'
      BY <3>1 DEF IInv, Links, ChainsBack, Visible, Between, Alive, Newest
    <3> QED
      BY <2>1, <3>2, <3>3 DEF IInv
  <2> QED
    BY <2>1, <2>2, ReadTailKeeps, InsertKeeps, DeleteUserKeeps, CommitKeeps, RollbackKeeps,
       ScanKeeps DEF Next
<1> QED
  BY <1>1, <1>2, PTL DEF Spec

\* Every link of the log leads back to a committed row, or to the start, and
\* however many transactions overlap, rows of one writer never fork: the claim
\* that record and writeAudit each make holds for either of them alone.
THEOREM AuditChainIsSound == Spec => []ChainIsSound
<1>1. IInv => TypeOK /\ ChainsBack
  BY DEF IInv, Links
<1>2. IInv => ForksAreMixed
  BY ForkNeedsBoth
<1> QED
  BY <1>1, <1>2, Inductive, PTL DEF ChainIsSound

\* The row verifyChain reports is one of writeAudit, or one whose account was
\* deleted: it never accuses a history that record wrote and nobody touched.
THEOREM AuditNoFalseAlarm == Spec => []NoFalseAlarm
<1>1. IInv => NoFalseAlarm
  BY DEF IInv
<1> QED
  BY <1>1, Inductive, PTL

\* What a walk has accepted is one chain, whatever is committed meanwhile.
THEOREM AuditCleanScanIsOneChain == Spec => []CleanScanIsOneChain
BY Inductive, PassedIsOneChain, PTL

-----------------------------------------------------------------------------
(* The configuration store.                                                  *)

Ops == [pc : {"idle", "editor", "lint", "write", "import", "toggle", "again"},
        op : {"none", "update", "toggle", "restore", "publish", "create", "import"},
        on : Objects \union {Nil}, arg : Bodies \union {Nil}, seen : Rows, live : BOOLEAN]
Versions == [id : Nat, version : Nat, body : Bodies]

-----------------------------------------------------------------------------
(* The invariant *)

\* A row that is there has an id of the sequence, which is its own.
RowsOK ==
    /\ rows \in [Objects -> Rows] /\ lastId \in Nat /\ raced \in SUBSET Objects
    /\ \A o \in Objects : ~Exists(o) => rows[o] = NoObject
    /\ \A o \in Objects : Exists(o) => rows[o].id \in 1..lastId /\ rows[o].body \in Bodies
    /\ \A o, p \in Objects : Exists(o) /\ rows[p].id = rows[o].id => p = o

HistoryOK ==
    /\ history \in SUBSET Versions
    /\ \A h \in history : h.id \in 1..lastId
    /\ NothingRefused
    /\ VersionsAreKept

\* Nobody has published a later version of a row than it has, unless raced.
VersionLeads ==
    \A o \in Objects \ raced : \A h \in history : h.id = rows[o].id => h.version <= rows[o].version

StoreOK == RowsOK /\ HistoryOK /\ VersionLeads /\ ExactUnlessRaced

\* What is about to be published has been linted, and is what was read; what is
\* about to be written over was there.
Linted(b) == b \in Bodies \ Broken

TxOK(x) ==
    /\ x \in Ops
    /\ x.pc # "idle" => x.on \in Objects
    /\ x.pc = "lint" => x.op \in {"publish", "create"} /\ x.arg \in Bodies
    /\ x.pc = "import" => x.op = "import" /\ Linted(x.arg)
    /\ x.pc = "toggle" => x.arg \in Bodies
    /\ x.pc \in {"lint", "write"} =>
          /\ x.op = "publish" => x.seen.id # 0 /\ x.arg = x.seen.body
          /\ x.op = "create" => x.seen = NoObject
    /\ x.pc = "write" =>
          /\ x.op \in {"publish", "create", "import"} => Linted(x.arg)
          /\ x.op \in {"update", "toggle"} => x.seen.id # 0 /\ x.arg \in Bodies
          /\ x.op = "restore" => x.seen.id # 0

TxsOK == DOMAIN tx = Admins /\ tx = [a \in Admins |-> tx[a]] /\ \A a \in Admins : TxOK(tx[a])

StoreInv == StoreOK /\ TxsOK

-----------------------------------------------------------------------------
(* Operations under way *)

LEMMA StepKeeps ==
    ASSUME TxsOK, NEW a \in Admins, NEW x, TxOK(x), Step(a, x)
    PROVE  TxsOK'
BY DEF TxsOK, Step

LEMMA NoTxOK ==
    /\ NoObject \in Rows
    /\ TxOK(NoTx) /\ NoTx \in Ops /\ NoTx.pc = "idle"
<1>1. NoObject \in Rows
  BY DEF NoObject, Rows
<1>2. NoTx \in Ops /\ NoTx.pc = "idle"
  BY <1>1 DEF NoTx, Ops
<1> QED BY <1>1, <1>2 DEF TxOK

LEMMA StoreRests ==
    ASSUME StoreOK, UNCHANGED <<rows, history, lastId, raced>>
    PROVE  StoreOK'
BY DEF StoreOK, RowsOK, HistoryOK, VersionLeads, ExactUnlessRaced, ReplayIsExact,
       NothingRefused, VersionsAreKept, Exists

\* What an operation may read of a row.
LEMMA RowType ==
    ASSUME StoreOK, NEW o \in Objects
    PROVE  /\ rows[o] \in Rows /\ rows[o].id \in Nat /\ rows[o].version \in Nat
           /\ Exists(o) => rows[o].id # 0 /\ rows[o].body \in Bodies
           /\ ~Exists(o) => rows[o] = NoObject /\ rows[o].id = 0
BY DEF StoreOK, RowsOK, Rows, NoObject, Exists

-----------------------------------------------------------------------------
(* Writing *)

\* A row that is written, as a draft or archived, over itself or as a new one.
LEMMA WriteQuietly ==
    ASSUME StoreOK, NEW o \in Objects, NEW new \in Rows,
           new.status \in {"draft", "archived"}, new.body \in Bodies,
           \/ /\ new.id = rows[o].id /\ Exists(o) /\ new.version = rows[o].version
              /\ lastId' = lastId
           \/ ~Exists(o) /\ new.id = lastId + 1 /\ lastId' = new.id,
           rows' = [rows EXCEPT ![o] = new], history' = history,
           raced' \in SUBSET Objects, raced \subseteq raced'
    PROVE  StoreOK'
<1> USE DEF StoreOK
<1>1. /\ rows' \in [Objects -> Rows] /\ rows'[o] = new
      /\ \A p \in Objects \ {o} : rows'[p] = rows[p]
      /\ lastId \in Nat /\ lastId' \in Nat /\ lastId <= lastId'
  BY DEF RowsOK
<1>2. new.id \in 1..lastId' /\ (new.id = rows[o].id \/ new.id = lastId + 1)
  BY <1>1 DEF RowsOK
<1>3. \A p \in Objects : rows[p].id \in Nat /\ rows[p].id <= lastId
  BY <1>1 DEF RowsOK, NoObject
<1>4. RowsOK'
  <2>1. \A p \in Objects : ~Exists(p)' => rows'[p] = NoObject
    BY <1>1 DEF RowsOK, Exists
  <2>2. \A p \in Objects :
           Exists(p)' => rows'[p].id \in 1..lastId' /\ rows'[p].body \in Bodies
    BY <1>1, <1>2 DEF RowsOK, Exists
  <2>3. \A p, q \in Objects : Exists(p)' /\ rows'[q].id = rows'[p].id => q = p
    BY <1>1, <1>2, <1>3 DEF RowsOK, Exists, NoObject
  <2> QED BY <1>1, <2>1, <2>2, <2>3 DEF RowsOK
<1>5. HistoryOK'
  <2>1. \A p \in Objects : rows'[p].status = "published" => rows'[p] = rows[p]
    BY <1>1
  <2>2. VersionsAreKept'
    BY <2>1 DEF HistoryOK, VersionsAreKept
  <2>3. \A h \in history' : h.id \in 1..lastId'
    BY <1>1 DEF HistoryOK
  <2> QED BY <2>2, <2>3 DEF HistoryOK, NothingRefused
<1>6. VersionLeads'
  <2> SUFFICES ASSUME NEW p \in Objects \ raced', NEW h \in history, h.id = rows'[p].id
               PROVE  h.version <= rows'[p].version
    BY DEF VersionLeads
  <2>1. h.id \in 1..lastId
    BY DEF HistoryOK
  <2> QED BY <1>1, <2>1 DEF VersionLeads
<1>7. ExactUnlessRaced'
  BY <1>1 DEF ExactUnlessRaced, ReplayIsExact
<1> QED BY <1>4, <1>5, <1>6, <1>7

\* A row that is published, over itself or as a new one.
LEMMA WriteLive ==
    ASSUME StoreOK, NEW o \in Objects, NEW new \in Rows, NEW b, Linted(b),
           new.status = "published", new.body \in Bodies,
           \/ /\ new.id = rows[o].id /\ Exists(o) /\ lastId' = lastId
           \/ ~Exists(o) /\ new.id = lastId + 1 /\ lastId' = new.id,
           rows' = [rows EXCEPT ![o] = new],
           history' = history \union Versioned(new.id, new.version, b),
           raced' \in SUBSET Objects, raced \subseteq raced',
           \/ o \in raced'
           \/ new.body = b /\ (Exists(o) => new.version = rows[o].version + 1)
    PROVE  StoreOK'
<1> USE DEF StoreOK
<1>1. /\ rows' \in [Objects -> Rows] /\ rows'[o] = new
      /\ \A p \in Objects \ {o} : rows'[p] = rows[p]
      /\ lastId \in Nat /\ lastId' \in Nat /\ lastId <= lastId'
  BY DEF RowsOK
<1>2. new.id \in 1..lastId' /\ (new.id = rows[o].id \/ new.id = lastId + 1)
  BY <1>1 DEF RowsOK
<1>3. \A p \in Objects : rows[p].id \in Nat /\ rows[p].id <= lastId /\ rows[p].version \in Nat
  BY <1>1 DEF RowsOK, NoObject, Rows
<1>4. \A p, q \in Objects : Exists(p)' /\ rows'[q].id = rows'[p].id => q = p
  BY <1>1, <1>2, <1>3 DEF RowsOK, Exists, NoObject
<1>5. RowsOK'
  <2>1. \A p \in Objects : ~Exists(p)' => rows'[p] = NoObject
    BY <1>1 DEF RowsOK, Exists
  <2>2. \A p \in Objects :
           Exists(p)' => rows'[p].id \in 1..lastId' /\ rows'[p].body \in Bodies
    BY <1>1, <1>2 DEF RowsOK, Exists
  <2> QED BY <1>1, <1>4, <2>1, <2>2 DEF RowsOK
<1> DEFINE entry == [id |-> new.id, version |-> new.version, body |-> b]
<1>6. /\ entry \in Versions /\ entry.id = new.id /\ entry.version = new.version
      /\ entry.body = b /\ b \notin Broken
  BY <1>1, <1>2 DEF Versions, Linted, Rows
<1>7. \/ /\ history' = history
         /\ \E h \in history : h.id = new.id /\ h.version = new.version
      \/ /\ history' = history \union {entry}
         /\ \A h \in history : ~(h.id = new.id /\ h.version = new.version)
  BY DEF Versioned
<1> HIDE DEF entry
<1>8. HistoryOK'
  <2>1. history' \in SUBSET Versions /\ NothingRefused'
    BY <1>6, <1>7 DEF HistoryOK, NothingRefused
  <2>2. \A h \in history' : h.id \in 1..lastId'
    BY <1>1, <1>2, <1>6, <1>7 DEF HistoryOK
  <2>3. \A g, h \in history' : g.id = h.id /\ g.version = h.version => g = h
    BY <1>6, <1>7 DEF HistoryOK, VersionsAreKept
  <2>4. \A p \in Objects : rows'[p].status = "published" =>
           \E h \in history' : h.id = rows'[p].id /\ h.version = rows'[p].version
    BY <1>1, <1>6, <1>7 DEF HistoryOK, VersionsAreKept
  <2> QED BY <2>1, <2>2, <2>3, <2>4 DEF HistoryOK, VersionsAreKept
\* Unless the row was raced for, the entry is new.
<1>9. ASSUME NEW p \in Objects \ raced', NEW h \in history', h.id = rows'[p].id
      PROVE  h.version <= rows'[p].version
  <2>1. CASE h \in history /\ p # o
    BY <1>1, <1>9, <2>1 DEF VersionLeads
  <2>2. CASE h \in history /\ p = o
    <3>1. h.id \in 1..lastId /\ h.version \in Nat
      BY <2>2 DEF HistoryOK, Versions
    <3>2. h.id = rows[o].id /\ Exists(o) /\ new.version = rows[o].version + 1
      BY <1>1, <1>9, <2>2, <3>1
    <3>3. h.version <= rows[o].version
      BY <1>9, <2>2, <3>2 DEF VersionLeads
    <3> QED BY <1>1, <1>3, <2>2, <3>1, <3>2, <3>3
  <2>3. CASE h = entry
    <3>1. p = o
      <4>1. rows'[p].id = rows'[o].id /\ Exists(o)'
        BY <1>1, <1>6, <1>9, <2>3 DEF Exists
      <4> QED BY <1>4, <4>1
    <3> QED BY <1>1, <1>6, <2>3, <3>1 DEF Rows
  <2> QED BY <1>7, <2>1, <2>2, <2>3
<1>10. ASSUME NEW p \in Objects \ raced', rows'[p].status = "published"
       PROVE  [id |-> rows'[p].id, version |-> rows'[p].version, body |-> rows'[p].body]
                 \in history'
  <2>1. CASE p # o
    BY <1>1, <1>7, <1>10, <2>1 DEF ExactUnlessRaced, ReplayIsExact
  <2>2. CASE p = o
    <3>1. new.body = b /\ o \notin raced /\ (Exists(o) => new.version = rows[o].version + 1)
      BY <1>10, <2>2
    <3>2. \A h \in history : ~(h.id = new.id /\ h.version = new.version)
      <4> SUFFICES ASSUME NEW h \in history, h.id = new.id, h.version = new.version
                   PROVE  FALSE
        OBVIOUS
      <4>1. h.id \in 1..lastId
        BY DEF HistoryOK
      <4>2. h.id = rows[o].id /\ Exists(o)
        BY <1>1, <4>1
      <4>3. h.version <= rows[o].version
        BY <3>1, <4>2 DEF VersionLeads
      <4> QED BY <1>3, <3>1, <4>2, <4>3
    <3>3. entry \in history'
      BY <1>7, <3>2
    <3> QED BY <1>1, <2>2, <3>1, <3>3 DEF entry
  <2> QED BY <2>1, <2>2
<1>11. VersionLeads' /\ ExactUnlessRaced'
  BY <1>9, <1>10 DEF VersionLeads, ExactUnlessRaced, ReplayIsExact
<1> QED BY <1>5, <1>8, <1>11

-----------------------------------------------------------------------------
(* Operations of one step *)

LEMMA CreateDraftKeeps ==
    ASSUME StoreInv, NEW o \in Objects, NEW b \in Bodies, CreateDraft(o, b)
    PROVE  StoreInv'
<1> DEFINE new == [id |-> lastId + 1, status |-> "draft", version |-> 1, body |-> b]
<1>1. /\ new \in Rows /\ new.status = "draft" /\ new.body \in Bodies /\ new.id = lastId + 1
      /\ raced \in SUBSET Objects
  BY DEF Rows, StoreInv, StoreOK, RowsOK
<1>2. /\ ~Exists(o) /\ rows' = [rows EXCEPT ![o] = new] /\ lastId' = lastId + 1
      /\ UNCHANGED <<history, tx, raced>>
  BY DEF CreateDraft
<1> HIDE DEF new
<1>3. StoreOK'
  BY <1>1, <1>2, WriteQuietly DEF StoreInv
<1> QED BY <1>2, <1>3 DEF StoreInv, TxsOK

LEMMA ArchiveKeeps ==
    ASSUME StoreInv, NEW o \in Objects, Archive(o)
    PROVE  StoreInv'
<1> DEFINE new == [rows[o] EXCEPT !.status = "archived"]
<1>1. /\ Exists(o) /\ rows[o] \in Rows /\ rows[o].body \in Bodies
      /\ raced \in SUBSET Objects
  BY RowType DEF Archive, StoreInv, StoreOK, RowsOK
<1>2. /\ new \in Rows /\ new.status = "archived" /\ new.body = rows[o].body
      /\ new.id = rows[o].id /\ new.version = rows[o].version
  BY <1>1 DEF Rows
<1>3. rows' = [rows EXCEPT ![o] = new] /\ UNCHANGED <<history, lastId, tx, raced>>
  BY DEF Archive
<1> HIDE DEF new
<1>4. StoreOK'
  BY <1>1, <1>2, <1>3, WriteQuietly DEF StoreInv
<1> QED BY <1>3, <1>4 DEF StoreInv, TxsOK

LEMMA RevertKeeps ==
    ASSUME StoreInv, NEW o \in Objects, NEW h \in history, Revert(o, h)
    PROVE  StoreInv'
<1> DEFINE new == [rows[o] EXCEPT !.body = h.body, !.status = "draft"]
<1>1. Exists(o) /\ rows[o] \in Rows /\ h.body \in Bodies /\ raced \in SUBSET Objects
  BY RowType DEF Revert, StoreInv, StoreOK, RowsOK, HistoryOK, Versions
<1>2. /\ new \in Rows /\ new.status = "draft" /\ new.body = h.body
      /\ new.id = rows[o].id /\ new.version = rows[o].version
  BY <1>1 DEF Rows
<1>3. rows' = [rows EXCEPT ![o] = new] /\ UNCHANGED <<history, lastId, tx, raced>>
  BY DEF Revert
<1> HIDE DEF new
<1>4. StoreOK'
  BY <1>1, <1>2, <1>3, WriteQuietly DEF StoreInv
<1> QED BY <1>3, <1>4 DEF StoreInv, TxsOK

\* The history that goes with a row is its own: no other row has its id.
LEMMA DeleteKeeps ==
    ASSUME StoreInv, NEW o \in Objects, Delete(o)
    PROVE  StoreInv'
<1> USE DEF StoreInv, StoreOK
<1>1. /\ Exists(o) /\ rows' = [rows EXCEPT ![o] = NoObject] /\ raced' = raced \ {o}
      /\ history' = {h \in history : h.id # rows[o].id} /\ UNCHANGED <<lastId, tx>>
  BY DEF Delete
<1>2. NoObject \in Rows /\ NoObject.id = 0 /\ NoObject.status = "none"
  BY NoTxOK DEF NoObject
<1>3. /\ rows' \in [Objects -> Rows] /\ rows'[o] = NoObject
      /\ \A p \in Objects \ {o} : rows'[p] = rows[p]
  BY <1>1, <1>2 DEF RowsOK
<1>4. RowsOK'
  <2>1. \A p, q \in Objects : Exists(p)' /\ rows'[q].id = rows'[p].id => q = p
    BY <1>2, <1>3 DEF RowsOK, Exists
  <2> QED BY <1>1, <1>2, <1>3, <2>1 DEF RowsOK, Exists
<1>5. \A p \in Objects : rows'[p].status = "published" =>
         p # o /\ rows'[p] = rows[p] /\ rows[p].id # rows[o].id
  BY <1>1, <1>2, <1>3 DEF RowsOK, Exists
<1>6. HistoryOK'
  <2>1. VersionsAreKept'
    BY <1>1, <1>5 DEF HistoryOK, VersionsAreKept
  <2> QED BY <1>1, <2>1 DEF HistoryOK, NothingRefused
<1>7. VersionLeads'
  <2> SUFFICES ASSUME NEW p \in Objects \ raced', NEW h \in history', h.id = rows'[p].id
               PROVE  h.version <= rows'[p].version
    BY DEF VersionLeads
  <2>1. h \in history /\ h.id \in 1..lastId
    BY <1>1 DEF HistoryOK
  <2>2. p # o
    BY <1>2, <1>3, <2>1
  <2> QED BY <1>1, <1>3, <2>1, <2>2 DEF VersionLeads
<1>8. ExactUnlessRaced'
  <2> SUFFICES ASSUME NEW p \in Objects \ raced', rows'[p].status = "published"
               PROVE  [id |-> rows'[p].id, version |-> rows'[p].version,
                       body |-> rows'[p].body] \in history'
    BY DEF ExactUnlessRaced, ReplayIsExact
  <2>1. p # o /\ rows'[p] = rows[p] /\ rows[p].id # rows[o].id
    BY <1>5
  <2> DEFINE entry == [id |-> rows[p].id, version |-> rows[p].version, body |-> rows[p].body]
  <2>2. entry \in history /\ entry.id = rows[p].id
    BY <1>1, <2>1 DEF ExactUnlessRaced, ReplayIsExact
  <2> QED BY <1>1, <2>1, <2>2
<1> QED BY <1>1, <1>4, <1>6, <1>7, <1>8 DEF TxsOK

-----------------------------------------------------------------------------
(* What an administrator begins: the store stays, the operation is sound *)

Begins(a) ==
    \/ \E o \in Objects :
          \/ OpenEditor(a, o) \/ RestoreRead(a, o)
          \/ PublishRead(a, o) \/ ToggleRead(a, o)
          \/ \E b \in Bodies : CreateRead(a, o, b) \/ ImportPlan(a, o, b)
    \/ \E b \in Bodies : UpdateRead(a, b)
    \/ Lint(a) \/ ImportRead(a) \/ ToggleUpdate(a) \/ Abort(a)

LEMMA BeginsKeep ==
    ASSUME StoreInv, NEW a \in Admins, Begins(a)
    PROVE  StoreInv'
<1> USE DEF StoreInv
<1>1. UNCHANGED <<rows, history, lastId, raced>>
  BY DEF Begins, OpenEditor, RestoreRead, PublishRead, ToggleRead,
     CreateRead, ImportPlan,
         UpdateRead, Lint, ImportRead, ToggleUpdate, Abort
<1>2. TxOK(tx[a]) /\ tx[a] \in Ops /\ NoTx \in Ops /\ NoObject \in Rows
  BY NoTxOK DEF TxsOK, TxOK
<1>3. ASSUME NEW o \in Objects
      PROVE  /\ rows[o] \in Rows /\ rows[o].version \in Nat
             /\ Exists(o) => rows[o].id # 0 /\ rows[o].body \in Bodies
  BY RowType
<1>4. /\ NoTx.pc = "idle" /\ NoTx.op = "none"
      /\ NoTx.on = Nil /\ NoTx.arg = Nil
      /\ NoTx.seen = NoObject /\ NoTx.live = FALSE
  BY DEF NoTx
<1>5. ASSUME NEW o \in Objects, OpenEditor(a, o) PROVE TxsOK'
  <2> DEFINE x == [NoTx EXCEPT !.pc = "editor", !.on = o, !.seen.version = rows[o].version]
  <2>1. [NoTx.seen EXCEPT !.version = rows[o].version] \in Rows
    BY <1>3, <1>4, NoTxOK DEF Rows
  <2>2. x \in Ops /\ x.pc = "editor" /\ x.on = o
    BY <1>2, <2>1 DEF Ops
  <2>3. Step(a, x)
    BY <1>5 DEF OpenEditor
  <2> HIDE DEF x
  <2> QED BY <2>2, <2>3, StepKeeps DEF TxOK
<1>6. ASSUME NEW o \in Objects, RestoreRead(a, o) PROVE TxsOK'
  <2> DEFINE x == [NoTx EXCEPT !.pc = "write", !.op = "restore", !.on = o, !.seen = rows[o]]
  <2>1. Exists(o) /\ Step(a, x)
    BY <1>6 DEF RestoreRead, Exists
  <2>2. x \in Ops /\ x.pc = "write" /\ x.op = "restore" /\ x.on = o /\ x.seen = rows[o]
    BY <1>2, <1>3 DEF Ops
  <2> HIDE DEF x
  <2> QED BY <1>3, <2>1, <2>2, StepKeeps DEF TxOK
<1>7. ASSUME NEW o \in Objects, PublishRead(a, o) PROVE TxsOK'
  <2> DEFINE x == [NoTx EXCEPT !.pc = "lint", !.op = "publish", !.on = o, !.seen = rows[o],
                               !.arg = rows[o].body]
  <2>1. Exists(o) /\ Step(a, x)
    BY <1>7 DEF PublishRead
  <2>2. /\ x \in Ops /\ x.pc = "lint" /\ x.op = "publish" /\ x.on = o /\ x.seen = rows[o]
        /\ x.arg = rows[o].body
    BY <1>2, <1>3, <2>1 DEF Ops
  <2> HIDE DEF x
  <2> QED BY <1>3, <2>1, <2>2, StepKeeps DEF TxOK
<1>8. ASSUME NEW o \in Objects, ToggleRead(a, o) PROVE TxsOK'
  <2> DEFINE x == [NoTx EXCEPT !.pc = "toggle", !.on = o, !.arg = rows[o].body,
                               !.live = (rows[o].status = "published")]
  <2>1. Exists(o) /\ Step(a, x)
    BY <1>8 DEF ToggleRead
  <2>2. x \in Ops /\ x.pc = "toggle" /\ x.on = o /\ x.arg = rows[o].body
    BY <1>2, <1>3, <2>1 DEF Ops
  <2> HIDE DEF x
  <2> QED BY <1>3, <2>1, <2>2, StepKeeps DEF TxOK
<1>9. ASSUME NEW o \in Objects, NEW b \in Bodies, CreateRead(a, o, b) PROVE TxsOK'
  <2> DEFINE x == [NoTx EXCEPT !.pc = "lint", !.op = "create", !.on = o, !.arg = b]
  <2>1. Step(a, x)
    BY <1>9 DEF CreateRead
  <2>2. /\ x \in Ops /\ x.pc = "lint" /\ x.op = "create" /\ x.on = o /\ x.arg = b
        /\ x.seen = NoObject
    BY <1>2, <1>4 DEF Ops
  <2> HIDE DEF x
  <2> QED BY <2>1, <2>2, StepKeeps DEF TxOK
<1>10. ASSUME NEW o \in Objects, NEW b \in Bodies, ImportPlan(a, o, b) PROVE TxsOK'
  <2> DEFINE x == [NoTx EXCEPT !.pc = "import", !.op = "import", !.on = o, !.arg = b]
  <2>1. Step(a, x) /\ Linted(b)
    BY <1>10 DEF ImportPlan, Lints, Linted
  <2>2. x \in Ops /\ x.pc = "import" /\ x.op = "import" /\ x.on = o /\ x.arg = b
    BY <1>2 DEF Ops
  <2> HIDE DEF x
  <2> QED BY <2>1, <2>2, StepKeeps DEF TxOK
<1>11. ASSUME NEW b \in Bodies, UpdateRead(a, b) PROVE TxsOK'
  <2> DEFINE x == [tx[a] EXCEPT !.pc = "write", !.op = "update", !.arg = b,
                                !.seen = rows[tx[a].on]]
  <2>1. Step(a, x) /\ tx[a].pc = "editor" /\ Exists(tx[a].on)
    BY <1>11 DEF UpdateRead
  <2>2. tx[a].on \in Objects
    BY <1>2, <2>1 DEF TxOK
  <2>3. /\ x \in Ops /\ x.pc = "write" /\ x.op = "update" /\ x.on = tx[a].on /\ x.arg = b
        /\ x.seen = rows[tx[a].on]
    BY <1>2, <1>3, <2>2 DEF Ops
  <2> HIDE DEF x
  <2> QED BY <1>3, <2>1, <2>2, <2>3, StepKeeps DEF TxOK
<1>12. ASSUME Lint(a) PROVE TxsOK'
  <2>1. CASE ~Lints(tx[a].arg)
    BY <1>12, <2>1, NoTxOK, StepKeeps DEF Lint
  <2>2. CASE Lints(tx[a].arg)
    <3> DEFINE x == [tx[a] EXCEPT !.pc = "write"]
    <3>1. Step(a, x) /\ tx[a].pc = "lint"
      BY <1>12, <2>2 DEF Lint
    <3>2. /\ x \in Ops /\ x.pc = "write" /\ x.op = tx[a].op /\ x.on = tx[a].on
          /\ x.arg = tx[a].arg /\ x.seen = tx[a].seen
      BY <1>2 DEF Ops
    <3>3. Linted(tx[a].arg)
      BY <1>2, <2>2, <3>1 DEF TxOK, Lints, Linted
    <3> HIDE DEF x
    <3>4. TxOK(x)
      BY <1>2, <3>1, <3>2, <3>3 DEF TxOK
    <3> QED BY <3>1, <3>4, StepKeeps
  <2> QED BY <2>1, <2>2
<1>13. ASSUME ImportRead(a) PROVE TxsOK'
  <2> DEFINE x == [tx[a] EXCEPT !.pc = "write", !.seen = rows[tx[a].on]]
  <2>1. Step(a, x) /\ tx[a].pc = "import"
    BY <1>13 DEF ImportRead
  <2>2. tx[a].on \in Objects /\ tx[a].op = "import" /\ Linted(tx[a].arg)
    BY <1>2, <2>1 DEF TxOK
  <2>3. /\ x \in Ops /\ x.pc = "write" /\ x.op = "import" /\ x.on = tx[a].on
        /\ x.arg = tx[a].arg
    BY <1>2, <1>3, <2>2 DEF Ops
  <2> HIDE DEF x
  <2> QED BY <2>1, <2>2, <2>3, StepKeeps DEF TxOK
<1>14. ASSUME ToggleUpdate(a) PROVE TxsOK'
  <2> DEFINE x == [tx[a] EXCEPT !.pc = "write", !.op = "toggle", !.seen = rows[tx[a].on]]
  <2>1. Step(a, x) /\ tx[a].pc = "toggle" /\ Exists(tx[a].on)
    BY <1>14 DEF ToggleUpdate
  <2>2. tx[a].on \in Objects /\ tx[a].arg \in Bodies
    BY <1>2, <2>1 DEF TxOK
  <2>3. /\ x \in Ops /\ x.pc = "write" /\ x.op = "toggle" /\ x.on = tx[a].on
        /\ x.arg = tx[a].arg /\ x.seen = rows[tx[a].on]
    BY <1>2, <1>3, <2>2 DEF Ops
  <2> HIDE DEF x
  <2> QED BY <1>3, <2>1, <2>2, <2>3, StepKeeps DEF TxOK
<1>15. ASSUME Abort(a) PROVE TxsOK'
  BY <1>15, NoTxOK, StepKeeps DEF Abort
<1>16. TxsOK'
  BY <1>5, <1>6, <1>7, <1>8, <1>9, <1>10, <1>11, <1>12, <1>13, <1>14, <1>15 DEF Begins
<1> QED BY <1>1, <1>16, StoreRests

-----------------------------------------------------------------------------
(* What an administrator commits *)

\* A commit writes over the row that was read or, if it is gone or new, nothing.
LEMMA Commits ==
    ASSUME StoreInv, NEW a \in Admins, NEW new, NEW versions, NEW next, TxOK(next),
           CommitRow(a, new, versions, next)
    PROVE  /\ TxsOK'
           /\ \/ UNCHANGED <<rows, history, lastId, raced>>
              \/ /\ rows[tx[a].on].id = tx[a].seen.id
                 /\ rows' = [rows EXCEPT ![tx[a].on] = new]
                 /\ history' = history \union versions
                 /\ lastId' = IF new.id > lastId THEN new.id ELSE lastId
                 /\ raced' = IF rows[tx[a].on] = tx[a].seen THEN raced
                             ELSE raced \union {tx[a].on}
<1>1. CASE rows[tx[a].on].id = tx[a].seen.id
  BY <1>1, StepKeeps DEF StoreInv, CommitRow
<1>2. CASE rows[tx[a].on].id # tx[a].seen.id
  BY <1>2, NoTxOK, StepKeeps DEF StoreInv, CommitRow
<1> QED BY <1>1, <1>2

\* The row that a commit finds is as its id says.
LEMMA Found ==
    ASSUME StoreInv, NEW a \in Admins, tx[a].pc = "write", rows[tx[a].on].id = tx[a].seen.id
    PROVE  /\ tx[a].on \in Objects /\ TxOK(tx[a]) /\ rows[tx[a].on] \in Rows
           /\ tx[a].seen.id # 0 => Exists(tx[a].on) /\ rows[tx[a].on].id \in 1..lastId
           /\ tx[a].seen.id = 0 => ~Exists(tx[a].on) /\ rows[tx[a].on] = NoObject
           /\ lastId \in Nat /\ raced \in SUBSET Objects
<1>1. TxOK(tx[a]) /\ tx[a].on \in Objects
  BY DEF StoreInv, TxsOK, TxOK
<1> QED BY <1>1, RowType DEF StoreInv, StoreOK, RowsOK, NoObject

LEMMA UpdateWriteKeeps ==
    ASSUME StoreInv, NEW a \in Admins, UpdateWrite(a)
    PROVE  StoreInv'
<1> DEFINE o    == tx[a].on
           new  == [rows[o] EXCEPT !.body = tx[a].arg, !.status = EditedStatus(tx[a].seen)]
           next == IF tx[a].live THEN [NoTx EXCEPT !.pc = "again", !.on = o] ELSE NoTx
<1>1. /\ tx[a].pc = "write" /\ tx[a].op \in {"update", "toggle"}
      /\ CommitRow(a, new, {}, next)
  BY DEF UpdateWrite
<1>2. tx[a].on \in Objects /\ TxOK(tx[a])
  BY <1>1 DEF StoreInv, TxsOK, TxOK
<1>3. TxOK(next)
  <2>1. [NoTx EXCEPT !.pc = "again", !.on = o] \in Ops
    BY <1>2, NoTxOK DEF Ops
  <2>2. TxOK([NoTx EXCEPT !.pc = "again", !.on = o])
    BY <1>2, <2>1, NoTxOK DEF TxOK, Ops
  <2> QED BY <2>2, NoTxOK
<1>4. EditedStatus(tx[a].seen) \in {"draft", "archived"}
  BY DEF EditedStatus
<1>5. rows[o] \in Rows /\ tx[a].arg \in Bodies /\ tx[a].seen.id # 0
  BY <1>1, <1>2, RowType DEF StoreInv, TxOK
<1>6. /\ new \in Rows /\ new.status \in {"draft", "archived"} /\ new.body \in Bodies
      /\ new.id = rows[o].id /\ new.version = rows[o].version
  BY <1>4, <1>5 DEF Rows
<1> HIDE DEF new, next
<1>7. CASE UNCHANGED <<rows, history, lastId, raced>>
  BY <1>1, <1>3, <1>7, Commits, StoreRests DEF StoreInv
<1>8. CASE ~UNCHANGED <<rows, history, lastId, raced>>
  <2>1. /\ TxsOK' /\ rows[o].id = tx[a].seen.id /\ rows' = [rows EXCEPT ![o] = new]
        /\ history' = history \union {}
        /\ lastId' = IF new.id > lastId THEN new.id ELSE lastId
        /\ raced' = IF rows[o] = tx[a].seen THEN raced ELSE raced \union {o}
    BY <1>1, <1>3, <1>8, Commits
  <2>2. Exists(o) /\ rows[o].id \in 1..lastId /\ lastId \in Nat /\ raced \in SUBSET Objects
    BY <1>1, <1>5, <2>1, Found
  <2>3. /\ lastId' = lastId /\ history' = history
        /\ raced \subseteq raced' /\ raced' \in SUBSET Objects
    BY <1>2, <1>6, <2>1, <2>2
  <2> QED BY <1>2, <1>6, <2>1, <2>2, <2>3, WriteQuietly DEF StoreInv
<1> QED BY <1>7, <1>8

LEMMA RestoreWriteKeeps ==
    ASSUME StoreInv, NEW a \in Admins, RestoreWrite(a)
    PROVE  StoreInv'
<1> DEFINE o   == tx[a].on
           new == [rows[o] EXCEPT !.status = "draft"]
<1>1. tx[a].pc = "write" /\ tx[a].op = "restore" /\ CommitRow(a, new, {}, NoTx)
  BY DEF RestoreWrite
<1>2. tx[a].on \in Objects /\ TxOK(tx[a]) /\ tx[a].seen.id # 0
  BY <1>1 DEF StoreInv, TxsOK, TxOK
<1>3. rows[o] \in Rows
  BY <1>2, RowType DEF StoreInv
<1>4. /\ new \in Rows /\ new.status = "draft" /\ new.body = rows[o].body
      /\ new.id = rows[o].id /\ new.version = rows[o].version
  BY <1>3 DEF Rows
<1> HIDE DEF new
<1>5. CASE UNCHANGED <<rows, history, lastId, raced>>
  BY <1>1, <1>5, NoTxOK, Commits, StoreRests DEF StoreInv
<1>6. CASE ~UNCHANGED <<rows, history, lastId, raced>>
  <2>1. /\ TxsOK' /\ rows[o].id = tx[a].seen.id /\ rows' = [rows EXCEPT ![o] = new]
        /\ history' = history \union {}
        /\ lastId' = IF new.id > lastId THEN new.id ELSE lastId
        /\ raced' = IF rows[o] = tx[a].seen THEN raced ELSE raced \union {o}
    BY <1>1, <1>6, NoTxOK, Commits
  <2>2. Exists(o) /\ rows[o].id \in 1..lastId /\ lastId \in Nat /\ raced \in SUBSET Objects
    BY <1>1, <1>2, <2>1, Found
  <2>3. /\ lastId' = lastId /\ history' = history
        /\ raced \subseteq raced' /\ raced' \in SUBSET Objects
    BY <1>2, <1>4, <2>1, <2>2
  <2>4. new.body \in Bodies
    BY <1>2, <1>4, <2>2, RowType DEF StoreInv
  <2> QED BY <1>2, <1>4, <2>1, <2>2, <2>3, <2>4, WriteQuietly DEF StoreInv
<1> QED BY <1>5, <1>6

\* The three operations that publish: what is new of the row, and under which
\* version its body goes into the history.
LEMMA LiveKeeps ==
    ASSUME StoreInv, NEW a \in Admins, tx[a].pc = "write",
           tx[a].op \in {"publish", "create", "import"},
           NEW new,
           CommitRow(a, new, Versioned(new.id, new.version, tx[a].arg), NoTx),
           rows[tx[a].on].id = tx[a].seen.id =>
              /\ new \in Rows /\ new.status = "published" /\ new.body \in Bodies
              /\ new.id = IF tx[a].seen.id = 0 THEN lastId + 1 ELSE tx[a].seen.id
              /\ rows[tx[a].on] = tx[a].seen =>
                    /\ new.body = tx[a].arg
                    /\ tx[a].seen.id # 0 => new.version = tx[a].seen.version + 1
    PROVE  StoreInv'
<1> DEFINE o == tx[a].on
<1>1. CASE UNCHANGED <<rows, history, lastId, raced>>
  BY <1>1, NoTxOK, Commits, StoreRests DEF StoreInv
<1>2. CASE ~UNCHANGED <<rows, history, lastId, raced>>
  <2>1. /\ TxsOK' /\ rows[o].id = tx[a].seen.id /\ rows' = [rows EXCEPT ![o] = new]
        /\ history' = history \union Versioned(new.id, new.version, tx[a].arg)
        /\ lastId' = IF new.id > lastId THEN new.id ELSE lastId
        /\ raced' = IF rows[o] = tx[a].seen THEN raced ELSE raced \union {o}
    BY <1>2, NoTxOK, Commits
  <2>2. /\ o \in Objects /\ Linted(tx[a].arg) /\ lastId \in Nat /\ raced \in SUBSET Objects
        /\ tx[a].seen.id # 0 => Exists(o) /\ rows[o].id \in 1..lastId
        /\ tx[a].seen.id = 0 => ~Exists(o)
    BY <2>1, Found DEF TxOK
  <2>3. /\ new \in Rows /\ new.status = "published" /\ new.body \in Bodies
        /\ new.id = IF tx[a].seen.id = 0 THEN lastId + 1 ELSE tx[a].seen.id
    BY <2>1
  <2>4. \/ new.id = rows[o].id /\ Exists(o) /\ lastId' = lastId
        \/ ~Exists(o) /\ new.id = lastId + 1 /\ lastId' = new.id
    BY <2>1, <2>2, <2>3
  <2>5. raced \subseteq raced' /\ raced' \in SUBSET Objects
    BY <2>1, <2>2
  <2>6. \/ o \in raced'
        \/ new.body = tx[a].arg /\ (Exists(o) => new.version = rows[o].version + 1)
    BY <2>1, <2>2
  <2> QED BY <2>1, <2>2, <2>3, <2>4, <2>5, <2>6, WriteLive DEF StoreInv
<1> QED BY <1>1, <1>2

LEMMA PublishWriteKeeps ==
    ASSUME StoreInv, NEW a \in Admins, PublishWrite(a)
    PROVE  StoreInv'
<1> DEFINE o   == tx[a].on
           v   == tx[a].seen.version + 1
           new == [rows[o] EXCEPT !.status = "published", !.version = v]
<1>1. /\ tx[a].pc = "write" /\ tx[a].op = "publish"
      /\ CommitRow(a, new, Versioned(tx[a].seen.id, v, tx[a].arg), NoTx)
  BY DEF PublishWrite
<1>2. /\ tx[a].on \in Objects /\ tx[a] \in Ops /\ tx[a].seen.id # 0
      /\ tx[a].arg = tx[a].seen.body
  BY <1>1 DEF StoreInv, TxsOK, TxOK
<1>3. v \in Nat /\ rows[o] \in Rows
  BY <1>2, RowType DEF StoreInv, Ops, Rows
<1>4. /\ new \in Rows /\ new.status = "published" /\ new.version = v /\ new.id = rows[o].id
      /\ new.body = rows[o].body
  BY <1>3 DEF Rows
<1> HIDE DEF new
<1>5. CASE rows[o].id = tx[a].seen.id
  <2>1. new.body \in Bodies
    BY <1>1, <1>2, <1>4, <1>5, Found, RowType DEF StoreInv
  <2>2. CommitRow(a, new, Versioned(new.id, new.version, tx[a].arg), NoTx)
    BY <1>1, <1>4, <1>5
  <2> QED BY <1>1, <1>2, <1>4, <1>5, <2>1, <2>2, LiveKeeps
<1>6. CASE rows[o].id # tx[a].seen.id
  <2>1. UNCHANGED <<rows, history, lastId, raced>> /\ TxsOK'
    BY <1>1, <1>6, NoTxOK, Commits
  <2> QED BY <2>1, StoreRests DEF StoreInv
<1> QED BY <1>5, <1>6

LEMMA CreateWriteKeeps ==
    ASSUME StoreInv, NEW a \in Admins, CreateWrite(a)
    PROVE  StoreInv'
<1> DEFINE new == [id |-> lastId + 1, status |-> "published", version |-> 2, body |-> tx[a].arg]
<1>1. /\ tx[a].pc = "write" /\ tx[a].op = "create"
      /\ CommitRow(a, new, Versioned(new.id, new.version, tx[a].arg), NoTx)
  BY DEF CreateWrite
<1>2. tx[a].arg \in Bodies /\ tx[a].seen = NoObject /\ lastId \in Nat
  BY <1>1 DEF StoreInv, TxsOK, TxOK, Linted, StoreOK, RowsOK
<1>3. /\ new \in Rows /\ new.status = "published" /\ new.body = tx[a].arg
      /\ new.id = lastId + 1 /\ new.version = 2
  BY <1>2 DEF Rows
<1>4. tx[a].seen.id = 0
  BY <1>2 DEF NoObject
<1> HIDE DEF new
<1> QED BY <1>1, <1>3, <1>4, <1>2, LiveKeeps

LEMMA ImportWriteKeeps ==
    ASSUME StoreInv, NEW a \in Admins, ImportWrite(a)
    PROVE  StoreInv'
<1> DEFINE seen == tx[a].seen
           id   == IF seen.id = 0 THEN lastId + 1 ELSE seen.id
           new  == [id |-> id, status |-> "published", version |-> seen.version + 1,
                    body |-> tx[a].arg]
<1>1. /\ tx[a].pc = "write" /\ tx[a].op = "import"
      /\ CommitRow(a, new, Versioned(new.id, new.version, tx[a].arg), NoTx)
  BY DEF ImportWrite
<1>2. tx[a].arg \in Bodies /\ seen \in Rows /\ lastId \in Nat
  BY <1>1 DEF StoreInv, TxsOK, TxOK, Ops, Linted, StoreOK, RowsOK
<1>3. id \in Nat /\ seen.version + 1 \in Nat
  BY <1>2 DEF Rows
<1> QED BY <1>1, <1>2, <1>3, LiveKeeps DEF Rows

-----------------------------------------------------------------------------
LEMMA InitStoreInv == ConfigInit => StoreInv
<1> SUFFICES ASSUME ConfigInit PROVE StoreInv
  OBVIOUS
<1>1. NoObject \in Rows /\ NoObject.status = "none" /\ NoObject.id = 0
  BY DEF NoObject, Rows
<1>2. RowsOK
  BY <1>1 DEF ConfigInit, RowsOK, Exists
<1>3. HistoryOK /\ VersionLeads /\ ExactUnlessRaced
  BY <1>1 DEF ConfigInit, HistoryOK, NothingRefused, VersionsAreKept, VersionLeads,
              ExactUnlessRaced, ReplayIsExact
<1>4. TxsOK
  BY NoTxOK DEF ConfigInit, TxsOK
<1> QED BY <1>2, <1>3, <1>4 DEF StoreInv, StoreOK

LEMMA StepStoreInv == StoreInv /\ [ConfigNext]_configVars => StoreInv'
<1> SUFFICES ASSUME StoreInv, [ConfigNext]_configVars PROVE StoreInv'
  OBVIOUS
<1>1. CASE UNCHANGED configVars
  BY <1>1, StoreRests DEF configVars, StoreInv, TxsOK
<1>2. CASE \E o \in Objects : \/ \E b \in Bodies : CreateDraft(o, b)
                              \/ Archive(o) \/ Delete(o)
                              \/ \E h \in history : Revert(o, h)
  BY <1>2, CreateDraftKeeps, ArchiveKeeps, DeleteKeeps, RevertKeeps
<1>3. CASE \E a \in Admins : Begins(a)
  BY <1>3, BeginsKeep
<1>4. CASE \E a \in Admins : \/ UpdateWrite(a) \/ RestoreWrite(a)
                             \/ PublishWrite(a)
                             \/ CreateWrite(a) \/ ImportWrite(a)
  BY <1>4, UpdateWriteKeeps, RestoreWriteKeeps, PublishWriteKeeps, CreateWriteKeeps,
     ImportWriteKeeps
<1> QED BY <1>1, <1>2, <1>3, <1>4 DEF ConfigNext, Begins

LEMMA SpecStoreInv == ConfigSpec => []StoreInv
BY InitStoreInv, StepStoreInv, PTL DEF ConfigSpec

\* However many administrators read, lint and write at once: every version a
\* decision of the engines may name is in the history, under one body for good
\* that the linter accepted (publishConfigObject, updateConfigObject,
\* restoreConfigObject, applyImport and the toggle of a rule).
THEOREM ConfigHistoryIsSound == ConfigSpec => []HistoryIsSound
<1>1. StoreInv => HistoryIsSound
  BY DEF StoreInv, StoreOK, RowsOK, HistoryOK, TxsOK, TxOK, Ops, Versions, HistoryIsSound,
     ConfigTypeOK
<1> QED BY <1>1, SpecStoreInv, PTL

\* What the engines run is what was linted and is kept under its version, unless
\* somebody wrote over a row that had changed since it was read (publishWithin
\* takes the body the row has by then).
THEOREM ConfigExactUnlessRaced == ConfigSpec => []ExactUnlessRaced
<1>1. StoreInv => ExactUnlessRaced
  BY DEF StoreInv, StoreOK
<1> QED BY <1>1, SpecStoreInv, PTL
=============================================================================
