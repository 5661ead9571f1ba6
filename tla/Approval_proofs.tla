--------------------------- MODULE Approval_proofs ---------------------------
(***************************************************************************)
(* Approvals, for every definition, every set of users and groups, every    *)
(* set of concurrent requests and every bound.                               *)
(*                                                                          *)
(*   - A settled approval asks nothing of anybody and never changes again,  *)
(*     and a settled ticket keeps none but those that were started too      *)
(*     late.  This is about row locks (IInv).                               *)
(*   - A verdict is earned, is what the votes say, and while it is out      *)
(*     somebody can answer; a step is decided once.  This is about how      *)
(*     votes are counted and stages opened (JInv, which rests on IInv).      *)
(*                                                                          *)
(* The second part needs what the rounds of advance return.  They are a     *)
(* recursive function: its existence and its values are proved by           *)
(* induction for a set of numbers, NatSetInduction.                         *)
(***************************************************************************)
EXTENDS Approval, SequenceTheorems, FiniteSetTheorems, WellFoundedInduction, TLAPS

-----------------------------------------------------------------------------
(* Induction over the naturals, for a set instead of a predicate.           *)

LEMMA LeastNatural ==
    ASSUME NEW T \in SUBSET Nat, T # {}
    PROVE  \E m \in T : \A n \in T : m <= n
<1> DEFINE R == StrictSubsetOrdering(Nat)
           U == {1..n : n \in T}
<1>1. IsWellFoundedOn(R, FiniteSubsetsOf(Nat))
  BY FS_StrictSubsetOrderingWellFounded
<1>2. U \subseteq FiniteSubsetsOf(Nat) /\ U # {}
  <2>1. \A n \in T : IsFiniteSet(1..n) /\ 1..n \in SUBSET Nat
    BY FS_Interval
  <2> QED
    BY <2>1 DEF FiniteSubsetsOf
<1>3. PICK x \in U : \A y \in U : ~(<<y, x>> \in R)
  <2> HIDE DEF U, R
  <2> QED
    BY <1>1, <1>2, WFMin
<1>4. PICK m \in T : x = 1..m
  OBVIOUS
<1>5. ASSUME NEW n \in T, n < m PROVE FALSE
  <2>1. m \in 1..m /\ m \notin 1..n
    BY <1>5
  <2>2. 1..n \in SUBSET Nat /\ 1..m \in SUBSET Nat /\ 1..n \subseteq 1..m /\ 1..n # 1..m
    BY <1>5, <2>1
  <2>3. <<1..n, 1..m>> \in R
    BY <2>2 DEF StrictSubsetOrdering
  <2> QED
    BY <1>3, <1>4, <2>3
<1> QED
  BY <1>5

LEMMA NatSetInduction ==
    ASSUME NEW S, 0 \in S, \A n \in Nat : n \in S => n + 1 \in S
    PROVE  \A n \in Nat : n \in S
<1> SUFFICES ASSUME NEW k \in Nat, k \notin S PROVE FALSE
  OBVIOUS
<1> DEFINE T == Nat \ S
<1>1. PICK m \in T : \A n \in T : m <= n
  <2>1. T \in SUBSET Nat /\ T # {}
    OBVIOUS
  <2> HIDE DEF T
  <2> QED
    BY <2>1, LeastNatural
<1>2. m - 1 \in Nat /\ m - 1 \in S /\ (m - 1) + 1 = m
  BY <1>1
<1> QED
  BY <1>2

UpTo(P, n) == {p \in P : p <= n}

\* The m-th place of a set of places is there, and is one of them.
LEMMA NthPlace ==
    ASSUME NEW P \in SUBSET Nat, IsFiniteSet(P), NEW m \in 1..Cardinality(P)
    PROVE  Nth(P, m) \in P
<1> DEFINE S == {k \in Nat : k < Cardinality(P) => \E n \in P : Cardinality(UpTo(P, n)) = k + 1}
<1>0. Cardinality(P) \in Nat /\ \A p \in P : p \in Nat
  BY FS_CardinalityType
<1>1. 0 \in S
  <2> SUFFICES ASSUME 0 < Cardinality(P)
               PROVE  \E n \in P : Cardinality(UpTo(P, n)) = 1
    OBVIOUS
  <2>1. P # {}
    BY FS_EmptySet
  <2>2. PICK n \in P : \A p \in P : n <= p
    BY <2>1, LeastNatural
  <2>3. UpTo(P, n) = {n}
    <3>1. \A p \in P : p <= n <=> p = n
      BY <1>0, <2>2
    <3> QED
      BY <3>1, Zenon DEF UpTo
  <2> QED
    BY <2>3, FS_Singleton
<1>2. ASSUME NEW k \in Nat, k \in S PROVE k + 1 \in S
  <2> SUFFICES ASSUME k + 1 < Cardinality(P)
               PROVE  \E n \in P : Cardinality(UpTo(P, n)) = (k + 1) + 1
    OBVIOUS
  <2>1. PICK n \in P : Cardinality(UpTo(P, n)) = k + 1
    BY <1>2, <1>0
  <2> DEFINE Rest == {p \in P : p > n}
  <2>2. Rest # {}
    <3>1. SUFFICES ASSUME \A p \in P : ~(p > n) PROVE FALSE
      OBVIOUS
    <3>2. \A p \in P : p <= n
      BY <1>0, <3>1
    <3>3. UpTo(P, n) = P
      BY <3>2, Zenon DEF UpTo
    <3> QED
      BY <2>1, <3>3, <1>0
  <2>3. PICK q \in Rest : \A p \in Rest : q <= p
    <3>1. Rest \in SUBSET Nat
      OBVIOUS
    <3> HIDE DEF Rest
    <3> QED
      BY <2>2, <3>1, LeastNatural
  <2>4. UpTo(P, q) = UpTo(P, n) \cup {q} /\ q \notin UpTo(P, n) /\ q \in P
    <3>1. q \in P /\ ~(q <= n) /\ n \in P
      BY <1>0, <2>3
    <3>2. \A p \in P : p <= q <=> p <= n \/ p = q
      BY <1>0, <2>3
    <3> QED
      BY <3>1, <3>2, Zenon DEF UpTo
  <2>5. IsFiniteSet(UpTo(P, n))
    BY FS_Subset DEF UpTo
  <2>6. Cardinality(UpTo(P, q)) = Cardinality(UpTo(P, n)) + 1
    BY <2>4, <2>5, FS_AddElement
  <2> QED
    BY <2>1, <2>4, <2>6
<1>3. m - 1 \in S
  <2> HIDE DEF S
  <2> QED
    BY <1>0, <1>1, <1>2, NatSetInduction
<1>4. \E n \in P : Cardinality(UpTo(P, n)) = m
  BY <1>0, <1>3
<1> QED
  BY <1>4 DEF Nth, UpTo
-----------------------------------------------------------------------------
(* Votes and the bar.                                                       *)

StepRec(spec) == [stage : 1..Len(spec), who : Users \cup Groups, state : StepStates,
                  due : BOOLEAN, timedOut : BOOLEAN]

Steps(spec) == Seq(StepRec(spec))

LEMMA SpecType ==
    ASSUME NEW spec \in Specs
    PROVE  /\ spec \in Seq(Stage) /\ DOMAIN spec = 1..Len(spec)
           /\ Len(spec) \in Nat /\ Len(spec) > 0
           /\ \A i \in DOMAIN spec :
                 /\ spec[i] \in Stage /\ spec[i].quorum \in Nat \ {0}
                 /\ spec[i].approvers \in Seq(Users \cup Groups)
                 /\ Len(spec[i].approvers) \in Nat \ {0}
                 /\ DOMAIN spec[i].approvers = 1..Len(spec[i].approvers)
                 /\ spec[i].due \in BOOLEAN
                 /\ \A m, n \in DOMAIN spec[i].approvers :
                       spec[i].approvers[m] = spec[i].approvers[n] => m = n
<1>1. /\ spec \in Seq(Stage) /\ spec # <<>>
      /\ \A i \in DOMAIN spec :
           /\ spec[i].approvers # <<>>
           /\ \A m, n \in DOMAIN spec[i].approvers :
                 spec[i].approvers[m] = spec[i].approvers[n] => m = n
  BY ApprovalAssumption
<1>2. Len(spec) \in Nat /\ DOMAIN spec = 1..Len(spec) /\ Len(spec) > 0
  BY <1>1, EmptySeq, LenProperties
<1>3. ASSUME NEW i \in DOMAIN spec
      PROVE  /\ spec[i] \in Stage /\ spec[i].quorum \in Nat \ {0}
             /\ spec[i].approvers \in Seq(Users \cup Groups) /\ spec[i].due \in BOOLEAN
  <2>1. spec[i] \in Stage
    BY <1>1, <1>2, ElementOfSeq
  <2> QED
    BY <2>1 DEF Stage
<1>4. ASSUME NEW i \in DOMAIN spec
      PROVE  /\ Len(spec[i].approvers) \in Nat \ {0}
             /\ DOMAIN spec[i].approvers = 1..Len(spec[i].approvers)
  BY <1>1, <1>3, EmptySeq, LenProperties
<1> QED
  BY <1>1, <1>2, <1>3, <1>4

LEMMA PlacesFinite ==
    ASSUME NEW X, NEW steps \in Seq(X), NEW T \in SUBSET DOMAIN steps
    PROVE  IsFiniteSet(T) /\ Cardinality(T) \in Nat /\ T \in SUBSET Nat
<1>1. DOMAIN steps = 1..Len(steps) /\ Len(steps) \in Nat
  BY LenProperties
<1>2. IsFiniteSet(DOMAIN steps)
  BY <1>1, FS_Interval
<1> QED
  BY <1>1, <1>2, FS_Subset, FS_CardinalityType

Voted(steps, i, state) == {k \in Live(steps, i) : steps[k].state = state}

\* Every row that is not cancelled is pending or a vote.
LEMMA VotesAddUp ==
    ASSUME NEW spec, NEW steps \in Steps(spec), NEW i
    PROVE  /\ Votes(steps, i, "approved") \in Nat /\ Votes(steps, i, "rejected") \in Nat
           /\ Votes(steps, i, "pending") \in Nat /\ Cardinality(Live(steps, i)) \in Nat
           /\ Cardinality(Live(steps, i)) = Votes(steps, i, "approved")
                  + Votes(steps, i, "rejected") + Votes(steps, i, "pending")
<1> DEFINE A == Voted(steps, i, "approved")
           R == Voted(steps, i, "rejected")
           P == Voted(steps, i, "pending")
           L == Live(steps, i)
<1>1. \A T \in SUBSET DOMAIN steps : IsFiniteSet(T) /\ Cardinality(T) \in Nat
  BY PlacesFinite DEF Steps
<1>2. L \in SUBSET DOMAIN steps /\ A \in SUBSET L /\ R \in SUBSET L /\ P \in SUBSET L
  BY DEF Live, Voted
<1>3. L = (A \cup R) \cup P /\ A \cap R = {} /\ (A \cup R) \cap P = {}
  <2>1. \A k \in L : steps[k].state \in {"approved", "rejected", "pending"}
    <3>1. SUFFICES ASSUME NEW k \in L PROVE steps[k].state \in {"approved", "rejected", "pending"}
      OBVIOUS
    <3>2. k \in DOMAIN steps /\ steps[k].state # "cancelled"
      BY DEF Live
    <3>3. steps[k] \in StepRec(spec)
      BY <3>2, LenProperties, ElementOfSeq DEF Steps
    <3> QED
      BY <3>2, <3>3 DEF StepRec, StepStates
  <2>2. /\ \A k \in A : k \in L /\ steps[k].state = "approved"
        /\ \A k \in R : k \in L /\ steps[k].state = "rejected"
        /\ \A k \in P : k \in L /\ steps[k].state = "pending"
        /\ \A k \in L : /\ steps[k].state = "approved" => k \in A
                        /\ steps[k].state = "rejected" => k \in R
                        /\ steps[k].state = "pending" => k \in P
    BY DEF Voted
  <2> HIDE DEF A, R, P, L
  <2> QED
    BY <2>1, <2>2
<1> HIDE DEF A, R, P, L
<1>4. Cardinality(L) = Cardinality(A) + Cardinality(R) + Cardinality(P)
  <2>1. /\ IsFiniteSet(A) /\ IsFiniteSet(R) /\ IsFiniteSet(P) /\ IsFiniteSet(A \cup R)
        /\ Cardinality(A) \in Nat /\ Cardinality(R) \in Nat /\ Cardinality(P) \in Nat
    BY <1>1, <1>2
  <2>2. Cardinality(A \cup R) = Cardinality(A) + Cardinality(R)
    <3>1. Cardinality(A \cup R) = Cardinality(A) + Cardinality(R) - Cardinality(A \cap R)
      BY <2>1, FS_Union
    <3>2. Cardinality(A \cap R) = 0
      BY <1>3, FS_EmptySet
    <3> QED
      BY <2>1, <3>1, <3>2
  <2>3. Cardinality((A \cup R) \cup P) = Cardinality(A \cup R) + Cardinality(P)
    <3>1. Cardinality((A \cup R) \cup P)
             = Cardinality(A \cup R) + Cardinality(P) - Cardinality((A \cup R) \cap P)
      BY <2>1, FS_Union
    <3>2. Cardinality((A \cup R) \cap P) = 0
      BY <1>3, FS_EmptySet
    <3> QED
      BY <2>1, <2>2, <3>1, <3>2
  <2> QED
    BY <1>3, <2>2, <2>3
<1>5. /\ Votes(steps, i, "approved") = Cardinality(A)
      /\ Votes(steps, i, "rejected") = Cardinality(R)
      /\ Votes(steps, i, "pending") = Cardinality(P)
  BY DEF Votes, Voted, A, R, P
<1> QED
  BY <1>1, <1>2, <1>4, <1>5 DEF L

\* The bar of a stage with n approvers or rows.
Bar(spec, i, n) == IF spec[i].mode = "quorum" THEN Smaller(spec[i].quorum, n) ELSE n

LEMMA BarFacts ==
    ASSUME NEW spec \in Specs, NEW i \in DOMAIN spec, NEW n \in Nat
    PROVE  /\ Bar(spec, i, n) \in Nat /\ Bar(spec, i, n) <= n
           /\ n > 0 => Bar(spec, i, n) > 0
           /\ \A m \in Nat : m <= n => /\ Bar(spec, i, m) <= Bar(spec, i, n)
                                       /\ m - Bar(spec, i, m) <= n - Bar(spec, i, n)
<1>1. spec[i].quorum \in Nat \ {0}
  BY SpecType
<1> QED
  BY <1>1 DEF Bar, Smaller

LEMMA TotalFacts ==
    ASSUME NEW spec \in Specs, NEW i \in DOMAIN spec, NEW steps \in Steps(spec)
    PROVE  /\ Total(spec, steps, i) \in Nat \ {0}
           /\ Len(spec[i].approvers) <= Total(spec, steps, i)
           /\ Cardinality(Live(steps, i)) <= Total(spec, steps, i)
           /\ Total(spec, steps, i) \in {Len(spec[i].approvers), Cardinality(Live(steps, i))}
           /\ Required(spec, steps, i) = Bar(spec, i, Total(spec, steps, i))
<1>1. Len(spec[i].approvers) \in Nat \ {0} /\ Cardinality(Live(steps, i)) \in Nat
  BY SpecType, VotesAddUp
<1> QED
  BY <1>1 DEF Total, Larger, Required, Bar

-----------------------------------------------------------------------------
(* Stages and the verdict.                                                  *)

LEMMA StageVerdictFacts ==
    ASSUME NEW spec \in Specs, NEW i \in DOMAIN spec, NEW steps \in Steps(spec)
    PROVE  LET a == Votes(steps, i, "approved")
               r == Votes(steps, i, "rejected")
               t == Total(spec, steps, i)
               q == Bar(spec, i, t)
           IN  /\ StageVerdict(spec, steps, i) = "approved" <=> a >= q
               /\ StageVerdict(spec, steps, i) = "rejected" <=> a < q /\ r > t - q
               /\ StageVerdict(spec, steps, i) = "pending"  <=> a < q /\ ~(r > t - q)
               /\ StageVerdict(spec, steps, i) \in {"approved", "rejected", "pending"}
<1>1. /\ Votes(steps, i, "approved") \in Nat /\ Votes(steps, i, "rejected") \in Nat
      /\ Total(spec, steps, i) \in Nat /\ Bar(spec, i, Total(spec, steps, i)) \in Nat
      /\ Required(spec, steps, i) = Bar(spec, i, Total(spec, steps, i))
  BY VotesAddUp, TotalFacts, BarFacts
<1>2. CASE Votes(steps, i, "approved") >= Required(spec, steps, i)
  BY <1>1, <1>2 DEF StageVerdict
<1>3. CASE /\ Votes(steps, i, "approved") < Required(spec, steps, i)
           /\ Votes(steps, i, "rejected") > Total(spec, steps, i) - Required(spec, steps, i)
  BY <1>1, <1>3 DEF StageVerdict
<1>4. CASE /\ Votes(steps, i, "approved") < Required(spec, steps, i)
           /\ ~(Votes(steps, i, "rejected") > Total(spec, steps, i) - Required(spec, steps, i))
  BY <1>1, <1>4 DEF StageVerdict
<1> QED
  BY <1>1, <1>2, <1>3, <1>4

\* Stage i is the first that is not approved.
IsActive(spec, steps, i) ==
    /\ i <= Len(spec) => StageVerdict(spec, steps, i) # "approved"
    /\ \A j \in 1..(i - 1) : StageVerdict(spec, steps, j) = "approved"

LEMMA ActiveStageFacts ==
    ASSUME NEW spec \in Specs, NEW steps
    PROVE  /\ ActiveStage(spec, steps) \in 1..(Len(spec) + 1)
           /\ IsActive(spec, steps, ActiveStage(spec, steps))
           /\ \A i \in 1..(Len(spec) + 1) :
                 IsActive(spec, steps, i) => ActiveStage(spec, steps) = i
<1>1. Len(spec) \in Nat
  BY SpecType
<1>2. \E i \in 1..(Len(spec) + 1) : IsActive(spec, steps, i)
  <2> DEFINE T == {i \in 1..(Len(spec) + 1) :
                      i <= Len(spec) => StageVerdict(spec, steps, i) # "approved"}
  <2>1. Len(spec) + 1 \in T
    BY <1>1
  <2>2. PICK m \in T : \A n \in T : m <= n
    <3>1. T \in SUBSET Nat /\ T # {}
      BY <1>1, <2>1
    <3> HIDE DEF T
    <3> QED
      BY <3>1, LeastNatural
  <2>3. ASSUME NEW j \in 1..(m - 1) PROVE StageVerdict(spec, steps, j) = "approved"
    BY <1>1, <2>2
  <2> QED
    BY <2>2, <2>3 DEF IsActive
<1>3. /\ ActiveStage(spec, steps) \in 1..(Len(spec) + 1)
      /\ IsActive(spec, steps, ActiveStage(spec, steps))
  <2>1. ActiveStage(spec, steps) = CHOOSE i \in 1..(Len(spec) + 1) : IsActive(spec, steps, i)
    BY DEF ActiveStage, IsActive
  <2> QED
    BY <1>2, <2>1
<1>4. ASSUME NEW i \in 1..(Len(spec) + 1), NEW j \in 1..(Len(spec) + 1),
             IsActive(spec, steps, i), IsActive(spec, steps, j)
      PROVE  ~(i < j)
  BY <1>1, <1>4 DEF IsActive
<1> QED
  BY <1>1, <1>3, <1>4

LEMMA VerdictFacts ==
    ASSUME NEW spec \in Specs, NEW steps \in Steps(spec)
    PROVE  LET i == ActiveStage(spec, steps)
           IN  /\ Verdict(spec, steps) \in {"approved", "rejected", "pending"}
               /\ Verdict(spec, steps) = "approved" <=> i = Len(spec) + 1
               /\ Verdict(spec, steps) # "approved" =>
                      i \in DOMAIN spec /\ StageVerdict(spec, steps, i) = Verdict(spec, steps)
<1> DEFINE i == ActiveStage(spec, steps)
<1>1. Len(spec) \in Nat /\ DOMAIN spec = 1..Len(spec) /\ i \in 1..(Len(spec) + 1)
  BY SpecType, ActiveStageFacts
<1>2. i \in DOMAIN spec => /\ StageVerdict(spec, steps, i) # "approved"
                           /\ StageVerdict(spec, steps, i) \in {"approved", "rejected", "pending"}
  <2>1. IsActive(spec, steps, i)
    BY ActiveStageFacts
  <2> HIDE DEF i
  <2> QED
    BY <1>1, <2>1, StageVerdictFacts DEF IsActive
<1>3. Verdict(spec, steps) = IF i > Len(spec) THEN "approved" ELSE StageVerdict(spec, steps, i)
  BY DEF Verdict
<1> HIDE DEF i
<1>4. CASE i > Len(spec)
  BY <1>1, <1>3, <1>4 DEF i
<1>5. CASE i \in DOMAIN spec
  BY <1>1, <1>2, <1>3, <1>5 DEF i
<1> QED
  BY <1>1, <1>4, <1>5

\* The verdict stays when the stages up to the active one keep theirs.
LEMMA VerdictStays ==
    ASSUME NEW spec \in Specs, NEW steps \in Steps(spec), NEW new \in Steps(spec),
           \A j \in DOMAIN spec :
              /\ StageVerdict(spec, steps, j) = "approved" =>
                    StageVerdict(spec, new, j) = "approved"
              /\ j = ActiveStage(spec, steps) =>
                    StageVerdict(spec, new, j) = StageVerdict(spec, steps, j)
    PROVE  /\ ActiveStage(spec, new) = ActiveStage(spec, steps)
           /\ Verdict(spec, new) = Verdict(spec, steps)
<1> DEFINE i == ActiveStage(spec, steps)
<1>1. Len(spec) \in Nat /\ DOMAIN spec = 1..Len(spec) /\ i \in 1..(Len(spec) + 1)
      /\ IsActive(spec, steps, i)
  BY SpecType, ActiveStageFacts
<1>2. IsActive(spec, new, i)
  <2> HIDE DEF i
  <2>1. i <= Len(spec) => StageVerdict(spec, new, i) # "approved"
    BY <1>1 DEF IsActive, i
  <2>2. \A j \in 1..(i - 1) : StageVerdict(spec, new, j) = "approved"
    BY <1>1 DEF IsActive
  <2> QED
    BY <2>1, <2>2 DEF IsActive
<1>3. ActiveStage(spec, new) = i
  BY <1>1, <1>2, ActiveStageFacts
<1>4. i \in DOMAIN spec => StageVerdict(spec, new, i) = StageVerdict(spec, steps, i)
  OBVIOUS
<1> QED
  BY <1>1, <1>3, <1>4 DEF Verdict

-----------------------------------------------------------------------------
(* What is withdrawn when an approval is settled does not change it.        *)

LEMMA WithdrawSteps ==
    ASSUME NEW spec, NEW steps \in Steps(spec)
    PROVE  /\ Withdraw(steps) \in Steps(spec)
           /\ DOMAIN Withdraw(steps) = DOMAIN steps
           /\ \A k \in DOMAIN steps :
                 /\ Withdraw(steps)[k].stage = steps[k].stage
                 /\ steps[k].state # "pending" => Withdraw(steps)[k] = steps[k]
                 /\ steps[k].state = "pending" => Withdraw(steps)[k].state = "cancelled"
<1> DEFINE new == Withdraw(steps)
<1>1. /\ DOMAIN steps = 1..Len(steps) /\ Len(steps) \in Nat
      /\ \A k \in DOMAIN steps : steps[k] \in StepRec(spec)
  BY LenProperties, ElementOfSeq DEF Steps
<1>2. new = [k \in DOMAIN steps |->
                IF steps[k].state = "pending" THEN Closed(steps[k], "cancelled") ELSE steps[k]]
  BY DEF Withdraw
<1>3. ASSUME NEW k \in DOMAIN steps
      PROVE  /\ Closed(steps[k], "cancelled") \in StepRec(spec)
             /\ Closed(steps[k], "cancelled").stage = steps[k].stage
             /\ Closed(steps[k], "cancelled").state = "cancelled"
  BY <1>1 DEF Closed, StepRec, StepStates
<1> HIDE DEF new
<1>4. \A k \in DOMAIN steps : new[k] \in StepRec(spec)
  BY <1>1, <1>2, <1>3
<1>5. new \in [1..Len(steps) -> StepRec(spec)]
  BY <1>1, <1>2, <1>4
<1>6. new \in Steps(spec)
  BY <1>1, <1>5, SeqDef DEF Steps
<1> QED
  BY <1>2, <1>3, <1>6 DEF new

LEMMA WithdrawStage ==
    ASSUME NEW spec \in Specs, NEW steps \in Steps(spec), NEW i \in DOMAIN spec,
           StageVerdict(spec, steps, i) # "pending"
    PROVE  StageVerdict(spec, Withdraw(steps), i) = StageVerdict(spec, steps, i)
<1> DEFINE new == Withdraw(steps)
<1>1. /\ new \in Steps(spec) /\ DOMAIN new = DOMAIN steps
      /\ \A k \in DOMAIN steps : /\ new[k].stage = steps[k].stage
                                 /\ steps[k].state # "pending" => new[k] = steps[k]
                                 /\ steps[k].state = "pending" => new[k].state = "cancelled"
  BY WithdrawSteps
<1> HIDE DEF new
<1>2. Live(new, i) \subseteq Live(steps, i)
  BY <1>1 DEF Live
<1>3. Cardinality(Live(new, i)) <= Cardinality(Live(steps, i))
  <2>1. IsFiniteSet(Live(steps, i))
    BY PlacesFinite DEF Live, Steps
  <2> QED
    BY <1>2, <2>1, FS_Subset
<1>4. ASSUME NEW v \in {"approved", "rejected"} PROVE Votes(new, i, v) = Votes(steps, i, v)
  <2>1. Voted(new, i, v) = Voted(steps, i, v)
    <3>1. ASSUME NEW k \in DOMAIN steps
          PROVE  new[k].stage = i /\ new[k].state = v <=> steps[k].stage = i /\ steps[k].state = v
      BY <1>1
    <3> QED
      BY <1>1, <3>1 DEF Voted, Live
  <2> QED
    BY <2>1 DEF Votes, Voted
<1> DEFINE n  == Len(spec[i].approvers)
           a  == Votes(steps, i, "approved")
           r  == Votes(steps, i, "rejected")
           t  == Total(spec, steps, i)
           t2 == Total(spec, new, i)
<1>5. t2 <= t
  BY <1>1, <1>3, SpecType, VotesAddUp DEF Total, Larger
<1>6. /\ a \in Nat /\ r \in Nat /\ t \in Nat /\ t2 \in Nat
      /\ Bar(spec, i, t) \in Nat /\ Bar(spec, i, t2) \in Nat
      /\ Bar(spec, i, t2) <= Bar(spec, i, t)
      /\ t2 - Bar(spec, i, t2) <= t - Bar(spec, i, t)
      /\ a + r <= t2
  <2>1. a \in Nat /\ r \in Nat /\ t \in Nat /\ t2 \in Nat
    BY <1>1, VotesAddUp, TotalFacts
  <2>2. a + r <= t2
    <3>1. /\ Votes(new, i, "pending") \in Nat /\ Cardinality(Live(new, i)) \in Nat
          /\ Cardinality(Live(new, i)) = a + r + Votes(new, i, "pending")
      BY <1>1, <1>4, VotesAddUp
    <3>2. Cardinality(Live(new, i)) <= t2
      BY <1>1, TotalFacts
    <3> HIDE DEF a, r, t2
    <3> QED
      BY <2>1, <3>1, <3>2
  <2> HIDE DEF a, r, t, t2
  <2> QED
    BY <1>5, <2>1, <2>2, BarFacts
<1>7. /\ StageVerdict(spec, steps, i) = "approved" <=> a >= Bar(spec, i, t)
      /\ StageVerdict(spec, steps, i) = "rejected" <=>
            a < Bar(spec, i, t) /\ r > t - Bar(spec, i, t)
      /\ StageVerdict(spec, steps, i) \in {"approved", "rejected", "pending"}
  BY StageVerdictFacts
<1>8. /\ StageVerdict(spec, new, i) = "approved" <=> a >= Bar(spec, i, t2)
      /\ StageVerdict(spec, new, i) = "rejected" <=>
            a < Bar(spec, i, t2) /\ r > t2 - Bar(spec, i, t2)
      /\ StageVerdict(spec, new, i) \in {"approved", "rejected", "pending"}
  BY <1>1, <1>4, StageVerdictFacts
<1> HIDE DEF a, r, t, t2
<1>9. CASE a >= Bar(spec, i, t)
  BY <1>6, <1>7, <1>8, <1>9 DEF new
<1>10. CASE a < Bar(spec, i, t) /\ r > t - Bar(spec, i, t)
  BY <1>6, <1>7, <1>8, <1>10 DEF new
<1> QED
  BY <1>6, <1>7, <1>9, <1>10

LEMMA WithdrawVerdict ==
    ASSUME NEW spec \in Specs, NEW steps \in Steps(spec), Verdict(spec, steps) # "pending"
    PROVE  Verdict(spec, Withdraw(steps)) = Verdict(spec, steps)
<1>1. Withdraw(steps) \in Steps(spec)
  BY WithdrawSteps
<1>2. ASSUME NEW j \in DOMAIN spec
      PROVE  /\ StageVerdict(spec, steps, j) = "approved" =>
                    StageVerdict(spec, Withdraw(steps), j) = "approved"
             /\ j = ActiveStage(spec, steps) =>
                    StageVerdict(spec, Withdraw(steps), j) = StageVerdict(spec, steps, j)
  <2>1. j = ActiveStage(spec, steps) => StageVerdict(spec, steps, j) # "pending"
    <3>1. Len(spec) \in Nat /\ DOMAIN spec = 1..Len(spec)
      BY SpecType
    <3> QED
      BY <3>1, VerdictFacts
  <2> QED
    BY <2>1, WithdrawStage
<1> QED
  BY <1>1, <1>2, VerdictStays

-----------------------------------------------------------------------------
(* A round of advance asks somebody, and leaves the verdict open.           *)

\* The rows of an approval that is still open.
OpenSteps(spec) == {s \in Steps(spec) : \A k \in DOMAIN s : s[k].state # "cancelled"}

\* Steps are added, never taken away or changed.
Extends(old, new) == \A k \in DOMAIN old : k \in DOMAIN new /\ new[k] = old[k]

AsksSomebody(spec, steps) ==
    \E k \in DOMAIN steps : /\ steps[k].state = "pending"
                            /\ steps[k].stage = ActiveStage(spec, steps)

LEMMA AskedFacts ==
    ASSUME NEW spec \in Specs, NEW steps, NEW i \in DOMAIN spec
    PROVE  /\ Asked(spec, steps, i) \in SUBSET DOMAIN spec[i].approvers
           /\ IsFiniteSet(Asked(spec, steps, i)) /\ Asked(spec, steps, i) \in SUBSET Nat
           /\ Cardinality(Asked(spec, steps, i)) \in Nat
           /\ Cardinality(Asked(spec, steps, i)) = 0 => Asked(spec, steps, i) = {}
<1>1. spec[i].approvers \in Seq(Users \cup Groups)
  BY SpecType
<1>2. Asked(spec, steps, i) \in SUBSET DOMAIN spec[i].approvers
  BY DEF Asked
<1> QED
  BY <1>1, <1>2, PlacesFinite, FS_EmptySet

\* What the rows of a round look like.
LEMMA MaterializeSteps ==
    ASSUME NEW spec \in Specs, NEW steps \in Steps(spec),
           ActiveStage(spec, steps) \in DOMAIN spec
    PROVE  LET i   == ActiveStage(spec, steps)
               new == Materialize(spec, steps)
               n   == Cardinality(Asked(spec, steps, i))
           IN  /\ new \in Steps(spec) /\ Extends(steps, new)
               /\ DOMAIN new = 1..(Len(steps) + n)
               /\ \A k \in DOMAIN new \ DOMAIN steps : new[k].stage = i /\ new[k].state = "pending"
<1> DEFINE i     == ActiveStage(spec, steps)
           n     == Cardinality(Asked(spec, steps, i))
           rows  == [m \in 1..n |->
                        NewStep(spec, i, spec[i].approvers[Nth(Asked(spec, steps, i), m)])]
           new   == Materialize(spec, steps)
<1>1. new = steps \o rows
  BY DEF Materialize
<1>2. n \in Nat /\ Len(steps) \in Nat /\ DOMAIN steps = 1..Len(steps)
  BY AskedFacts, LenProperties DEF Steps
<1>3. ASSUME NEW m \in 1..n
      PROVE  /\ rows[m] \in StepRec(spec) /\ rows[m].stage = i /\ rows[m].state = "pending"
  <2> DEFINE who == spec[i].approvers[Nth(Asked(spec, steps, i), m)]
  <2>1. who \in Users \cup Groups
    <3>1. Nth(Asked(spec, steps, i), m) \in DOMAIN spec[i].approvers
      BY AskedFacts, NthPlace
    <3>2. /\ spec[i].approvers \in Seq(Users \cup Groups)
          /\ DOMAIN spec[i].approvers = 1..Len(spec[i].approvers)
      BY SpecType
    <3> QED
      BY <3>1, <3>2, ElementOfSeq
  <2>2. rows[m] = NewStep(spec, i, who)
    OBVIOUS
  <2>3. i \in 1..Len(spec) /\ spec[i].due \in BOOLEAN
    BY SpecType
  <2> HIDE DEF rows, who, i
  <2> QED
    BY <2>1, <2>2, <2>3 DEF NewStep, StepRec, StepStates
<1>4. rows \in Seq(StepRec(spec)) /\ Len(rows) = n
  <2>1. rows \in [1..n -> StepRec(spec)]
    BY <1>3
  <2> HIDE DEF rows, n
  <2>2. rows \in Seq(StepRec(spec))
    BY <1>2, <2>1, SeqDef
  <2> QED
    BY <1>2, <2>1, <2>2, LenProperties
<1> HIDE DEF rows, n, new, i
<1>5. /\ new \in Seq(StepRec(spec)) /\ Len(new) = Len(steps) + n
      /\ \A k \in 1..(Len(steps) + n) :
            new[k] = IF k <= Len(steps) THEN steps[k] ELSE rows[k - Len(steps)]
  BY <1>1, <1>4, ConcatProperties DEF Steps
<1>6. DOMAIN new = 1..(Len(steps) + n)
  BY <1>5, LenProperties
<1>7. Extends(steps, new)
  BY <1>2, <1>5, <1>6 DEF Extends
<1>8. ASSUME NEW k \in DOMAIN new \ DOMAIN steps
      PROVE  new[k].stage = i /\ new[k].state = "pending"
  <2>1. k - Len(steps) \in 1..n /\ new[k] = rows[k - Len(steps)]
    BY <1>2, <1>5, <1>6
  <2> QED
    BY <1>3, <2>1
<1> QED
  BY <1>5, <1>6, <1>7, <1>8 DEF Steps, new, i, n

\* More rows in a stage that is pending leave it so; other stages see nothing.
LEMMA MaterializeVerdict ==
    ASSUME NEW spec \in Specs, NEW steps \in Steps(spec), Verdict(spec, steps) = "pending"
    PROVE  LET new == Materialize(spec, steps)
           IN  /\ Verdict(spec, new) = "pending"
               /\ ActiveStage(spec, new) = ActiveStage(spec, steps)
<1> DEFINE i   == ActiveStage(spec, steps)
           new == Materialize(spec, steps)
<1>1. i \in DOMAIN spec /\ StageVerdict(spec, steps, i) = "pending"
  BY VerdictFacts
<1>2. /\ new \in Steps(spec) /\ Extends(steps, new)
      /\ \A k \in DOMAIN new \ DOMAIN steps : new[k].stage = i /\ new[k].state = "pending"
  BY <1>1, MaterializeSteps
<1> HIDE DEF new, i
<1>3. ASSUME NEW j \in DOMAIN spec, j # i
      PROVE  StageVerdict(spec, new, j) = StageVerdict(spec, steps, j)
  <2>1. Live(new, j) = Live(steps, j)
    BY <1>2, <1>3 DEF Live, Extends
  <2>2. \A v : {k \in Live(new, j) : new[k].state = v} = {k \in Live(steps, j) : steps[k].state = v}
    BY <1>2, <2>1 DEF Live, Extends
  <2>3. \A v : Votes(new, j, v) = Votes(steps, j, v)
    BY <2>2 DEF Votes
  <2> QED
    BY <2>1, <2>3 DEF StageVerdict, Required, Total
<1>4. StageVerdict(spec, new, i) = "pending"
  <2>1. ASSUME NEW v \in {"approved", "rejected"} PROVE Votes(new, i, v) = Votes(steps, i, v)
    <3>1. {k \in Live(new, i) : new[k].state = v} = {k \in Live(steps, i) : steps[k].state = v}
      BY <1>2 DEF Live, Extends
    <3> QED
      BY <3>1 DEF Votes
  <2>2. Cardinality(Live(steps, i)) <= Cardinality(Live(new, i))
    <3>1. Live(steps, i) \subseteq Live(new, i)
      BY <1>2 DEF Live, Extends
    <3>2. IsFiniteSet(Live(new, i))
      BY <1>2, PlacesFinite DEF Live, Steps
    <3> QED
      BY <3>1, <3>2, FS_Subset
  <2> DEFINE a  == Votes(steps, i, "approved")
             r  == Votes(steps, i, "rejected")
             t  == Total(spec, steps, i)
             t2 == Total(spec, new, i)
  <2>3. t <= t2
    BY <1>1, <1>2, <2>2, SpecType, VotesAddUp DEF Total, Larger
  <2>4. a \in Nat /\ r \in Nat /\ t \in Nat /\ t2 \in Nat
    BY <1>1, <1>2, VotesAddUp, TotalFacts
  <2>5. a < Bar(spec, i, t) /\ ~(r > t - Bar(spec, i, t))
    BY <1>1, StageVerdictFacts
  <2>6. StageVerdict(spec, new, i) = "pending" <=>
           a < Bar(spec, i, t2) /\ ~(r > t2 - Bar(spec, i, t2))
    BY <1>1, <1>2, <2>1, StageVerdictFacts
  <2> HIDE DEF a, r, t, t2
  <2>7. /\ Bar(spec, i, t) \in Nat /\ Bar(spec, i, t2) \in Nat
        /\ Bar(spec, i, t) <= Bar(spec, i, t2)
        /\ t - Bar(spec, i, t) <= t2 - Bar(spec, i, t2)
    BY <1>1, <2>3, <2>4, BarFacts
  <2> QED
    BY <2>4, <2>5, <2>6, <2>7
<1>5. \A j \in DOMAIN spec :
         /\ StageVerdict(spec, steps, j) = "approved" => StageVerdict(spec, new, j) = "approved"
         /\ j = ActiveStage(spec, steps) =>
               StageVerdict(spec, new, j) = StageVerdict(spec, steps, j)
  BY <1>1, <1>3, <1>4 DEF i
<1> QED
  BY <1>2, <1>5, VerdictStays DEF new, i

\* When nobody is left to be asked, there is a row for each approver.
LEMMA EveryApproverHasARow ==
    ASSUME NEW spec \in Specs, NEW steps \in OpenSteps(spec), NEW i \in DOMAIN spec,
           Asked(spec, steps, i) = {}
    PROVE  Len(spec[i].approvers) <= Cardinality(Live(steps, i))
<1> DEFINE all  == spec[i].approvers
           rows == Live(steps, i)
           c    == Cardinality(rows)
<1>1. /\ Len(all) \in Nat /\ DOMAIN all = 1..Len(all)
      /\ \A m, n \in DOMAIN all : all[m] = all[n] => m = n
  BY SpecType
<1>2. /\ steps \in Steps(spec) /\ c \in Nat /\ IsFiniteSet(rows)
      /\ rows = {k \in DOMAIN steps : steps[k].stage = i}
  <2>1. steps \in Steps(spec)
    BY DEF OpenSteps
  <2>2. rows = {k \in DOMAIN steps : steps[k].stage = i}
    BY DEF Live, OpenSteps
  <2> QED
    BY <2>1, <2>2, PlacesFinite DEF Steps
<1>3. ASSUME NEW m \in DOMAIN all, m <= c + 1
      PROVE  \E k \in rows : steps[k].who = all[m]
  <2>1. m \notin Asked(spec, steps, i)
    OBVIOUS
  <2> HIDE DEF rows
  <2> QED
    BY <1>2, <1>3, <2>1 DEF Asked
<1> SUFFICES ASSUME c < Len(all) PROVE FALSE
  BY <1>1, <1>2
<1> DEFINE D == 1..(c + 1)
           f == [m \in D |-> CHOOSE k \in rows : steps[k].who = all[m]]
<1> HIDE DEF all, rows, c
<1>4. \A m \in D : m \in DOMAIN all /\ f[m] \in rows /\ steps[f[m]].who = all[m]
  <2> TAKE m \in D
  <2>1. m \in DOMAIN all /\ m <= c + 1
    BY <1>1, <1>2
  <2>2. \E k \in rows : steps[k].who = all[m]
    BY <1>3, <2>1
  <2> QED
    BY <2>1, <2>2
<1>5. f \in [D -> rows]
  BY <1>4
<1>6. IsFiniteSet(D) /\ Cardinality(D) = c + 1
  BY <1>2, FS_Interval
<1> HIDE DEF D, f
<1>7. PICK x, y \in D : x # y /\ f[x] = f[y]
  BY <1>2, <1>5, <1>6, FS_PigeonHole DEF c
<1> QED
  BY <1>1, <1>4, <1>7

LEMMA MaterializeAsks ==
    ASSUME NEW spec \in Specs, NEW steps \in OpenSteps(spec), Verdict(spec, steps) = "pending"
    PROVE  AsksSomebody(spec, Materialize(spec, steps))
<1> DEFINE i   == ActiveStage(spec, steps)
           new == Materialize(spec, steps)
           n   == Cardinality(Asked(spec, steps, i))
<1>0. steps \in Steps(spec)
  BY DEF OpenSteps
<1>1. i \in DOMAIN spec /\ StageVerdict(spec, steps, i) = "pending"
  BY <1>0, VerdictFacts
<1>2. /\ Extends(steps, new) /\ ActiveStage(spec, new) = i
      /\ DOMAIN new = 1..(Len(steps) + n)
      /\ \A k \in DOMAIN new \ DOMAIN steps : new[k].stage = i /\ new[k].state = "pending"
  BY <1>0, <1>1, MaterializeSteps, MaterializeVerdict
<1>3. /\ n \in Nat /\ Len(steps) \in Nat /\ DOMAIN steps = 1..Len(steps)
      /\ n = 0 => Asked(spec, steps, i) = {}
  BY <1>0, <1>1, AskedFacts, LenProperties DEF Steps
<1> HIDE DEF i, new, n
<1>4. CASE n > 0
  <2>1. Len(steps) + 1 \in DOMAIN new \ DOMAIN steps
    BY <1>2, <1>3, <1>4
  <2> QED
    BY <1>2, <2>1 DEF AsksSomebody, new
<1>5. CASE n = 0
  <2> DEFINE a == Votes(steps, i, "approved")
             r == Votes(steps, i, "rejected")
             p == Votes(steps, i, "pending")
             l == Cardinality(Live(steps, i))
             t == Total(spec, steps, i)
  <2>1. Len(spec[i].approvers) <= l
    BY <1>1, <1>3, <1>5, EveryApproverHasARow
  <2>2. t = l
    BY <1>0, <1>1, <2>1, TotalFacts, SpecType, VotesAddUp DEF Total, Larger
  <2>3. /\ a \in Nat /\ r \in Nat /\ p \in Nat /\ l = a + r + p
    BY <1>0, VotesAddUp
  <2>4. /\ a < Bar(spec, i, t) /\ ~(r > t - Bar(spec, i, t)) /\ Bar(spec, i, t) \in Nat
    BY <1>0, <1>1, StageVerdictFacts, TotalFacts, BarFacts
  <2>5. p # 0
    <3> HIDE DEF a, r, p, l, t
    <3> QED
      BY <2>2, <2>3, <2>4
  <2>6. Voted(steps, i, "pending") # {}
    BY <2>5, FS_EmptySet DEF Votes, Voted
  <2>7. PICK k \in DOMAIN steps : steps[k].stage = i /\ steps[k].state = "pending"
    BY <2>6 DEF Voted, Live
  <2> QED
    BY <1>2, <2>7 DEF AsksSomebody, Extends, new
<1> QED
  BY <1>3, <1>4, <1>5

LEMMA RoundOpens ==
    ASSUME NEW spec \in Specs, NEW steps \in OpenSteps(spec)
    PROVE  /\ Round(spec, steps) \in OpenSteps(spec) /\ Extends(steps, Round(spec, steps))
           /\ Verdict(spec, Round(spec, steps)) = "pending" =>
                  AsksSomebody(spec, Round(spec, steps))
<1>1. CASE Verdict(spec, steps) = "pending"
  <2> DEFINE new == Materialize(spec, steps)
  <2>1. /\ new \in Steps(spec) /\ Extends(steps, new)
        /\ \A k \in DOMAIN new \ DOMAIN steps : new[k].state = "pending"
    BY <1>1, VerdictFacts, MaterializeSteps DEF OpenSteps
  <2>2. AsksSomebody(spec, new)
    BY <1>1, MaterializeAsks
  <2>3. Round(spec, steps) = new
    BY <1>1 DEF Round
  <2> HIDE DEF new
  <2>4. new \in OpenSteps(spec)
    BY <2>1 DEF OpenSteps, Extends
  <2> QED
    BY <2>1, <2>2, <2>3, <2>4
<1>2. CASE Verdict(spec, steps) # "pending"
  BY <1>2 DEF Round, Extends
<1> QED
  BY <1>1, <1>2

-----------------------------------------------------------------------------
(* The rounds of advance, by induction.                                     *)

AreRounds(spec, steps, round, n) ==
    round = [m \in 0..n |-> IF m = 0 THEN steps ELSE Round(spec, round[m - 1])]

LEMMA RoundsExist ==
    ASSUME NEW spec, NEW steps
    PROVE  \A n \in Nat : \E round : AreRounds(spec, steps, round, n)
<1> DEFINE S == {n \in Nat : \E round : AreRounds(spec, steps, round, n)}
<1>1. 0 \in S
  <2>1. AreRounds(spec, steps, [m \in 0..0 |-> steps], 0)
    BY DEF AreRounds
  <2> QED
    BY <2>1
<1>2. ASSUME NEW n \in Nat, n \in S PROVE n + 1 \in S
  <2>1. PICK round : AreRounds(spec, steps, round, n)
    BY <1>2
  <2> DEFINE next == [m \in 0..(n + 1) |-> IF m = n + 1 THEN Round(spec, round[n]) ELSE round[m]]
  <2>2. AreRounds(spec, steps, next, n + 1)
    <3>1. \A m \in 0..n : round[m] = IF m = 0 THEN steps ELSE Round(spec, round[m - 1])
      BY <2>1 DEF AreRounds
    <3>2. /\ \A m \in 0..n : next[m] = round[m]
          /\ next[n + 1] = Round(spec, round[n])
      OBVIOUS
    <3>3. ASSUME NEW m \in 0..(n + 1)
          PROVE  next[m] = IF m = 0 THEN steps ELSE Round(spec, next[m - 1])
      <4>1. CASE m = 0
        BY <3>1, <3>2, <4>1
      <4>2. CASE m \in 1..n
        <5>1. m \in 0..n /\ m - 1 \in 0..n /\ m # 0
          BY <4>2
        <5> HIDE DEF next
        <5> QED
          BY <3>1, <3>2, <5>1
      <4>3. CASE m = n + 1
        <5>1. n \in 0..n /\ m - 1 = n /\ m # 0
          BY <4>3
        <5> HIDE DEF next
        <5> QED
          BY <3>2, <4>3, <5>1
      <4> QED
        BY <4>1, <4>2, <4>3
    <3>4. next = [m \in 0..(n + 1) |-> next[m]]
      OBVIOUS
    <3> HIDE DEF next
    <3> QED
      BY <3>3, <3>4 DEF AreRounds
  <2> HIDE DEF next
  <2> QED
    BY <2>2
<1> HIDE DEF S
<1>3. \A n \in Nat : n \in S
  BY <1>1, <1>2, NatSetInduction
<1> QED
  BY <1>3 DEF S

\* The loop of advance keeps what there is, and ends with a verdict or with
\* somebody to answer.
LEMMA OpenedFacts ==
    ASSUME NEW spec \in Specs, NEW steps \in OpenSteps(spec)
    PROVE  /\ Opened(spec, steps) \in OpenSteps(spec)
           /\ Extends(steps, Opened(spec, steps))
           /\ Verdict(spec, Opened(spec, steps)) = "pending" =>
                  AsksSomebody(spec, Opened(spec, steps))
<1> DEFINE n     == Len(spec) + 1
           round == CHOOSE f : f = [m \in 0..n |-> IF m = 0 THEN steps ELSE Round(spec, f[m - 1])]
           Good  == {s \in OpenSteps(spec) : Extends(steps, s)}
           S     == {m \in Nat : m <= n => round[m] \in Good}
<1>1. n \in Nat /\ n > 0
  BY SpecType
<1>2. Opened(spec, steps) = round[n]
  BY DEF Opened
<1>3. AreRounds(spec, steps, round, n)
  <2>1. \E f : AreRounds(spec, steps, f, n)
    BY <1>1, RoundsExist
  <2> HIDE DEF n
  <2> QED
    BY <2>1 DEF AreRounds
<1> HIDE DEF round, n
<1>4. \A m \in 0..n : round[m] = IF m = 0 THEN steps ELSE Round(spec, round[m - 1])
  BY <1>3 DEF AreRounds
<1>5. 0 \in S
  BY <1>1, <1>4 DEF Extends
<1>6. ASSUME NEW m \in Nat, m \in S PROVE m + 1 \in S
  <2> SUFFICES ASSUME m + 1 <= n PROVE round[m + 1] \in Good
    OBVIOUS
  <2>1. round[m + 1] = Round(spec, round[m])
    <3>1. m + 1 \in 0..n /\ m + 1 # 0 /\ (m + 1) - 1 = m
      BY <1>1
    <3> QED
      BY <1>4, <3>1
  <2>2. round[m] \in Good
    BY <1>1, <1>6
  <2>3. Round(spec, round[m]) \in OpenSteps(spec) /\ Extends(round[m], Round(spec, round[m]))
    BY <2>2, RoundOpens
  <2> QED
    BY <2>1, <2>2, <2>3 DEF Extends
<1>7. \A m \in Nat : m \in S
  <2> HIDE DEF S
  <2> QED
    BY <1>5, <1>6, NatSetInduction
<1>8. round[n] \in Good /\ round[n - 1] \in Good /\ round[n] = Round(spec, round[n - 1])
  BY <1>1, <1>4, <1>7
<1> QED
  BY <1>2, <1>8, RoundOpens

-----------------------------------------------------------------------------
(* Row locks: what holds of the rows, whatever is written into them.        *)

IsRow(row) ==
    row = [state |-> row.state, spec |-> row.spec, steps |-> row.steps, late |-> row.late]

AsksNobody(row) ==
    row.state # "pending" =>
        \A k \in DOMAIN row.steps : row.steps[k].state # "pending"

\* What every write of a row sees to.
Rows ==
    /\ \E n \in Nat : approvals = [a \in 1..n |-> approvals[a]]
    /\ \A a \in DOMAIN approvals : IsRow(approvals[a]) /\ AsksNobody(approvals[a])

\* One transaction for each actor, and timeouts are the sweep's alone.
Transactions ==
    /\ tx = [c \in Actors |-> tx[c]]
    /\ tx[Sweeper].op \notin {"decide", "cancel"}

HasRow(c) == tx[c].op \in {"decide", "cancel"}

\* A row that is locked for an answer or a cancellation is pending, whatever
\* committed since it was locked, ...
Locked == \A c \in Actors : HasRow(c) => tx[c].a \in Pending

\* ... because no other transaction has it.
Exclusive ==
    \A c, d \in Actors : HasRow(c) /\ HasRow(d) /\ tx[c].a = tx[d].a => c = d

IInv == Rows /\ Transactions /\ Locked /\ Exclusive /\ SettledTicketIsClear

-----------------------------------------------------------------------------
(* The rows that are written.                                               *)

LEMMA ClosedState ==
    ASSUME NEW step, NEW state
    PROVE  Closed(step, state).state = state
BY DEF Closed

LEMMA WithdrawIsClear ==
    ASSUME NEW steps, NEW k \in DOMAIN Withdraw(steps)
    PROVE  Withdraw(steps)[k].state # "pending"
<1>1. k \in DOMAIN steps
  BY DEF Withdraw
<1>2. CASE steps[k].state = "pending"
  <2>1. Withdraw(steps)[k] = Closed(steps[k], "cancelled")
    BY <1>1, <1>2 DEF Withdraw
  <2> QED
    BY <2>1, ClosedState
<1>3. CASE steps[k].state # "pending"
  BY <1>1, <1>3 DEF Withdraw
<1> QED
  BY <1>2, <1>3

LEMMA ProjectedRow ==
    ASSUME NEW spec, NEW late, NEW steps
    PROVE  LET row == Projected(spec, late, steps)
           IN  IsRow(row) /\ AsksNobody(row) /\ row.late = late
<1> DEFINE row == Projected(spec, late, steps)
<1>1. /\ row.state = Verdict(spec, Opened(spec, steps))
      /\ row.steps = Advanced(spec, steps)
      /\ row.late = late
      /\ IsRow(row)
  BY DEF Projected, IsRow
<1>2. AsksNobody(row)
  <2>1. SUFFICES ASSUME row.state # "pending", NEW k \in DOMAIN row.steps
                 PROVE  row.steps[k].state # "pending"
    BY DEF AsksNobody
  <2>2. row.steps = Withdraw(Opened(spec, steps))
    BY <1>1, <2>1 DEF Advanced
  <2> QED
    BY <2>1, <2>2, WithdrawIsClear
<1> QED
  BY <1>1, <1>2

LEMMA CancelledRow ==
    ASSUME NEW row, IsRow(row)
    PROVE  /\ IsRow(Cancelled(row)) /\ AsksNobody(Cancelled(row))
           /\ Cancelled(row).state = "cancelled" /\ Cancelled(row).late = row.late
           /\ Cancelled(row).steps = Withdraw(row.steps) /\ Cancelled(row).spec = row.spec
<1>1. /\ Cancelled(row).state = "cancelled" /\ Cancelled(row).late = row.late
      /\ Cancelled(row).steps = Withdraw(row.steps) /\ Cancelled(row).spec = row.spec
      /\ IsRow(Cancelled(row))
  <2>1. DOMAIN row = {"state", "spec", "steps", "late"}
    BY DEF IsRow
  <2>2. Cancelled(row) = [[row EXCEPT !.state = "cancelled"] EXCEPT !.steps = Withdraw(row.steps)]
    BY Zenon DEF Cancelled
  <2>3. Cancelled(row) = [state |-> "cancelled", spec |-> row.spec,
                          steps |-> Withdraw(row.steps), late |-> row.late]
    BY <2>1, <2>2
  <2> QED
    BY <2>3 DEF IsRow
<1>2. AsksNobody(Cancelled(row))
  BY <1>1, WithdrawIsClear DEF AsksNobody
<1> QED
  BY <1>1, <1>2

LEMMA AppendRow ==
    ASSUME NEW s, NEW n \in Nat, s = [i \in 1..n |-> s[i]], NEW row
    PROVE  Append(s, row) = [i \in 1..(n + 1) |-> IF i = n + 1 THEN row ELSE s[i]]
<1> DEFINE S == {s[i] : i \in 1..n} \cup {row}
<1>1. s \in Seq(S)
  <2>1. s \in [1..n -> S]
    OBVIOUS
  <2> QED
    BY <2>1, SeqDef
<1>2. Len(s) = n
  BY <1>1, LenProperties
<1>3. row \in S
  OBVIOUS
<1> HIDE DEF S
<1>4. /\ Append(s, row) \in Seq(S)
      /\ Len(Append(s, row)) = n + 1
      /\ \A i \in 1..n : Append(s, row)[i] = s[i]
      /\ Append(s, row)[n + 1] = row
  BY <1>1, <1>2, <1>3, AppendProperties
<1>5. Append(s, row) \in [1..(n + 1) -> S]
  BY <1>4, LenProperties
<1> QED
  BY <1>4, <1>5

-----------------------------------------------------------------------------
(* The three ways the rows change.                                          *)

\* Other rows are left alone, and no row becomes pending.
Kept(a) == \A b \in DOMAIN approvals : b # a => approvals'[b] = approvals[b]

LEMMA WriteRow ==
    ASSUME Rows, SettledTicketIsClear, NEW a \in Pending, NEW row,
           IsRow(row), AsksNobody(row), row.late = approvals[a].late,
           approvals' = [approvals EXCEPT ![a] = row], UNCHANGED category
    PROVE  /\ Rows' /\ SettledTicketIsClear'
           /\ Kept(a) /\ Pending \ {a} \subseteq Pending'
<1>1. PICK n \in Nat : approvals = [b \in 1..n |-> approvals[b]]
  BY DEF Rows
<1>2. /\ DOMAIN approvals = 1..n /\ a \in 1..n
      /\ approvals' = [b \in 1..n |-> approvals'[b]]
      /\ approvals'[a] = row
      /\ \A b \in 1..n : b # a => approvals'[b] = approvals[b]
  BY <1>1 DEF Pending
<1>3. Rows'
  <2>1. \A b \in 1..n : IsRow(approvals'[b]) /\ AsksNobody(approvals'[b])
    BY <1>2 DEF Rows
  <2>2. DOMAIN approvals' = 1..n
    BY <1>2
  <2> QED
    BY <1>2, <2>1, <2>2 DEF Rows, IsRow, AsksNobody
<1>4. Pending' \subseteq Pending /\ Pending \ {a} \subseteq Pending'
  BY <1>1, <1>2 DEF Pending
<1>5. \A b \in Pending' : approvals'[b].late = approvals[b].late
  BY <1>2, <1>4 DEF Pending
<1>6. SettledTicketIsClear'
  BY <1>4, <1>5 DEF SettledTicketIsClear
<1> QED
  BY <1>2, <1>3, <1>4, <1>6 DEF Kept

LEMMA AddRow ==
    ASSUME Rows, SettledTicketIsClear, NEW row, IsRow(row), AsksNobody(row),
           approvals' = Append(approvals, row),
           \/ UNCHANGED category /\ (category \in Settled => row.late)
           \/ category' \notin Settled
    PROVE  /\ Rows' /\ SettledTicketIsClear'
           /\ \A a \in DOMAIN approvals : approvals'[a] = approvals[a]
           /\ Pending \subseteq Pending'
<1>1. PICK n \in Nat : approvals = [b \in 1..n |-> approvals[b]]
  BY DEF Rows
<1>2. approvals' = [i \in 1..(n + 1) |-> IF i = n + 1 THEN row ELSE approvals[i]]
  BY <1>1, AppendRow
<1>3. /\ DOMAIN approvals = 1..n /\ DOMAIN approvals' = 1..(n + 1)
      /\ n + 1 \in Nat /\ approvals' = [b \in 1..(n + 1) |-> approvals'[b]]
      /\ approvals'[n + 1] = row
      /\ \A b \in 1..n : b \in 1..(n + 1) /\ approvals'[b] = approvals[b]
      /\ \A b \in 1..(n + 1) : b \in 1..n \/ b = n + 1
  <2>1. DOMAIN approvals = 1..n /\ DOMAIN approvals' = 1..(n + 1)
    BY <1>1, <1>2
  <2>2. approvals' = [b \in 1..(n + 1) |-> approvals'[b]]
    BY <1>2
  <2>3. n + 1 \in 1..(n + 1) /\ \A b \in 1..n : b \in 1..(n + 1) /\ b # n + 1
    OBVIOUS
  <2>4. /\ approvals'[n + 1] = row
        /\ \A b \in 1..n : approvals'[b] = approvals[b]
    BY <1>2, <2>3
  <2> QED
    BY <2>1, <2>2, <2>3, <2>4
<1>4. Rows'
  <2>1. \A b \in 1..n : IsRow(approvals[b]) /\ AsksNobody(approvals[b])
    <3>1. \A b \in DOMAIN approvals : IsRow(approvals[b]) /\ AsksNobody(approvals[b])
      BY DEF Rows
    <3> QED
      BY <1>3, <3>1
  <2>2. \A b \in 1..(n + 1) : approvals'[b] = row \/ (b \in 1..n /\ approvals'[b] = approvals[b])
    BY <1>3
  <2>3. \A b \in 1..(n + 1) : IsRow(approvals'[b]) /\ AsksNobody(approvals'[b])
    BY <2>1, <2>2
  <2> QED
    BY <1>3, <2>3 DEF Rows, IsRow, AsksNobody
<1>5. Pending \subseteq Pending' /\ Pending' \subseteq Pending \cup {n + 1}
  BY <1>1, <1>3 DEF Pending
<1>6. SettledTicketIsClear'
  BY <1>3, <1>5 DEF SettledTicketIsClear, Pending
<1> QED
  BY <1>3, <1>4, <1>5, <1>6

LEMMA CancelRows ==
    ASSUME Rows, approvals' = AllCancelled
    PROVE  /\ Rows' /\ SettledTicketIsClear' /\ Pending' = {}
           /\ \A a \in DOMAIN approvals : a \notin Pending => approvals'[a] = approvals[a]
<1>1. PICK n \in Nat : approvals = [b \in 1..n |-> approvals[b]]
  BY DEF Rows
<1>2. /\ DOMAIN approvals = 1..n
      /\ approvals' = [b \in 1..n |-> approvals'[b]]
      /\ \A b \in 1..n : approvals'[b] = IF b \in Pending THEN Cancelled(approvals[b])
                                        ELSE approvals[b]
  BY <1>1 DEF AllCancelled
<1>3. \A b \in 1..n : /\ IsRow(approvals'[b]) /\ AsksNobody(approvals'[b])
                      /\ approvals'[b].state # "pending"
  <2>1. TAKE b \in 1..n
  <2>2. IsRow(approvals[b]) /\ AsksNobody(approvals[b])
    BY <1>2 DEF Rows
  <2>3. CASE b \in Pending
    <3>1. approvals'[b] = Cancelled(approvals[b])
      BY <1>2, <2>3
    <3>2. Cancelled(approvals[b]).state # "pending"
      BY <2>2, CancelledRow
    <3> QED
      BY <3>1, <3>2, <2>2, CancelledRow
  <2>4. CASE b \notin Pending
    BY <1>2, <2>2, <2>4 DEF Pending
  <2> QED
    BY <2>3, <2>4
<1>4. Rows' /\ Pending' = {}
  BY <1>2, <1>3 DEF Rows, Pending, IsRow, AsksNobody
<1> QED
  BY <1>2, <1>4 DEF SettledTicketIsClear

-----------------------------------------------------------------------------
(* Transactions: how one begins and how one ends.                           *)

LEMMA BeginTx ==
    ASSUME IInv, NEW c \in Clients, NEW record, Begin(c, record),
           record.op \in {"decide", "cancel"} =>
               record.a \in Pending /\ Free(RowOf(record.a))
    PROVE  IInv' /\ UNCHANGED approvals
<1> USE DEF IInv
<1>1. /\ c \in Actors /\ c # Sweeper
      /\ UNCHANGED <<category, approvals>>
      /\ tx' = [tx EXCEPT ![c] = record]
  BY ApprovalAssumption DEF Actors, Begin
<1>2. Rows' /\ SettledTicketIsClear' /\ Pending' = Pending
  BY <1>1 DEF Rows, SettledTicketIsClear, Pending
<1>3. /\ tx' = [d \in Actors |-> tx'[d]] /\ tx'[c] = record
      /\ \A d \in Actors : d # c => tx'[d] = tx[d]
  BY <1>1 DEF Transactions
<1>4. Transactions'
  BY <1>1, <1>3 DEF Transactions, Actors
<1>5. Locked'
  BY <1>2, <1>3 DEF Locked, HasRow
<1>6. \A d \in Actors : record.op \in {"decide", "cancel"} /\ HasRow(d) => tx[d].a # record.a
  <2>1. SUFFICES ASSUME record.op \in {"decide", "cancel"},
                        NEW d \in Actors, HasRow(d), tx[d].a = record.a
                 PROVE  FALSE
    OBVIOUS
  <2>2. RowOf(record.a) \notin Holds(d)
    BY <2>1 DEF Free
  <2>3. Holds(d) = {RowOf(tx[d].a)}
    BY <2>1 DEF Holds, HasRow
  <2> QED
    BY <2>1, <2>2, <2>3
<1>7. Exclusive'
  BY <1>3, <1>6 DEF Exclusive, HasRow
<1> QED
  BY <1>1, <1>2, <1>4, <1>5, <1>7

LEMMA EndTx ==
    ASSUME Transactions, Locked, Exclusive, NEW c \in Actors, End(c),
           \A d \in Actors : d # c /\ HasRow(d) => tx[d].a \in Pending'
    PROVE  Transactions' /\ Locked' /\ Exclusive'
<1>1. /\ tx' = [d \in Actors |-> tx'[d]] /\ tx'[c].op = "idle"
      /\ \A d \in Actors : d # c => tx'[d] = tx[d]
  BY DEF Transactions, End, Idle
<1>2. Sweeper \in Actors
  BY DEF Actors
<1> QED
  BY <1>1, <1>2 DEF Transactions, Locked, Exclusive, HasRow

\* A transaction that waits for nobody is alone with the rows it needs.
LEMMA Alone ==
    ASSUME Exclusive, NEW c \in Actors, \A d \in Actors : ~WaitsFor(c, d), NEW a,
           RowOf(a) \in Needs(c) \/ (HasRow(c) /\ tx[c].a = a),
           NEW d \in Actors, d # c, HasRow(d)
    PROVE  tx[d].a # a
<1>1. Holds(d) = {RowOf(tx[d].a)}
  BY DEF Holds, HasRow
<1>2. CASE HasRow(c) /\ tx[c].a = a
  BY <1>2 DEF Exclusive
<1>3. CASE RowOf(a) \in Needs(c)
  <2>1. RowOf(a) \notin Holds(d)
    BY <1>3 DEF WaitsFor
  <2> QED
    BY <1>1, <2>1
<1> QED
  BY <1>2, <1>3

-----------------------------------------------------------------------------
(* One row is written under its lock.                                       *)

LEMMA CommitRow ==
    ASSUME IInv, NEW c \in Actors, \A d \in Actors : ~WaitsFor(c, d),
           NEW a \in Pending, RowOf(a) \in Needs(c) \/ (HasRow(c) /\ tx[c].a = a),
           NEW row, IsRow(row), AsksNobody(row), row.late = approvals[a].late,
           approvals' = [approvals EXCEPT ![a] = row], UNCHANGED category, End(c)
    PROVE  IInv' /\ Kept(a)
<1>1. /\ Rows' /\ SettledTicketIsClear'
      /\ Kept(a) /\ Pending \ {a} \subseteq Pending'
  BY WriteRow DEF IInv
<1>2. \A d \in Actors : d # c /\ HasRow(d) => tx[d].a \in Pending'
  <2>1. TAKE d \in Actors
  <2>2. HAVE d # c /\ HasRow(d)
  <2>3. tx[d].a # a
    BY <2>2, Alone DEF IInv
  <2>4. tx[d].a \in Pending
    BY <2>2 DEF IInv, Locked
  <2> QED
    BY <1>1, <2>3, <2>4
<1>3. Transactions' /\ Locked' /\ Exclusive'
  BY <1>2, EndTx DEF IInv
<1> QED
  BY <1>1, <1>3 DEF IInv

\* What the row locked for an answer or a cancellation is.
LEMMA LockedRow ==
    ASSUME IInv, NEW c \in Actors, HasRow(c)
    PROVE  /\ tx[c].a \in Pending /\ IsRow(approvals[tx[c].a])
           /\ approvals[tx[c].a].state = "pending"
BY DEF IInv, Locked, Rows, Pending

LEMMA DelegatedFields ==
    ASSUME NEW row, IsRow(row), NEW k, NEW to
    PROVE  Delegated(row, k, to) =
               [state |-> row.state, spec |-> row.spec,
                steps |-> [row.steps EXCEPT ![k].who = to], late |-> row.late]
<1> DEFINE steps == [row.steps EXCEPT ![k].who = to]
<1>1. DOMAIN row = {"state", "spec", "steps", "late"}
  BY DEF IsRow
<1>2. Delegated(row, k, to) = [row EXCEPT !.steps = steps]
  BY Zenon DEF Delegated
<1> HIDE DEF steps
<1>3. Delegated(row, k, to) = [state |-> row.state, spec |-> row.spec,
                               steps |-> steps, late |-> row.late]
  BY <1>1, <1>2
<1> QED
  BY <1>3 DEF steps

LEMMA DelegatedRow ==
    ASSUME NEW row, IsRow(row), row.state = "pending", NEW k, NEW to
    PROVE  LET new == Delegated(row, k, to)
           IN  IsRow(new) /\ AsksNobody(new) /\ new.late = row.late
<1> DEFINE steps == [row.steps EXCEPT ![k].who = to]
<1>1. Delegated(row, k, to) = [state |-> row.state, spec |-> row.spec,
                               steps |-> steps, late |-> row.late]
  BY DelegatedFields
<1> HIDE DEF steps
<1> QED
  BY <1>1 DEF IsRow, AsksNobody

-----------------------------------------------------------------------------
(* The steps.                                                               *)

\* A settled row stays as it is.
SettledKept == \A a \in DOMAIN approvals : a \notin Pending => approvals'[a] = approvals[a]

LEMMA StepOpen ==
    ASSUME IInv, NEW c \in Clients,
           \/ OpenStart(c)
           \/ \E a \in DOMAIN approvals, u \in Users : OpenDecide(c, a, u)
           \/ \E a \in DOMAIN approvals : OpenCancel(c, a)
           \/ \E to \in Categories, system \in BOOLEAN : OpenTransition(c, to, system)
    PROVE  IInv' /\ SettledKept
<1>1. CASE OpenStart(c)
  <2>1. Begin(c, [op |-> "start"])
    BY <1>1 DEF OpenStart
  <2> QED
    BY <2>1, BeginTx DEF SettledKept
<1>2. ASSUME NEW a \in DOMAIN approvals, NEW u \in Users, OpenDecide(c, a, u)
      PROVE  IInv' /\ SettledKept
  <2>1. Begin(c, [op |-> "decide", a |-> a, u |-> u]) /\ a \in Pending /\ Free(RowOf(a))
    BY <1>2 DEF OpenDecide
  <2> QED
    BY <2>1, BeginTx DEF SettledKept
<1>3. ASSUME NEW a \in DOMAIN approvals, OpenCancel(c, a)
      PROVE  IInv' /\ SettledKept
  <2>1. Begin(c, [op |-> "cancel", a |-> a]) /\ a \in Pending /\ Free(RowOf(a))
    BY <1>3 DEF OpenCancel
  <2> QED
    BY <2>1, BeginTx DEF SettledKept
<1>4. ASSUME NEW to \in Categories, NEW system \in BOOLEAN, OpenTransition(c, to, system)
      PROVE  IInv' /\ SettledKept
  <2>1. Begin(c, [op |-> "transition", to |-> to])
    BY <1>4 DEF OpenTransition
  <2> QED
    BY <2>1, BeginTx DEF SettledKept
<1> QED
  BY <1>1, <1>2, <1>3, <1>4

\* A row is added: by a start, or by a move back to work.
LEMMA StepAdd ==
    ASSUME IInv, NEW c \in Actors, End(c), NEW spec, NEW late,
           approvals' = Append(approvals, NewApproval(spec, late)),
           \/ UNCHANGED category /\ (category \in Settled => late)
           \/ category' \notin Settled
    PROVE  IInv' /\ SettledKept
<1> DEFINE row == NewApproval(spec, late)
<1>1. IsRow(row) /\ AsksNobody(row) /\ row.late = late
  BY ProjectedRow DEF NewApproval
<1> HIDE DEF row
<1>2. /\ Rows' /\ SettledTicketIsClear' /\ Pending \subseteq Pending'
      /\ \A a \in DOMAIN approvals : approvals'[a] = approvals[a]
  <2>1. approvals' = Append(approvals, row)
    BY DEF row
  <2> QED
    BY <1>1, <2>1, AddRow DEF IInv
<1>3. Transactions' /\ Locked' /\ Exclusive'
  BY <1>2, EndTx DEF IInv, Locked
<1> QED
  BY <1>2, <1>3 DEF IInv, SettledKept

LEMMA StepDecide ==
    ASSUME IInv, NEW c \in Clients, Decide(c)
    PROVE  IInv' /\ SettledKept
<1>1. /\ c \in Actors /\ HasRow(c) /\ End(c) /\ UNCHANGED category
      /\ \A d \in Actors : ~WaitsFor(c, d)
  BY DEF Decide, CanFinish, HasRow, Actors
<1> DEFINE a == tx[c].a
<1>2. PICK k \in Answerable(approvals[a], tx[c].u), answer \in {"approved", "rejected"} :
          approvals' = [approvals EXCEPT ![a] = Decided(approvals[a], k, answer)]
  BY DEF Decide
<1>3. LET row == Decided(approvals[a], k, answer)
      IN  IsRow(row) /\ AsksNobody(row) /\ row.late = approvals[a].late
  BY ProjectedRow DEF Decided
<1>4. a \in Pending
  BY <1>1, LockedRow
<1>5. IInv' /\ Kept(a)
  <2> HIDE DEF a
  <2> DEFINE row == Decided(approvals[a], k, answer)
  <2>1. IsRow(row) /\ AsksNobody(row) /\ row.late = approvals[a].late
    BY <1>3
  <2>2. approvals' = [approvals EXCEPT ![a] = row]
    BY <1>2
  <2>3. tx[c].a = a
    BY DEF a
  <2> HIDE DEF row
  <2> QED
    BY <1>1, <1>4, <2>1, <2>2, <2>3, CommitRow
<1> QED
  BY <1>4, <1>5 DEF Kept, SettledKept

LEMMA StepDelegate ==
    ASSUME IInv, NEW c \in Clients, Delegate(c)
    PROVE  IInv' /\ SettledKept
<1>1. /\ c \in Actors /\ HasRow(c) /\ End(c) /\ UNCHANGED category
      /\ \A d \in Actors : ~WaitsFor(c, d)
  BY DEF Delegate, CanFinish, HasRow, Actors
<1> DEFINE a == tx[c].a
<1>2. PICK k \in Answerable(approvals[a], tx[c].u), to \in Users :
          approvals' = [approvals EXCEPT ![a] = Delegated(approvals[a], k, to)]
  BY DEF Delegate
<1>3. a \in Pending /\ IsRow(approvals[a]) /\ approvals[a].state = "pending"
  BY <1>1, LockedRow
<1>4. IInv' /\ Kept(a)
  <2>1. tx[c].a = a
    OBVIOUS
  <2> HIDE DEF a
  <2> DEFINE row == Delegated(approvals[a], k, to)
  <2>2. IsRow(row) /\ AsksNobody(row) /\ row.late = approvals[a].late
    BY <1>3, DelegatedRow
  <2>3. approvals' = [approvals EXCEPT ![a] = row]
    BY <1>2
  <2> HIDE DEF row
  <2> QED
    BY <1>1, <1>3, <2>1, <2>2, <2>3, CommitRow
<1> QED
  BY <1>3, <1>4 DEF Kept, SettledKept

LEMMA StepCancel ==
    ASSUME IInv, NEW c \in Clients, Cancel(c)
    PROVE  IInv' /\ SettledKept
<1>1. /\ c \in Actors /\ HasRow(c) /\ End(c) /\ UNCHANGED category
      /\ \A d \in Actors : ~WaitsFor(c, d)
  BY DEF Cancel, CanFinish, HasRow, Actors
<1> DEFINE a == tx[c].a
<1>2. approvals' = [approvals EXCEPT ![a] = Cancelled(approvals[a])]
  BY DEF Cancel
<1>3. a \in Pending /\ IsRow(approvals[a])
  BY <1>1, LockedRow
<1>4. IInv' /\ Kept(a)
  <2>1. tx[c].a = a
    OBVIOUS
  <2> HIDE DEF a
  <2> DEFINE row == Cancelled(approvals[a])
  <2>2. IsRow(row) /\ AsksNobody(row) /\ row.late = approvals[a].late
    BY <1>3, CancelledRow
  <2>3. approvals' = [approvals EXCEPT ![a] = row]
    BY <1>2
  <2> HIDE DEF row
  <2> QED
    BY <1>1, <1>3, <2>1, <2>2, <2>3, CommitRow
<1> QED
  BY <1>3, <1>4 DEF Kept, SettledKept

\* The rows and the category stay, and one transaction ends.
LEMMA StepEnd ==
    ASSUME IInv, NEW c \in Actors, End(c), UNCHANGED approvals,
           UNCHANGED category \/ category' \notin Settled
    PROVE  IInv' /\ SettledKept
<1>1. Rows' /\ SettledTicketIsClear' /\ Pending' = Pending
  BY DEF IInv, Rows, SettledTicketIsClear, Pending
<1>2. Transactions' /\ Locked' /\ Exclusive'
  BY <1>1, EndTx DEF IInv, Locked
<1> QED
  BY <1>1, <1>2 DEF IInv, SettledKept

LEMMA StepTransition ==
    ASSUME IInv, NEW c \in Clients, Transition(c)
    PROVE  IInv' /\ SettledKept
<1>1. /\ c \in Actors /\ tx[c].op = "transition" /\ End(c) /\ category' = tx[c].to
      /\ \A d \in Actors : ~WaitsFor(c, d)
  BY DEF Transition, CanFinish, Actors
<1>2. CASE tx[c].to \in Settled /\ approvals' = AllCancelled
  <2>1. /\ Rows' /\ SettledTicketIsClear'
        /\ \A a \in DOMAIN approvals : a \notin Pending => approvals'[a] = approvals[a]
    BY <1>2, CancelRows DEF IInv
  <2>2. \A d \in Actors : ~HasRow(d)
    <3>1. SUFFICES ASSUME NEW d \in Actors, HasRow(d) PROVE FALSE
      OBVIOUS
    <3>2. tx[d].a \in Pending /\ d # c
      BY <1>1, <3>1 DEF IInv, Locked, HasRow
    <3>3. RowOf(tx[d].a) \in Needs(c)
      BY <1>1, <1>2, <3>2 DEF Needs
    <3> QED
      BY <1>1, <3>1, <3>2, <3>3, Alone DEF IInv
  <2>3. Transactions' /\ Locked' /\ Exclusive'
    BY <1>1, <2>2, EndTx DEF IInv
  <2> QED
    BY <2>1, <2>3 DEF IInv, SettledKept
<1>3. CASE tx[c].to \notin Settled /\ UNCHANGED approvals
  BY <1>1, <1>3, StepEnd
<1>4. CASE /\ tx[c].to \notin Settled
           /\ \E spec \in Specs : approvals' = Append(approvals, NewApproval(spec, FALSE))
  BY <1>1, <1>4, StepAdd
<1> QED
  BY <1>2, <1>3, <1>4 DEF Transition

LEMMA StepTimeout ==
    ASSUME IInv, Timeout
    PROVE  IInv' /\ SettledKept
<1> DEFINE a == tx[Sweeper].a
           k == tx[Sweeper].k
<1>1. /\ Sweeper \in Actors /\ tx[Sweeper].op = "timeout" /\ End(Sweeper)
      /\ UNCHANGED category /\ \A d \in Actors : ~WaitsFor(Sweeper, d)
      /\ approvals' = IF a \in Pending THEN [approvals EXCEPT ![a] = TimedOut(approvals[a], k)]
                      ELSE approvals
  BY DEF Timeout, CanFinish, Actors
<1>2. RowOf(a) \in Needs(Sweeper)
  BY <1>1 DEF Needs
<1> HIDE DEF a, k
<1>3. CASE a \in Pending
  <2> DEFINE row == TimedOut(approvals[a], k)
  <2>1. IsRow(row) /\ AsksNobody(row) /\ row.late = approvals[a].late
    BY ProjectedRow DEF TimedOut
  <2>2. approvals' = [approvals EXCEPT ![a] = row]
    BY <1>1, <1>3
  <2> HIDE DEF row
  <2>3. IInv' /\ Kept(a)
    BY <1>1, <1>2, <1>3, <2>1, <2>2, CommitRow
  <2> QED
    BY <1>3, <2>3 DEF Kept, SettledKept
<1>4. CASE a \notin Pending
  BY <1>1, <1>4, StepEnd
<1> QED
  BY <1>3, <1>4

LEMMA StepOpenTimeout ==
    ASSUME IInv, OpenTimeout
    PROVE  IInv' /\ SettledKept
<1>1. PICK e \in listed : \/ UNCHANGED tx
                          \/ tx' = [tx EXCEPT ![Sweeper] =
                                       [op |-> "timeout", a |-> e[1], k |-> e[2]]]
  BY DEF OpenTimeout
<1>2. UNCHANGED <<category, approvals>> /\ Sweeper \in Actors
  BY DEF OpenTimeout, Actors
<1>3. Rows' /\ SettledTicketIsClear' /\ Pending' = Pending
  BY <1>2 DEF IInv, Rows, SettledTicketIsClear, Pending
<1>4. /\ tx' = [d \in Actors |-> tx'[d]]
      /\ tx'[Sweeper].op \notin {"decide", "cancel"}
      /\ \A d \in Actors : d # Sweeper => tx'[d] = tx[d]
  BY <1>1, <1>2 DEF IInv, Transactions
<1>5. Transactions' /\ Locked' /\ Exclusive'
  BY <1>3, <1>4 DEF IInv, Transactions, Locked, Exclusive, HasRow
<1> QED
  BY <1>2, <1>3, <1>5 DEF IInv, SettledKept

LEMMA InitIInv == Init => IInv
<1> SUFFICES ASSUME Init PROVE IInv
  OBVIOUS
<1>1. approvals = <<>> /\ category = "open" /\ tx = [c \in Actors |-> Idle]
  BY DEF Init
<1>2. Rows
  <2>1. approvals = [a \in 1..0 |-> approvals[a]] /\ DOMAIN approvals = {}
    BY <1>1
  <2> QED
    BY <2>1 DEF Rows
<1>3. SettledTicketIsClear
  BY <1>1 DEF SettledTicketIsClear, Settled, Terminal
<1>4. Transactions /\ Locked /\ Exclusive
  BY <1>1 DEF Transactions, Locked, Exclusive, HasRow, Idle, Actors
<1> QED
  BY <1>2, <1>3, <1>4 DEF IInv

LEMMA StepIInv ==
    ASSUME IInv, [Next]_vars
    PROVE  IInv' /\ SettledKept
<1>1. ASSUME NEW c \in Clients,
             \/ OpenStart(c)
             \/ \E a \in DOMAIN approvals, u \in Users : OpenDecide(c, a, u)
             \/ \E a \in DOMAIN approvals : OpenCancel(c, a)
             \/ \E to \in Categories, system \in BOOLEAN : OpenTransition(c, to, system)
      PROVE  IInv' /\ SettledKept
  BY <1>1, StepOpen
<1>2. ASSUME NEW c \in Clients, CommitStart(c) PROVE IInv' /\ SettledKept
  <2>1. c \in Actors
    BY DEF Actors
  <2> QED
    BY <1>2, <2>1, StepAdd DEF CommitStart
<1>3. ASSUME NEW c \in Clients, Decide(c) PROVE IInv' /\ SettledKept
  BY <1>3, StepDecide
<1>4. ASSUME NEW c \in Clients, Delegate(c) PROVE IInv' /\ SettledKept
  BY <1>4, StepDelegate
<1>5. ASSUME NEW c \in Clients, Cancel(c) PROVE IInv' /\ SettledKept
  BY <1>5, StepCancel
<1>6. ASSUME NEW c \in Clients, Transition(c) PROVE IInv' /\ SettledKept
  BY <1>6, StepTransition
<1>7. ASSUME NEW c \in Actors, DeadlockVictim(c) PROVE IInv' /\ SettledKept
  BY <1>7, StepEnd DEF DeadlockVictim
<1>8. CASE OpenTimeout
  BY <1>8, StepOpenTimeout
<1>9. CASE Timeout
  BY <1>9, StepTimeout
<1>10. CASE ListDue \/ UNCHANGED vars
  BY <1>10 DEF ListDue, vars, IInv, Rows, Transactions, Locked, Exclusive, HasRow,
               SettledTicketIsClear, Pending, SettledKept
<1> QED
  BY <1>1, <1>2, <1>3, <1>4, <1>5, <1>6, <1>7, <1>8, <1>9, <1>10 DEF Next

LEMMA Inductive == Spec => []IInv
BY InitIInv, StepIInv, PTL DEF Spec

-----------------------------------------------------------------------------
\* A settled approval has no step left in anybody's inbox, however votes,
\* timeouts, cancellations and moves of the ticket are interleaved, and a ticket
\* that is resolved, closed or cancelled keeps no pending approval, unless its
\* start had read the ticket before.
THEOREM ApprovalNothingIsLeftOpen == Spec => []NothingIsLeftOpen
<1>1. IInv => NobodyIsAsked
  BY DEF IInv, Rows, AsksNobody, NobodyIsAsked, Pending, PendingSteps
<1>2. IInv => SettledTicketIsClear
  BY DEF IInv
<1> QED
  BY <1>1, <1>2, Inductive, PTL DEF NothingIsLeftOpen

\* Two transactions that both found an approval pending never settle it twice:
\* the row lock, and the second look after it, make the first one the last.
THEOREM ApprovalSettlementIsFinal == Spec => SettlementIsFinal
<1>1. IInv /\ [Next]_vars => [SettledKept]_vars
  BY StepIInv
<1>2. Spec => [][SettledKept]_vars
  BY <1>1, Inductive, PTL DEF Spec
<1> QED
  BY <1>2 DEF SettledKept, SettlementIsFinal

-----------------------------------------------------------------------------
(* Rows as they are written.                                                *)

\* The state of a row is what its steps say, and while it is open somebody is
\* asked.
RowOK(row) ==
    /\ row.spec \in Specs /\ row.late \in BOOLEAN /\ row.state \in StepStates
    /\ row.steps \in Steps(row.spec)
    /\ row.state = "pending" =>
          row.steps \in OpenSteps(row.spec) /\ AsksSomebody(row.spec, row.steps)
    /\ row.state # "cancelled" => row.state = Verdict(row.spec, row.steps)

\* Steps are added and not taken away, and a decided one stays as it is.
Keeps(old, new) ==
    \A k \in DOMAIN old : /\ k \in DOMAIN new
                          /\ old[k].state # "pending" => new[k] = old[k]

LEMMA ProjectedOK ==
    ASSUME NEW spec \in Specs, NEW late \in BOOLEAN, NEW steps \in OpenSteps(spec)
    PROVE  LET row == Projected(spec, late, steps)
           IN  RowOK(row) /\ Keeps(steps, row.steps)
<1> DEFINE row    == Projected(spec, late, steps)
           opened == Opened(spec, steps)
<1>1. /\ row.state = Verdict(spec, opened) /\ row.spec = spec
      /\ row.steps = Advanced(spec, steps) /\ row.late = late
  BY DEF Projected
<1>2. /\ opened \in OpenSteps(spec) /\ opened \in Steps(spec) /\ Extends(steps, opened)
      /\ Verdict(spec, opened) = "pending" => AsksSomebody(spec, opened)
  BY OpenedFacts DEF OpenSteps
<1>3. Verdict(spec, opened) \in {"approved", "rejected", "pending"}
  BY <1>2, VerdictFacts
<1>4. Advanced(spec, steps) = IF Verdict(spec, opened) = "pending" THEN opened ELSE Withdraw(opened)
  BY DEF Advanced
<1> HIDE DEF row, opened
<1>5. CASE Verdict(spec, opened) = "pending"
  <2>1. row.steps = opened
    BY <1>1, <1>4, <1>5
  <2> QED
    BY <1>1, <1>2, <1>5, <2>1 DEF RowOK, Keeps, Extends, StepStates, row
<1>6. CASE Verdict(spec, opened) # "pending"
  <2>1. row.steps = Withdraw(opened)
    BY <1>1, <1>4, <1>6
  <2>2. /\ row.steps \in Steps(spec) /\ DOMAIN row.steps = DOMAIN opened
        /\ \A k \in DOMAIN opened : opened[k].state # "pending" => row.steps[k] = opened[k]
    BY <1>2, <2>1, WithdrawSteps
  <2>3. Verdict(spec, row.steps) = Verdict(spec, opened)
    BY <1>2, <1>6, <2>1, WithdrawVerdict
  <2>4. RowOK(row)
    BY <1>1, <1>3, <1>6, <2>2, <2>3 DEF RowOK, StepStates
  <2>5. Keeps(steps, row.steps)
    BY <1>2, <2>2 DEF Keeps, Extends
  <2> QED
    BY <2>4, <2>5 DEF row
<1> QED
  BY <1>5, <1>6

\* One step of an open approval is answered.
LEMMA AnsweredSteps ==
    ASSUME NEW spec, NEW steps \in OpenSteps(spec), NEW k \in DOMAIN steps,
           NEW step \in StepRec(spec), step.state # "cancelled"
    PROVE  [steps EXCEPT ![k] = step] \in OpenSteps(spec)
<1>1. /\ steps \in Seq(StepRec(spec)) /\ k \in 1..Len(steps)
      /\ \A j \in DOMAIN steps : steps[j].state # "cancelled"
  BY LenProperties DEF OpenSteps, Steps
<1>2. [steps EXCEPT ![k] = step] \in Seq(StepRec(spec))
  BY <1>1, ExceptSeq
<1>3. \A j \in DOMAIN steps : [steps EXCEPT ![k] = step][j] = IF j = k THEN step ELSE steps[j]
  OBVIOUS
<1>4. DOMAIN [steps EXCEPT ![k] = step] = DOMAIN steps
  OBVIOUS
<1> QED
  BY <1>1, <1>2, <1>3, <1>4 DEF OpenSteps, Steps

\* The row that is written when step k, pending so far, becomes another one.
LEMMA AnsweredRow ==
    ASSUME NEW row, RowOK(row), row.state = "pending",
           NEW k \in DOMAIN row.steps, row.steps[k].state = "pending",
           NEW step \in StepRec(row.spec), step.state # "cancelled"
    PROVE  LET new == Projected(row.spec, row.late, [row.steps EXCEPT ![k] = step])
           IN  RowOK(new) /\ Keeps(row.steps, new.steps)
<1> DEFINE steps == [row.steps EXCEPT ![k] = step]
           new   == Projected(row.spec, row.late, steps)
<1>1. row.spec \in Specs /\ row.late \in BOOLEAN /\ row.steps \in OpenSteps(row.spec)
  BY DEF RowOK
<1>2. steps \in OpenSteps(row.spec)
  BY <1>1, AnsweredSteps
<1>3. /\ DOMAIN steps = DOMAIN row.steps
      /\ \A j \in DOMAIN row.steps : j # k => steps[j] = row.steps[j]
  OBVIOUS
<1> HIDE DEF steps
<1>4. RowOK(new) /\ Keeps(steps, new.steps)
  BY <1>1, <1>2, ProjectedOK
<1> HIDE DEF new
<1>5. Keeps(row.steps, new.steps)
  BY <1>3, <1>4 DEF Keeps
<1> QED
  BY <1>4, <1>5 DEF new, steps

LEMMA StepType ==
    ASSUME NEW row, RowOK(row), NEW k \in DOMAIN row.steps
    PROVE  row.steps[k] \in StepRec(row.spec)
BY LenProperties, ElementOfSeq DEF RowOK, Steps

LEMMA DecidedOK ==
    ASSUME NEW row, RowOK(row), row.state = "pending",
           NEW k \in DOMAIN row.steps, row.steps[k].state = "pending",
           NEW answer \in {"approved", "rejected"}
    PROVE  LET new == Decided(row, k, answer)
           IN  RowOK(new) /\ Keeps(row.steps, new.steps)
<1>1. /\ Closed(row.steps[k], answer) \in StepRec(row.spec)
      /\ Closed(row.steps[k], answer).state # "cancelled"
  BY StepType DEF Closed, StepRec, StepStates
<1>2. [row.steps EXCEPT ![k] = Closed(@, answer)] =
          [row.steps EXCEPT ![k] = Closed(row.steps[k], answer)]
  OBVIOUS
<1> QED
  BY <1>1, <1>2, AnsweredRow DEF Decided

LEMMA TimedOutOK ==
    ASSUME NEW row, RowOK(row), row.state = "pending",
           NEW k \in DOMAIN row.steps, row.steps[k].state = "pending"
    PROVE  LET new == TimedOut(row, k)
           IN  RowOK(new) /\ Keeps(row.steps, new.steps)
<1> DEFINE to   == Outcome[row.spec[row.steps[k].stage].onTimeout]
           step == [Closed(row.steps[k], to) EXCEPT !.timedOut = TRUE]
<1>1. row.steps[k] \in StepRec(row.spec) /\ row.spec \in Specs
  BY StepType DEF RowOK
<1>2. to \in {"approved", "rejected", "pending"}
  <2>1. row.steps[k].stage \in DOMAIN row.spec
    BY <1>1, SpecType DEF StepRec
  <2>2. row.spec[row.steps[k].stage] \in Stage
    BY <1>1, <2>1, SpecType
  <2>3. row.spec[row.steps[k].stage].onTimeout \in
            {"auto_approve", "auto_reject", "escalate", "hold"}
    BY <2>2 DEF Stage
  <2> QED
    BY <2>3 DEF Outcome
<1>3. step \in StepRec(row.spec) /\ step.state # "cancelled"
  <2> HIDE DEF to
  <2> QED
    BY <1>1, <1>2 DEF Closed, StepRec, StepStates
<1>4. TimedOut(row, k) = Projected(row.spec, row.late, [row.steps EXCEPT ![k] = step])
  BY DEF TimedOut
<1> HIDE DEF step
<1> QED
  BY <1>3, <1>4, AnsweredRow

LEMMA DelegatedOK ==
    ASSUME NEW row, RowOK(row), IsRow(row), row.state = "pending",
           NEW k \in DOMAIN row.steps, row.steps[k].state = "pending", NEW to \in Users
    PROVE  LET new == Delegated(row, k, to)
           IN  RowOK(new) /\ Keeps(row.steps, new.steps)
<1> DEFINE new   == Delegated(row, k, to)
           spec  == row.spec
           old   == row.steps
           step  == [old[k] EXCEPT !.who = to]
           steps == [old EXCEPT ![k] = step]
<1>1. /\ new.state = "pending" /\ new.spec = spec /\ new.late = row.late /\ new.steps = steps
  <2>1. new = [state |-> row.state, spec |-> spec, steps |-> [old EXCEPT ![k].who = to],
               late |-> row.late]
    BY DelegatedFields
  <2>2. [old EXCEPT ![k].who = to] = steps
    OBVIOUS
  <2> HIDE DEF new, steps
  <2> QED
    BY <2>1, <2>2
<1>2. /\ spec \in Specs /\ row.late \in BOOLEAN /\ old \in OpenSteps(spec) /\ old \in Steps(spec)
      /\ AsksSomebody(spec, old) /\ Verdict(spec, old) = "pending"
  BY DEF RowOK
<1>3. old[k] \in StepRec(spec)
  BY StepType
<1>4. /\ step \in StepRec(spec) /\ step.state = "pending" /\ step.stage = old[k].stage
  <2> HIDE DEF old, spec
  <2> QED
    BY <1>3 DEF StepRec, StepStates, old
<1>5. steps \in OpenSteps(spec)
  <2> HIDE DEF step, old, spec
  <2> QED
    BY <1>2, <1>4, AnsweredSteps DEF old
<1>6. /\ DOMAIN steps = DOMAIN old
      /\ \A j \in DOMAIN old : steps[j].stage = old[j].stage /\ steps[j].state = old[j].state
      /\ \A j \in DOMAIN old : j # k => steps[j] = old[j]
  <2> HIDE DEF step
  <2> QED
    BY <1>4
<1> HIDE DEF steps, step, new, old, spec
<1>7. ASSUME NEW i PROVE StageVerdict(spec, steps, i) = StageVerdict(spec, old, i)
  <2>1. Live(steps, i) = Live(old, i)
    BY <1>6 DEF Live
  <2>2. \A v : {j \in Live(steps, i) : steps[j].state = v} = {j \in Live(old, i) : old[j].state = v}
    BY <1>6, <2>1 DEF Live
  <2>3. \A v : Votes(steps, i, v) = Votes(old, i, v)
    BY <2>2 DEF Votes
  <2> QED
    BY <2>1, <2>3 DEF StageVerdict, Required, Total
<1>8. ActiveStage(spec, steps) = ActiveStage(spec, old) /\ Verdict(spec, steps) = "pending"
  <2>1. steps \in Steps(spec)
    BY <1>5 DEF OpenSteps
  <2> QED
    BY <1>2, <1>7, <2>1, VerdictStays
<1>9. AsksSomebody(spec, steps)
  BY <1>2, <1>6, <1>8 DEF AsksSomebody
<1>10. RowOK(new)
  BY <1>1, <1>2, <1>5, <1>8, <1>9 DEF RowOK, OpenSteps, StepStates
<1>11. Keeps(old, new.steps)
  <2>1. old[k].state = "pending"
    BY DEF old
  <2> QED
    BY <1>1, <1>6, <2>1 DEF Keeps
<1> QED
  BY <1>10, <1>11 DEF new, old

LEMMA CancelledOK ==
    ASSUME NEW row, RowOK(row), IsRow(row)
    PROVE  RowOK(Cancelled(row)) /\ Keeps(row.steps, Cancelled(row).steps)
<1>1. /\ Cancelled(row).state = "cancelled" /\ Cancelled(row).late = row.late
      /\ Cancelled(row).steps = Withdraw(row.steps) /\ Cancelled(row).spec = row.spec
  BY CancelledRow
<1>2. row.steps \in Steps(row.spec)
  BY DEF RowOK
<1>3. RowOK(Cancelled(row))
  BY <1>1, <1>2, WithdrawSteps DEF RowOK, StepStates
<1>4. Keeps(row.steps, Cancelled(row).steps)
  BY <1>1, <1>2, WithdrawSteps DEF Keeps
<1> QED
  BY <1>3, <1>4

LEMMA NewApprovalOK ==
    ASSUME NEW spec \in Specs, NEW late \in BOOLEAN
    PROVE  RowOK(NewApproval(spec, late))
<1>1. <<>> \in OpenSteps(spec)
  BY EmptySeq DEF OpenSteps, Steps
<1> QED
  BY <1>1, ProjectedOK DEF NewApproval

\* A verdict is earned by the votes that are there.
LEMMA EarnedRow ==
    ASSUME NEW row, RowOK(row)
    PROVE  Earned(row)
<1> DEFINE spec  == row.spec
           steps == row.steps
           n(i)  == Len(spec[i].approvers)
           w(i)  == IF spec[i].mode = "quorum" THEN Smaller(spec[i].quorum, n(i)) ELSE n(i)
<1>1. spec \in Specs /\ steps \in Steps(spec)
  BY DEF RowOK
<1>2. Len(spec) \in Nat /\ DOMAIN spec = 1..Len(spec)
  BY <1>1, SpecType
<1> HIDE DEF spec, steps
<1>3. ASSUME NEW i \in DOMAIN spec
      PROVE  /\ w(i) = Bar(spec, i, n(i)) /\ n(i) \in Nat /\ w(i) \in Nat
             /\ LET t == Total(spec, steps, i)
                IN  /\ t \in Nat /\ Bar(spec, i, t) \in Nat
                    /\ w(i) <= Bar(spec, i, t)
                    /\ n(i) - w(i) <= t - Bar(spec, i, t)
  <2>1. w(i) = Bar(spec, i, n(i))
    BY DEF Bar
  <2>2. n(i) \in Nat /\ Total(spec, steps, i) \in Nat /\ n(i) <= Total(spec, steps, i)
    BY <1>1, SpecType, TotalFacts
  <2> HIDE DEF n, w
  <2> QED
    BY <1>1, <2>1, <2>2, BarFacts
<1>4. row.state = "approved" => \A i \in DOMAIN spec : Votes(steps, i, "approved") >= w(i)
  <2> SUFFICES ASSUME row.state = "approved", NEW i \in DOMAIN spec
               PROVE  Votes(steps, i, "approved") >= w(i)
    OBVIOUS
  <2>1. Verdict(spec, steps) = "approved"
    BY DEF RowOK, spec, steps
  <2>2. StageVerdict(spec, steps, i) = "approved"
    <3>1. ActiveStage(spec, steps) = Len(spec) + 1
      BY <1>1, <2>1, VerdictFacts
    <3>2. IsActive(spec, steps, Len(spec) + 1)
      BY <1>1, <3>1, ActiveStageFacts
    <3> QED
      BY <1>2, <3>2 DEF IsActive
  <2>3. Votes(steps, i, "approved") >= Bar(spec, i, Total(spec, steps, i))
    BY <1>1, <2>2, StageVerdictFacts
  <2>4. Votes(steps, i, "approved") \in Nat
    BY <1>1, VotesAddUp
  <2> HIDE DEF n, w
  <2> QED
    BY <1>3, <2>3, <2>4
<1>5. row.state = "rejected" =>
         \E i \in DOMAIN spec : Votes(steps, i, "rejected") > n(i) - w(i)
  <2> SUFFICES ASSUME row.state = "rejected"
               PROVE  \E i \in DOMAIN spec : Votes(steps, i, "rejected") > n(i) - w(i)
    OBVIOUS
  <2>1. Verdict(spec, steps) = "rejected"
    BY DEF RowOK, spec, steps
  <2>2. PICK i \in DOMAIN spec : StageVerdict(spec, steps, i) = "rejected"
    BY <1>1, <2>1, VerdictFacts
  <2>3. Votes(steps, i, "rejected") > Total(spec, steps, i) - Bar(spec, i, Total(spec, steps, i))
    BY <1>1, <2>2, StageVerdictFacts
  <2>4. Votes(steps, i, "rejected") \in Nat
    BY <1>1, VotesAddUp
  <2>5. Votes(steps, i, "rejected") > n(i) - w(i)
    <3> HIDE DEF n, w
    <3> QED
      BY <1>3, <2>3, <2>4
  <2> QED
    BY <2>5
<1> QED
  BY <1>4, <1>5 DEF Earned, spec, steps

-----------------------------------------------------------------------------
(* The rows in the states of the system.                                    *)

RowsOK == \A a \in DOMAIN approvals : RowOK(approvals[a])

Bounded ==
    /\ Len(approvals) <= MaxApprovals
    /\ category \in Categories
    /\ ops \in 0..MaxOps
    /\ \A c \in Actors : tx[c].op = "transition" => tx[c].to \in Categories

\* What the sweep has read exists, whatever was decided since, ...
Listed ==
    \A e \in listed : \E a \in DOMAIN approvals :
        \E k \in DOMAIN approvals[a].steps : e = StepOf(a, k)

\* ... and the step it has locked is pending.
Aimed ==
    tx[Sweeper].op = "timeout" =>
        /\ tx[Sweeper].a \in DOMAIN approvals
        /\ tx[Sweeper].k \in PendingSteps(tx[Sweeper].a)

JInv == RowsOK /\ Bounded /\ Listed /\ Aimed

\* No step that is decided changes.
RowsKept ==
    \A a \in DOMAIN approvals : /\ a \in DOMAIN approvals'
                                /\ Keeps(approvals[a].steps, approvals'[a].steps)

LEMMA RowsOKNext ==
    ASSUME \A a \in DOMAIN approvals' : RowOK(approvals'[a])
    PROVE  RowsOK'
BY DEF RowsOK, RowOK

LEMMA SameKept == ASSUME NEW steps PROVE Keeps(steps, steps)
BY DEF Keeps

LEMMA RowsLen ==
    ASSUME NEW s, NEW n \in Nat, s = [a \in 1..n |-> s[a]]
    PROVE  Len(s) = n /\ DOMAIN s = 1..n
<1> DEFINE S == {s[i] : i \in 1..n}
<1>1. s \in [1..n -> S]
  OBVIOUS
<1> HIDE DEF S
<1>2. s \in Seq(S)
  BY <1>1, SeqDef
<1> QED
  BY <1>1, <1>2, LenProperties

\* Client c does not touch the step that the sweep has locked.
Spares(c, a) == c # Sweeper /\ tx[Sweeper].op = "timeout" => tx[Sweeper].a # a

LEMMA EndKept ==
    ASSUME Transactions, JInv, NEW c \in Actors, End(c), UNCHANGED <<listed, ops>>,
           Len(approvals') <= MaxApprovals, category' \in Categories,
           \A a \in DOMAIN approvals :
              /\ a \in DOMAIN approvals'
              /\ \/ approvals'[a] = approvals[a]
                 \/ /\ RowOK(approvals'[a]) /\ Spares(c, a)
                    /\ Keeps(approvals[a].steps, approvals'[a].steps),
           \A a \in DOMAIN approvals' \ DOMAIN approvals : RowOK(approvals'[a])
    PROVE  JInv' /\ RowsKept
<1> USE DEF JInv
<1>1. RowsKept
  BY SameKept DEF RowsKept
<1>2. RowsOK'
  <2>1. \A a \in DOMAIN approvals' : RowOK(approvals'[a])
    BY DEF RowsOK
  <2> QED
    BY <2>1, RowsOKNext
<1>3. /\ tx'[c].op = "idle"
      /\ \A d \in Actors : d # c => tx'[d] = tx[d]
      /\ Sweeper \in Actors
  BY DEF Transactions, End, Idle, Actors
<1>4. Bounded'
  BY <1>3 DEF Bounded
<1>5. Listed'
  BY <1>1 DEF Listed, RowsKept, Keeps, StepOf
<1>6. Aimed'
  <2>1. CASE c = Sweeper
    BY <1>3, <2>1 DEF Aimed
  <2>2. CASE c # Sweeper /\ tx[Sweeper].op = "timeout"
    <3>1. tx'[Sweeper] = tx[Sweeper]
      BY <1>3, <2>2
    <3>2. tx[Sweeper].a \in DOMAIN approvals /\ tx[Sweeper].k \in PendingSteps(tx[Sweeper].a)
      BY <2>2 DEF Aimed
    <3>3. /\ tx[Sweeper].a \in DOMAIN approvals'
          /\ approvals'[tx[Sweeper].a] = approvals[tx[Sweeper].a]
      BY <2>2, <3>2 DEF Spares
    <3> QED
      BY <3>1, <3>2, <3>3 DEF Aimed, PendingSteps
  <2>3. CASE c # Sweeper /\ tx[Sweeper].op # "timeout"
    BY <1>3, <2>3 DEF Aimed
  <2> QED
    BY <2>1, <2>2, <2>3
<1> QED
  BY <1>1, <1>2, <1>4, <1>5, <1>6

\* Whoever waits for nobody has every pending step it needs to itself.
LEMMA SparesSweep ==
    ASSUME Aimed, NEW c \in Actors, \A d \in Actors : ~WaitsFor(c, d),
           NEW a, PendingStepsOf(a) \subseteq Needs(c)
    PROVE  Spares(c, a)
<1>1. SUFFICES ASSUME c # Sweeper, tx[Sweeper].op = "timeout", tx[Sweeper].a = a
               PROVE  FALSE
  BY DEF Spares
<1>2. StepOf(a, tx[Sweeper].k) \in PendingStepsOf(a)
  BY <1>1 DEF Aimed, PendingStepsOf
<1>3. Holds(Sweeper) = {StepOf(a, tx[Sweeper].k)}
  BY <1>1 DEF Holds
<1>4. Sweeper \in Actors
  BY DEF Actors
<1> QED
  BY <1>1, <1>2, <1>3, <1>4 DEF WaitsFor

LEMMA BeginKept ==
    ASSUME Transactions, JInv, NEW c \in Clients, NEW record, Begin(c, record),
           record.op = "transition" => record.to \in Categories
    PROVE  JInv' /\ RowsKept
<1> USE DEF JInv
<1>1. /\ c \in Actors /\ c # Sweeper /\ Sweeper \in Actors
      /\ UNCHANGED <<category, approvals, listed>>
      /\ tx' = [tx EXCEPT ![c] = record]
      /\ ops < MaxOps /\ ops' = ops + 1
  BY ApprovalAssumption DEF Actors, Begin
<1>2. /\ tx'[c] = record
      /\ \A d \in Actors : d # c => tx'[d] = tx[d]
  BY <1>1 DEF Transactions
<1>3. RowsOK' /\ RowsKept
  <2>1. RowsOK'
    BY <1>1, RowsOKNext DEF RowsOK
  <2> QED
    BY <1>1, <2>1, SameKept DEF RowsKept
<1>4. Bounded'
  <2>1. ops' \in 0..MaxOps
    BY <1>1, ApprovalAssumption DEF Bounded
  <2>2. \A d \in Actors : tx'[d].op = "transition" => tx'[d].to \in Categories
    BY <1>2 DEF Bounded
  <2> QED
    BY <1>1, <2>1, <2>2 DEF Bounded
<1>5. Listed' /\ Aimed'
  BY <1>1, <1>2 DEF Listed, Aimed, PendingSteps
<1> QED
  BY <1>3, <1>4, <1>5

LEMMA OpenKept ==
    ASSUME IInv, JInv, NEW c \in Clients,
           \/ OpenStart(c)
           \/ \E a \in DOMAIN approvals, u \in Users : OpenDecide(c, a, u)
           \/ \E a \in DOMAIN approvals : OpenCancel(c, a)
           \/ \E to \in Categories, system \in BOOLEAN : OpenTransition(c, to, system)
    PROVE  JInv' /\ RowsKept
<1>1. PICK record : Begin(c, record) /\ (record.op = "transition" => record.to \in Categories)
  <2>1. CASE OpenStart(c)
    BY <2>1 DEF OpenStart
  <2>2. CASE \E a \in DOMAIN approvals, u \in Users : OpenDecide(c, a, u)
    <3>1. PICK a, u : Begin(c, [op |-> "decide", a |-> a, u |-> u])
      BY <2>2 DEF OpenDecide
    <3> QED
      BY <3>1
  <2>3. CASE \E a \in DOMAIN approvals : OpenCancel(c, a)
    <3>1. PICK a : Begin(c, [op |-> "cancel", a |-> a])
      BY <2>3 DEF OpenCancel
    <3> QED
      BY <3>1
  <2>4. CASE \E to \in Categories, system \in BOOLEAN : OpenTransition(c, to, system)
    <3>1. PICK to \in Categories : Begin(c, [op |-> "transition", to |-> to])
      BY <2>4 DEF OpenTransition
    <3> QED
      BY <3>1
  <2> QED
    BY <2>1, <2>2, <2>3, <2>4
<1> QED
  BY <1>1, BeginKept DEF IInv

\* A row is added.
LEMMA AddKept ==
    ASSUME IInv, JInv, NEW c \in Actors, End(c), UNCHANGED <<listed, ops>>,
           NEW spec \in Specs, NEW late \in BOOLEAN,
           Len(approvals) < MaxApprovals, category' \in Categories,
           approvals' = Append(approvals, NewApproval(spec, late))
    PROVE  JInv' /\ RowsKept
<1> DEFINE row == NewApproval(spec, late)
<1>1. RowOK(row)
  BY NewApprovalOK
<1> HIDE DEF row
<1>2. PICK n \in Nat : approvals = [b \in 1..n |-> approvals[b]]
  BY DEF IInv, Rows
<1>3. Len(approvals) = n /\ DOMAIN approvals = 1..n
  BY <1>2, RowsLen
<1>4. approvals' = [i \in 1..(n + 1) |-> IF i = n + 1 THEN row ELSE approvals[i]]
  BY <1>2, AppendRow DEF row
<1>5. /\ DOMAIN approvals' = 1..(n + 1) /\ approvals'[n + 1] = row
      /\ \A b \in 1..n : b \in 1..(n + 1) /\ approvals'[b] = approvals[b]
      /\ \A b \in 1..(n + 1) : b \in 1..n \/ b = n + 1
  <2>1. n + 1 \in 1..(n + 1) /\ \A b \in 1..n : b \in 1..(n + 1) /\ b # n + 1
    OBVIOUS
  <2> QED
    BY <1>4, <2>1
<1>6. Len(approvals') <= MaxApprovals
  <2>1. n + 1 \in Nat /\ approvals' = [b \in 1..(n + 1) |-> approvals'[b]]
    BY <1>4
  <2>2. \A s : \A m \in Nat : s = [b \in 1..m |-> s[b]] => Len(s) = m
    BY RowsLen
  <2>3. Len(approvals') = n + 1
    BY <2>1, <2>2
  <2> QED
    BY <1>3, <2>3, ApprovalAssumption
<1>7. \A b \in DOMAIN approvals : b \in DOMAIN approvals' /\ approvals'[b] = approvals[b]
  BY <1>3, <1>5
<1>8. \A b \in DOMAIN approvals' \ DOMAIN approvals : RowOK(approvals'[b])
  BY <1>1, <1>3, <1>5
<1> QED
  BY <1>6, <1>7, <1>8, EndKept DEF IInv

\* One pending row is written under its lock.
LEMMA WriteKept ==
    ASSUME IInv, JInv, NEW c \in Actors, End(c), UNCHANGED <<category, listed, ops>>,
           NEW a \in Pending, NEW row, RowOK(row), Keeps(approvals[a].steps, row.steps),
           approvals' = [approvals EXCEPT ![a] = row], Spares(c, a)
    PROVE  JInv' /\ RowsKept
<1>1. PICK n \in Nat : approvals = [b \in 1..n |-> approvals[b]]
  BY DEF IInv, Rows
<1>2. Len(approvals) = n /\ DOMAIN approvals = 1..n /\ a \in 1..n
  BY <1>1, RowsLen DEF Pending
<1>3. /\ approvals' = [b \in 1..n |-> approvals'[b]]
      /\ approvals'[a] = row
      /\ \A b \in 1..n : b # a => approvals'[b] = approvals[b]
      /\ DOMAIN approvals' = 1..n
  BY <1>1, <1>2
<1>4. Len(approvals') = n
  <2>1. \A s : \A m \in Nat : s = [b \in 1..m |-> s[b]] => Len(s) = m
    BY RowsLen
  <2> QED
    BY <1>3, <2>1
<1>5. Len(approvals') <= MaxApprovals /\ category' \in Categories
  BY <1>2, <1>4 DEF JInv, Bounded
<1>6. \A b \in DOMAIN approvals :
         /\ b \in DOMAIN approvals'
         /\ \/ approvals'[b] = approvals[b]
            \/ /\ RowOK(approvals'[b]) /\ Spares(c, b)
               /\ Keeps(approvals[b].steps, approvals'[b].steps)
  BY <1>2, <1>3
<1>7. DOMAIN approvals' \ DOMAIN approvals = {}
  BY <1>2, <1>3
<1> QED
  BY <1>5, <1>6, <1>7, EndKept DEF IInv

LEMMA CanAnswer ==
    ASSUME NEW row, NEW u, NEW k \in Answerable(row, u)
    PROVE  k \in DOMAIN row.steps /\ row.steps[k].state = "pending"
BY DEF Answerable, Candidates

LEMMA DecideKept ==
    ASSUME IInv, JInv, NEW c \in Clients, Decide(c) \/ Delegate(c) \/ Cancel(c)
    PROVE  JInv' /\ RowsKept
<1> DEFINE a == tx[c].a
<1>1. /\ c \in Actors /\ HasRow(c) /\ End(c) /\ UNCHANGED <<category, listed, ops>>
      /\ \A d \in Actors : ~WaitsFor(c, d)
  BY DEF Decide, Delegate, Cancel, CanFinish, HasRow, Actors
<1>2. a \in Pending /\ IsRow(approvals[a]) /\ approvals[a].state = "pending"
  BY <1>1, LockedRow
<1>3. RowOK(approvals[a])
  BY <1>2 DEF JInv, RowsOK, Pending
<1>4. Spares(c, a)
  <2>1. PendingStepsOf(a) \subseteq Needs(c)
    BY <1>1 DEF HasRow, Needs
  <2> QED
    BY <1>1, <2>1, SparesSweep DEF JInv
<1> HIDE DEF a
<1>5. PICK row : /\ approvals' = [approvals EXCEPT ![a] = row]
                 /\ RowOK(row) /\ Keeps(approvals[a].steps, row.steps)
  <2>1. CASE Decide(c)
    <3>1. PICK k \in Answerable(approvals[a], tx[c].u), answer \in {"approved", "rejected"} :
              approvals' = [approvals EXCEPT ![a] = Decided(approvals[a], k, answer)]
      BY <2>1 DEF Decide, a
    <3>2. k \in DOMAIN approvals[a].steps /\ approvals[a].steps[k].state = "pending"
      BY CanAnswer
    <3>3. LET row == Decided(approvals[a], k, answer)
          IN  RowOK(row) /\ Keeps(approvals[a].steps, row.steps)
      BY <1>2, <1>3, <3>2, DecidedOK
    <3> QED
      BY <3>1, <3>3
  <2>2. CASE Delegate(c)
    <3>1. PICK k \in Answerable(approvals[a], tx[c].u), to \in Users :
              approvals' = [approvals EXCEPT ![a] = Delegated(approvals[a], k, to)]
      BY <2>2 DEF Delegate, a
    <3>2. k \in DOMAIN approvals[a].steps /\ approvals[a].steps[k].state = "pending"
      BY CanAnswer
    <3>3. LET row == Delegated(approvals[a], k, to)
          IN  RowOK(row) /\ Keeps(approvals[a].steps, row.steps)
      BY <1>2, <1>3, <3>2, DelegatedOK
    <3> QED
      BY <3>1, <3>3
  <2>3. CASE Cancel(c)
    <3>1. approvals' = [approvals EXCEPT ![a] = Cancelled(approvals[a])]
      BY <2>3 DEF Cancel, a
    <3> QED
      BY <1>2, <1>3, <3>1, CancelledOK
  <2> QED
    BY <2>1, <2>2, <2>3
<1> QED
  BY <1>1, <1>2, <1>4, <1>5, WriteKept

LEMMA EndOnlyKept ==
    ASSUME IInv, JInv, NEW c \in Actors, End(c), UNCHANGED <<approvals, listed, ops>>,
           category' \in Categories
    PROVE  JInv' /\ RowsKept
<1>1. Len(approvals') <= MaxApprovals
  BY DEF JInv, Bounded
<1> QED
  BY <1>1, EndKept DEF IInv

LEMMA TransitionKept ==
    ASSUME IInv, JInv, NEW c \in Clients, Transition(c)
    PROVE  JInv' /\ RowsKept
<1>1. /\ c \in Actors /\ tx[c].op = "transition" /\ End(c) /\ category' = tx[c].to
      /\ \A d \in Actors : ~WaitsFor(c, d) /\ UNCHANGED <<listed, ops>>
  BY DEF Transition, CanFinish, Actors
<1>2. category' \in Categories
  BY <1>1 DEF JInv, Bounded
<1>3. CASE tx[c].to \in Settled /\ approvals' = AllCancelled
  <2>1. PICK n \in Nat : approvals = [b \in 1..n |-> approvals[b]]
    BY DEF IInv, Rows
  <2>2. Len(approvals) = n /\ DOMAIN approvals = 1..n
    BY <2>1, RowsLen
  <2>3. approvals' = [b \in 1..n |-> IF b \in Pending THEN Cancelled(approvals[b])
                                     ELSE approvals[b]]
    BY <1>3, <2>2 DEF AllCancelled
  <2>4. Len(approvals') = n /\ DOMAIN approvals' = 1..n
    <3>1. \A s : \A m \in Nat : s = [b \in 1..m |-> s[b]] => Len(s) = m /\ DOMAIN s = 1..m
      BY RowsLen
    <3>2. approvals' = [b \in 1..n |-> approvals'[b]]
      BY <2>3
    <3> QED
      BY <3>1, <3>2
  <2>5. ASSUME NEW b \in Pending
        PROVE  /\ RowOK(approvals'[b]) /\ Spares(c, b)
               /\ Keeps(approvals[b].steps, approvals'[b].steps)
    <3>1. b \in 1..n /\ IsRow(approvals[b]) /\ RowOK(approvals[b])
      BY <2>2 DEF Pending, IInv, Rows, JInv, RowsOK
    <3>2. approvals'[b] = Cancelled(approvals[b])
      BY <2>3, <3>1
    <3>3. PendingStepsOf(b) \subseteq Needs(c)
      BY <1>1, <1>3 DEF Needs
    <3>4. Spares(c, b)
      BY <1>1, <3>3, SparesSweep DEF JInv
    <3> QED
      BY <3>1, <3>2, <3>4, CancelledOK
  <2>6. \A b \in 1..n : b \notin Pending => approvals'[b] = approvals[b]
    BY <2>3
  <2>7. Len(approvals') <= MaxApprovals
    BY <2>2, <2>4 DEF JInv, Bounded
  <2>8. \A b \in DOMAIN approvals :
           /\ b \in DOMAIN approvals'
           /\ \/ approvals'[b] = approvals[b]
              \/ /\ RowOK(approvals'[b]) /\ Spares(c, b)
                 /\ Keeps(approvals[b].steps, approvals'[b].steps)
    BY <2>2, <2>4, <2>5, <2>6
  <2>9. DOMAIN approvals' \ DOMAIN approvals = {}
    BY <2>2, <2>4
  <2> QED
    BY <1>1, <1>2, <2>7, <2>8, <2>9, EndKept DEF IInv
<1>4. CASE UNCHANGED approvals
  BY <1>1, <1>2, <1>4, EndOnlyKept
<1>5. CASE /\ Len(approvals) < MaxApprovals
           /\ \E spec \in Specs : approvals' = Append(approvals, NewApproval(spec, FALSE))
  BY <1>1, <1>2, <1>5, AddKept
<1> QED
  BY <1>3, <1>4, <1>5 DEF Transition

LEMMA TimeoutKept ==
    ASSUME IInv, JInv, Timeout
    PROVE  JInv' /\ RowsKept
<1> DEFINE a == tx[Sweeper].a
           k == tx[Sweeper].k
<1>1. /\ Sweeper \in Actors /\ tx[Sweeper].op = "timeout" /\ End(Sweeper)
      /\ UNCHANGED <<category, listed, ops>>
      /\ approvals' = IF a \in Pending THEN [approvals EXCEPT ![a] = TimedOut(approvals[a], k)]
                      ELSE approvals
  BY DEF Timeout, CanFinish, Actors
<1>2. k \in DOMAIN approvals[a].steps /\ approvals[a].steps[k].state = "pending"
  BY <1>1 DEF JInv, Aimed, PendingSteps
<1>3. Spares(Sweeper, a)
  BY DEF Spares
<1> HIDE DEF a, k
<1>4. CASE a \in Pending
  <2> DEFINE row == TimedOut(approvals[a], k)
  <2>1. RowOK(approvals[a]) /\ approvals[a].state = "pending"
    BY <1>4 DEF Pending, JInv, RowsOK
  <2>2. RowOK(row) /\ Keeps(approvals[a].steps, row.steps)
    BY <1>2, <2>1, TimedOutOK
  <2>3. approvals' = [approvals EXCEPT ![a] = row]
    BY <1>1, <1>4
  <2> HIDE DEF row
  <2> QED
    BY <1>1, <1>3, <1>4, <2>2, <2>3, WriteKept
<1>5. CASE a \notin Pending
  <2>1. category' \in Categories /\ UNCHANGED approvals
    BY <1>1, <1>5 DEF JInv, Bounded
  <2> QED
    BY <1>1, <2>1, EndOnlyKept
<1> QED
  BY <1>4, <1>5

LEMMA SweepKept ==
    ASSUME IInv, JInv, ListDue \/ OpenTimeout
    PROVE  JInv' /\ RowsKept
<1> USE DEF JInv
<1>1. UNCHANGED <<category, approvals, ops>> /\ Sweeper \in Actors
  BY DEF ListDue, OpenTimeout, Actors
<1>2. RowsOK' /\ RowsKept
  <2>1. RowsOK'
    BY <1>1, RowsOKNext DEF RowsOK
  <2> QED
    BY <1>1, <2>1, SameKept DEF RowsKept
<1>3. CASE ListDue
  <2>1. PICK e \in Due : listed' = {e}
    BY <1>3 DEF ListDue
  <2>2. PICK a \in DOMAIN approvals : \E k \in DOMAIN approvals[a].steps : e = StepOf(a, k)
    BY DEF Due
  <2>3. Listed'
    BY <1>1, <2>1, <2>2 DEF Listed, StepOf
  <2>4. Bounded' /\ Aimed'
    BY <1>1, <1>3 DEF ListDue, Bounded, Aimed, PendingSteps
  <2> QED
    BY <1>2, <2>3, <2>4
<1>4. CASE OpenTimeout
  <2>1. PICK e \in listed :
           /\ listed' = listed \ {e}
           /\ IF IsDue(approvals[e[1]].steps[e[2]])
              THEN tx' = [tx EXCEPT ![Sweeper] = [op |-> "timeout", a |-> e[1], k |-> e[2]]]
              ELSE UNCHANGED tx
    BY <1>4 DEF OpenTimeout
  <2>2. Listed'
    BY <1>1, <2>1 DEF Listed, StepOf
  <2>3. CASE UNCHANGED tx
    BY <1>1, <1>2, <2>2, <2>3 DEF Bounded, Aimed, PendingSteps
  <2>4. CASE /\ IsDue(approvals[e[1]].steps[e[2]])
             /\ tx' = [tx EXCEPT ![Sweeper] = [op |-> "timeout", a |-> e[1], k |-> e[2]]]
    <3>1. PICK a \in DOMAIN approvals : \E k \in DOMAIN approvals[a].steps : e = StepOf(a, k)
      BY DEF Listed
    <3>2. PICK k \in DOMAIN approvals[a].steps : e = <<a, k>>
      BY <3>1 DEF StepOf
    <3>3. /\ tx'[Sweeper].op = "timeout" /\ tx'[Sweeper].a = a /\ tx'[Sweeper].k = k
          /\ \A d \in Actors : d # Sweeper => tx'[d] = tx[d]
      BY <1>1, <2>4, <3>2 DEF IInv, Transactions
    <3>4. approvals[a].steps[k].state = "pending"
      BY <2>4, <3>2 DEF IsDue
    <3>5. Aimed'
      BY <1>1, <3>3, <3>4 DEF Aimed, PendingSteps
    <3>6. Bounded'
      BY <1>1, <3>3 DEF Bounded
    <3> QED
      BY <1>2, <2>2, <3>5, <3>6
  <2> QED
    BY <2>1, <2>3, <2>4
<1> QED
  BY <1>3, <1>4

LEMMA InitJInv == Init => JInv
<1> SUFFICES ASSUME Init PROVE JInv
  OBVIOUS
<1>1. /\ approvals = <<>> /\ DOMAIN approvals = {} /\ Len(approvals) = 0
      /\ category = "open" /\ listed = {} /\ ops = 0
      /\ \A c \in Actors : tx[c].op = "idle"
  BY DEF Init, Idle
<1>2. RowsOK /\ Listed
  BY <1>1 DEF RowsOK, Listed
<1>3. Bounded
  BY <1>1, ApprovalAssumption DEF Bounded, Categories
<1>4. Aimed
  BY <1>1 DEF Aimed, Actors
<1> QED
  BY <1>2, <1>3, <1>4 DEF JInv

LEMMA StepJInv ==
    ASSUME IInv, JInv, [Next]_vars
    PROVE  JInv' /\ (RowsKept \/ UNCHANGED vars)
<1>1. ASSUME NEW c \in Clients,
             \/ OpenStart(c)
             \/ \E a \in DOMAIN approvals, u \in Users : OpenDecide(c, a, u)
             \/ \E a \in DOMAIN approvals : OpenCancel(c, a)
             \/ \E to \in Categories, system \in BOOLEAN : OpenTransition(c, to, system)
      PROVE  JInv' /\ RowsKept
  BY <1>1, OpenKept
<1>2. ASSUME NEW c \in Clients, CommitStart(c) PROVE JInv' /\ RowsKept
  <2>1. /\ c \in Actors /\ End(c) /\ UNCHANGED <<category, listed, ops>>
        /\ Len(approvals) < MaxApprovals
        /\ \E spec \in Specs :
              approvals' = Append(approvals, NewApproval(spec, category \in Settled))
    BY <1>2 DEF CommitStart, Actors
  <2>2. category' \in Categories
    BY <2>1 DEF JInv, Bounded
  <2> DEFINE late == category \in Settled
  <2>3. PICK spec \in Specs : approvals' = Append(approvals, NewApproval(spec, late))
    BY <2>1
  <2>4. late \in BOOLEAN
    OBVIOUS
  <2> HIDE DEF late
  <2> QED
    BY <2>1, <2>2, <2>3, <2>4, AddKept
<1>3. ASSUME NEW c \in Clients, Decide(c) \/ Delegate(c) \/ Cancel(c) PROVE JInv' /\ RowsKept
  BY <1>3, DecideKept
<1>4. ASSUME NEW c \in Clients, Transition(c) PROVE JInv' /\ RowsKept
  BY <1>4, TransitionKept
<1>5. ASSUME NEW c \in Actors, DeadlockVictim(c) PROVE JInv' /\ RowsKept
  <2>1. End(c) /\ UNCHANGED <<category, approvals, listed, ops>>
    BY <1>5 DEF DeadlockVictim
  <2>2. category' \in Categories
    BY <2>1 DEF JInv, Bounded
  <2> QED
    BY <2>1, <2>2, EndOnlyKept
<1>6. CASE ListDue \/ OpenTimeout
  BY <1>6, SweepKept
<1>7. CASE Timeout
  BY <1>7, TimeoutKept
<1>8. CASE UNCHANGED vars
  <2>1. RowsOK'
    BY <1>8, RowsOKNext DEF JInv, RowsOK, vars
  <2> QED
    BY <1>8, <2>1 DEF JInv, Bounded, Listed, Aimed, PendingSteps, vars
<1> QED
  BY <1>1, <1>2, <1>3, <1>4, <1>5, <1>6, <1>7, <1>8 DEF Next

LEMMA RowsInductive == Spec => []JInv
BY InitJInv, StepJInv, Inductive, PTL DEF Spec

-----------------------------------------------------------------------------
\* A granted or refused approval has the votes its definition asks for, its
\* stored state is what the votes say, and a pending one asks somebody: for every
\* list of stages, every mode and quorum, every group, and every order of votes,
\* delegations, timeouts, cancellations and moves of the ticket.
THEOREM ApprovalVerdictIsSound == Spec => []VerdictIsSound
<1>1. ASSUME IInv, JInv PROVE TypeOK
  <2>1. PICK n \in Nat : approvals = [a \in 1..n |-> approvals[a]]
    BY <1>1 DEF IInv, Rows
  <2>2. DOMAIN approvals = 1..n /\ Len(approvals) = n
    BY <2>1, RowsLen
  <2>3. \A a \in DOMAIN approvals :
           /\ RowOK(approvals[a])
           /\ approvals[a].steps \in Seq(StepRec(approvals[a].spec))
    BY <1>1 DEF JInv, RowsOK, RowOK, Steps
  <2>4. ASSUME NEW a \in DOMAIN approvals, NEW k \in DOMAIN approvals[a].steps
        PROVE  /\ a \in 1..MaxApprovals /\ k \in Nat
               /\ approvals[a].steps[k] \in StepRec(approvals[a].spec)
    <3>1. DOMAIN approvals[a].steps = 1..Len(approvals[a].steps) /\ Len(approvals[a].steps) \in Nat
      BY <2>3, LenProperties
    <3>2. a \in 1..MaxApprovals
      BY <1>1, <2>2, ApprovalAssumption DEF JInv, Bounded
    <3> QED
      BY <2>3, <3>1, <3>2, StepType
  <2>5. listed \in SUBSET ((1..MaxApprovals) \X Nat)
    BY <1>1, <2>4 DEF JInv, Listed, StepOf
  <2> QED
    BY <1>1, <2>3, <2>4, <2>5 DEF TypeOK, JInv, Bounded, RowOK, StepRec
<1>2. JInv => VerdictMatchesVotes
  BY DEF JInv, RowsOK, RowOK, VerdictMatchesVotes
<1>3. JInv => VerdictIsEarned
  BY EarnedRow DEF JInv, RowsOK, VerdictIsEarned
<1>4. JInv => SomebodyIsAsked
  BY DEF JInv, RowsOK, RowOK, SomebodyIsAsked, Pending, AsksSomebody, Candidates
<1>5. IInv /\ JInv => VerdictIsSound
  BY <1>1, <1>2, <1>3, <1>4 DEF VerdictIsSound
<1> QED
  BY <1>5, Inductive, RowsInductive, PTL

\* A vote, a delegation, a timeout and a cancellation that meet leave the first
\* decision of every step as it was.
THEOREM ApprovalDecisionIsFinal == Spec => DecisionIsFinal
<1> DEFINE Final == \A a \in DOMAIN approvals : \A k \in DOMAIN approvals[a].steps :
                       approvals[a].steps[k].state # "pending" =>
                           approvals'[a].steps[k] = approvals[a].steps[k]
<1>1. IInv /\ JInv /\ [Next]_vars => [Final]_vars
  BY StepJInv DEF RowsKept, Keeps
<1>2. Spec => [][Final]_vars
  BY <1>1, Inductive, RowsInductive, PTL DEF Spec
<1> QED
  BY <1>2 DEF DecisionIsFinal

=============================================================================
