----------------------------- MODULE PlanProofs -----------------------------
(***************************************************************************)
(* Theorems of Plans: what the plans table and the tasks made from it keep *)
(* while plans are proposed, revised, edited and decided and specs change  *)
(* under them.  The invariant is stated of a table, the approvals and what *)
(* people approved, so that a revision, which closes one plan and adds     *)
(* another, is two uses of two lemmas.                                     *)
(***************************************************************************)
EXTENDS Plans, TLAPS

-----------------------------------------------------------------------------
(* The specs: what SpecProofs proves of their rows, whose processes play no  *)
(* part in it.                                                             *)

Committed ==
  INSTANCE SpecProofs WITH
    MayCrash <- FALSE, UsedCalls <- {}, MaxCalls <- 0,
    indexed <- <<>>, pc <- <<>>, mem <- <<>>, calls <- 0

LEMMA RowsInitially == SpecInit => RowsInv
<1>1. SpecInit => Committed!SpecInit
  BY DEF SpecInit, Unwritten, NoText, NoSpec, Committed!SpecInit, Committed!Unwritten,
         Committed!NoText, Committed!NoSpec
<1>2. Committed!SpecInit => Committed!RowsInv
  BY Committed!RowsInitially, RowsAssumption, PlansAssumption
<1>3. QED
  BY <1>1, <1>2
  DEF RowsInv, RowsTypeOK, Numbered, HistoryIsWhole, ApprovedTextIsVouched, Exists, Version,
      Replaced, Rows, Versions, NoText, NoSpec,
      Committed!RowsInv, Committed!RowsTypeOK, Committed!Numbered, Committed!HistoryIsWhole,
      Committed!ApprovedTextIsVouched, Committed!Exists, Committed!Version,
      Committed!Replaced, Committed!Rows, Committed!Versions, Committed!NoText,
      Committed!NoSpec

LEMMA RowsStep ==
  ASSUME RowsInv, [SpecNext]_specVars
  PROVE  /\ RowsInv'
         /\ \A s \in Specs : Exists(s) => Later(row[s], row'[s])
         /\ vouched \subseteq vouched'
<1>1. Committed!RowsInv
  BY DEF RowsInv, RowsTypeOK, Numbered, HistoryIsWhole, ApprovedTextIsVouched, Exists, Version,
      Replaced, Rows, Versions, NoText, NoSpec,
      Committed!RowsInv, Committed!RowsTypeOK, Committed!Numbered, Committed!HistoryIsWhole,
      Committed!ApprovedTextIsVouched, Committed!Exists, Committed!Version,
      Committed!Replaced, Committed!Rows, Committed!Versions, Committed!NoText,
      Committed!NoSpec
<1>2. [Committed!SpecNext]_Committed!specVars
  BY DEF SpecNext, specVars, Add, Revise, Approve, Supersede, Exists, Version, NoSpec,
      Committed!SpecNext, Committed!specVars, Committed!Add, Committed!Revise,
      Committed!Approve, Committed!Supersede, Committed!Exists, Committed!Version,
      Committed!NoSpec
<1>3. Committed!RowsInv'
  BY <1>1, <1>2, Committed!RowsStep, RowsAssumption, PlansAssumption
<1>4. RowsInv'
  BY <1>3
  DEF RowsInv, RowsTypeOK, Numbered, HistoryIsWhole, ApprovedTextIsVouched, Exists, Version,
      Replaced, Rows, Versions, NoText, NoSpec,
      Committed!RowsInv, Committed!RowsTypeOK, Committed!Numbered, Committed!HistoryIsWhole,
      Committed!ApprovedTextIsVouched, Committed!Exists, Committed!Version,
      Committed!Replaced, Committed!Rows, Committed!Versions, Committed!NoText,
      Committed!NoSpec
<1>5. /\ \A s \in Specs : Committed!Exists(s) => Committed!Later(row[s], row'[s])
      /\ vouched \subseteq vouched'
  BY <1>1, <1>2, Committed!RowsGrow, RowsAssumption, PlansAssumption
<1>6. QED
  BY <1>4, <1>5 DEF Exists, Later, Committed!Exists, Committed!Later

-----------------------------------------------------------------------------
(* The invariant.                                                          *)
Approvals(P) == [plan : DOMAIN P, tasks : Tasks, of : Versions]

\* Numbers grow with ids; a draft is the last plan of its spec; and a spec that
\* has plans has a last one.
Grows(P) ==
  \A i, j \in DOMAIN P : (P[i].spec = P[j].spec /\ i < j) => P[i].version < P[j].version
DraftIsLast(P) ==
  \A i, j \in DOMAIN P : (P[i].spec = P[j].spec /\ P[i].status = "draft") => j <= i
HasLast(P) ==
  \A i \in DOMAIN P : \E n \in DOMAIN P :
    /\ P[n].spec = P[i].spec
    /\ \A j \in DOMAIN P : P[j].spec = P[i].spec => j <= n

Decided(P, C) ==
  /\ \A i \in DOMAIN P : P[i].status = "approved" <=> \E n \in DOMAIN C : C[n].plan = i
  /\ \A m, n \in DOMAIN C : C[m].plan = C[n].plan => m = n
  /\ \A n \in DOMAIN C : C[n].tasks = TasksOf(P[C[n].plan])

Backs(W, s, version) == \E v \in W : v.spec = s /\ v.version = version
Rests(P, C, W) ==
  /\ \A i \in DOMAIN P : Backs(W, P[i].spec, P[i].specVersion)
  /\ \A n \in DOMAIN C : /\ C[n].of \in W
                         /\ C[n].of.spec = P[C[n].plan].spec
                         /\ C[n].of.version = P[C[n].plan].specVersion

Good(P, C, W) ==
  /\ P \in Seq(PlanRecords) /\ C \in Seq(Approvals(P))
  /\ Grows(P) /\ DraftIsLast(P) /\ HasLast(P)
  /\ Decided(P, C) /\ Rests(P, C, W)

-----------------------------------------------------------------------------
(* Sequences.                                                              *)

LEMMA Appended ==
  ASSUME NEW R, NEW P \in Seq(R), NEW x \in R
  PROVE  /\ Append(P, x) \in Seq(R)
         /\ DOMAIN Append(P, x) = DOMAIN P \union {Len(P) + 1}
         /\ Append(P, x)[Len(P) + 1] = x
         /\ \A i \in DOMAIN P : /\ Append(P, x)[i] = P[i]
                                /\ P[i] \in R
                                /\ i \in Nat /\ i < Len(P) + 1
         /\ Len(P) + 1 \in Nat
         /\ Len(P) + 1 \notin DOMAIN P
OBVIOUS

LEMMA Rewritten ==
  ASSUME NEW R, NEW P \in Seq(R), NEW i \in DOMAIN P, NEW q \in R
  PROVE  /\ [P EXCEPT ![i] = q] \in Seq(R)
         /\ DOMAIN [P EXCEPT ![i] = q] = DOMAIN P
         /\ [P EXCEPT ![i] = q][i] = q
         /\ \A j \in DOMAIN P : j # i => [P EXCEPT ![i] = q][j] = P[j]
         /\ \A j \in DOMAIN P : j \in Nat /\ P[j] \in R
OBVIOUS

LEMMA WiderApprovals ==
  ASSUME NEW P, NEW Q, DOMAIN P \subseteq DOMAIN Q, NEW C \in Seq(Approvals(P))
  PROVE  C \in Seq(Approvals(Q))
<1>1. Approvals(P) \subseteq Approvals(Q)
  BY DEF Approvals
<1>2. QED
  BY <1>1

-----------------------------------------------------------------------------
(* The three things that happen to the table.                              *)

\* A draft is rewritten, rejected or replaced.
LEMMA DraftClosed ==
  ASSUME NEW P, NEW C, NEW W, Good(P, C, W),
         NEW i \in DOMAIN P, P[i].status = "draft",
         NEW q \in PlanRecords,
         q.spec = P[i].spec, q.version = P[i].version, q.specVersion = P[i].specVersion,
         q.status # "approved"
  PROVE  Good([P EXCEPT ![i] = q], C, W)
<1> DEFINE Q == [P EXCEPT ![i] = q]
<1>0. P \in Seq(PlanRecords) /\ C \in Seq(Approvals(P))
  BY DEF Good
<1>1. /\ Q \in Seq(PlanRecords) /\ DOMAIN Q = DOMAIN P /\ Q[i] = q
      /\ \A j \in DOMAIN P : (j # i => Q[j] = P[j]) /\ j \in Nat
  BY <1>0, Rewritten
<1> HIDE DEF Q
<1>2. \A j \in DOMAIN P : /\ Q[j].spec = P[j].spec /\ Q[j].version = P[j].version
                          /\ Q[j].specVersion = P[j].specVersion
                          /\ Q[j].status = "draft" => P[j].status = "draft"
                          /\ Q[j].status = "approved" <=> P[j].status = "approved"
  BY <1>1
<1>3. C \in Seq(Approvals(Q))
  BY <1>0, <1>1, WiderApprovals
<1>4. Grows(Q) /\ DraftIsLast(Q) /\ HasLast(Q)
  <2>1. Grows(Q)
    BY <1>1, <1>2 DEF Good, Grows
  <2>2. DraftIsLast(Q)
    BY <1>1, <1>2 DEF Good, DraftIsLast
  <2>3. HasLast(Q)
    BY <1>1, <1>2 DEF Good, HasLast
  <2>4. QED
    BY <2>1, <2>2, <2>3
<1>5. \A n \in DOMAIN C : C[n].plan \in DOMAIN P /\ C[n].plan # i
  <2>1. \A n \in DOMAIN C : C[n] \in Approvals(P)
    BY <1>0
  <2>2. \A n \in DOMAIN C : C[n].plan # i
    BY DEF Good, Decided
  <2>3. QED
    BY <2>1, <2>2 DEF Approvals
<1>6. Decided(Q, C)
  <2>1. Decided(P, C)
    BY DEF Good
  <2>2. \A j \in DOMAIN Q : Q[j].status = "approved" <=> \E n \in DOMAIN C : C[n].plan = j
    BY <1>1, <1>2, <2>1 DEF Decided
  <2>3. \A n \in DOMAIN C : C[n].tasks = TasksOf(Q[C[n].plan])
    BY <1>1, <1>5, <2>1 DEF Decided
  <2>4. QED
    BY <2>1, <2>2, <2>3 DEF Decided
<1>7. Rests(Q, C, W)
  BY <1>1, <1>2, <1>5 DEF Good, Rests
<1>8. QED
  BY <1>1, <1>3, <1>4, <1>6, <1>7 DEF Good, Q

\* A draft is added for a spec that has none, numbered above its others.
LEMMA DraftAdded ==
  ASSUME NEW P, NEW C, NEW W, Good(P, C, W),
         NEW x \in PlanRecords, x.status = "draft",
         \A j \in DOMAIN P : P[j].spec = x.spec => /\ P[j].status # "draft"
                                                   /\ P[j].version < x.version,
         Backs(W, x.spec, x.specVersion)
  PROVE  Good(Append(P, x), C, W)
<1> DEFINE Q == Append(P, x)
           k == Len(P) + 1
<1>0. P \in Seq(PlanRecords) /\ C \in Seq(Approvals(P))
  BY DEF Good
<1>1. /\ Q \in Seq(PlanRecords) /\ DOMAIN Q = DOMAIN P \union {k} /\ Q[k] = x
      /\ k \in Nat /\ k \notin DOMAIN P
      /\ \A j \in DOMAIN P : Q[j] = P[j] /\ j \in Nat /\ j < k
  BY <1>0, Appended
<1> HIDE DEF Q, k
<1>2. \A j \in DOMAIN Q : j <= k /\ j \in Nat
  BY <1>1
<1>3. C \in Seq(Approvals(Q))
  BY <1>0, <1>1, WiderApprovals
<1>4. Grows(Q)
  BY <1>1, <1>2 DEF Good, Grows
<1>5. DraftIsLast(Q)
  <2> SUFFICES ASSUME NEW i \in DOMAIN Q, NEW j \in DOMAIN Q,
                      Q[i].spec = Q[j].spec, Q[i].status = "draft"
               PROVE  j <= i
    BY DEF DraftIsLast
  <2>1. CASE i = k
    BY <1>2, <2>1
  <2>2. CASE i # k
    <3>1. i \in DOMAIN P /\ Q[i] = P[i]
      BY <1>1, <2>2
    <3>2. j # k
      BY <1>1, <3>1
    <3>3. j \in DOMAIN P /\ Q[j] = P[j]
      BY <1>1, <3>2
    <3>4. QED
      BY <3>1, <3>3 DEF Good, DraftIsLast
  <2>3. QED
    BY <2>1, <2>2
<1>6. HasLast(Q)
  <2> SUFFICES ASSUME NEW i \in DOMAIN Q
               PROVE  \E n \in DOMAIN Q : /\ Q[n].spec = Q[i].spec
                                          /\ \A j \in DOMAIN Q : Q[j].spec = Q[i].spec => j <= n
    BY DEF HasLast
  <2>1. CASE Q[i].spec = x.spec
    BY <1>1, <1>2, <2>1
  <2>2. CASE Q[i].spec # x.spec
    <3>1. i \in DOMAIN P /\ Q[i] = P[i]
      BY <1>1, <2>2
    <3>2. PICK n \in DOMAIN P : /\ P[n].spec = P[i].spec
                                /\ \A j \in DOMAIN P : P[j].spec = P[i].spec => j <= n
      BY <3>1 DEF Good, HasLast
    <3>3. \A j \in DOMAIN Q : Q[j].spec = Q[i].spec => (j \in DOMAIN P /\ Q[j] = P[j])
      BY <1>1, <2>2
    <3>4. QED
      BY <1>1, <3>1, <3>2, <3>3
  <2>3. QED
    BY <2>1, <2>2
<1>7. \A n \in DOMAIN C : C[n].plan \in DOMAIN P /\ C[n].plan # k
  <2>1. \A n \in DOMAIN C : C[n] \in Approvals(P)
    BY <1>0
  <2>2. QED
    BY <1>1, <2>1 DEF Approvals
<1>8. Decided(Q, C)
  <2>1. Decided(P, C)
    BY DEF Good
  <2>2. \A j \in DOMAIN Q : Q[j].status = "approved" <=> \E n \in DOMAIN C : C[n].plan = j
    BY <1>1, <1>7, <2>1 DEF Decided
  <2>3. \A n \in DOMAIN C : C[n].tasks = TasksOf(Q[C[n].plan])
    BY <1>1, <1>7, <2>1 DEF Decided
  <2>4. QED
    BY <2>1, <2>2, <2>3 DEF Decided
<1>9. Rests(Q, C, W)
  BY <1>1, <1>7 DEF Good, Rests
<1>10. QED
  BY <1>1, <1>3, <1>4, <1>5, <1>6, <1>8, <1>9 DEF Good, Q

LEMMA TasksTyped ==
  ASSUME NEW plan \in PlanRecords
  PROVE  TasksOf(plan) \in Tasks
<1>1. PICK R \in SUBSET Refs : plan.items \in [R -> Wordings]
  BY DEF PlanRecords, Items
<1>2. Kept(plan) \subseteq R
  BY <1>1 DEF Kept
<1>3. TasksOf(plan) \in [Kept(plan) -> [wording : Wordings, needs : SUBSET Refs]]
  BY <1>1, <1>2 DEF TasksOf
<1>4. QED
  BY <1>1, <1>2, <1>3 DEF Tasks

\* A draft for the version people approved becomes an approved plan and its tasks.
LEMMA DraftApproved ==
  ASSUME NEW P, NEW C, NEW W, Good(P, C, W),
         NEW i \in DOMAIN P, P[i].status = "draft",
         NEW v \in W, v \in Versions, v.spec = P[i].spec, v.version = P[i].specVersion
  PROVE  Good([P EXCEPT ![i].status = "approved"],
              Append(C, [plan |-> i, tasks |-> TasksOf(P[i]), of |-> v]), W)
<1> DEFINE q == [P[i] EXCEPT !.status = "approved"]
           Q == [P EXCEPT ![i] = q]
           a == [plan |-> i, tasks |-> TasksOf(P[i]), of |-> v]
           D == Append(C, a)
           k == Len(C) + 1
<1>0. P \in Seq(PlanRecords) /\ C \in Seq(Approvals(P)) /\ P[i] \in PlanRecords
  BY DEF Good
<1>1. /\ q \in PlanRecords /\ q.status = "approved"
      /\ q.spec = P[i].spec /\ q.version = P[i].version /\ q.specVersion = P[i].specVersion
      /\ TasksOf(q) = TasksOf(P[i])
  <2>1. q \in PlanRecords
    BY <1>0 DEF PlanRecords, PlanStatuses
  <2>2. /\ q.status = "approved" /\ q.spec = P[i].spec /\ q.version = P[i].version
        /\ q.specVersion = P[i].specVersion
        /\ q.items = P[i].items /\ q.dropped = P[i].dropped /\ q.needs = P[i].needs
    BY <1>0 DEF PlanRecords
  <2> HIDE DEF q
  <2>3. Kept(q) = Kept(P[i])
    BY <2>2 DEF Kept
  <2>4. TasksOf(q) = TasksOf(P[i])
    BY <2>2, <2>3 DEF TasksOf
  <2>5. QED
    BY <2>1, <2>2, <2>4
<1>2. a \in Approvals(P) /\ a.plan = i /\ a.tasks = TasksOf(P[i]) /\ a.of = v
  BY <1>0, TasksTyped DEF Approvals
<1> HIDE DEF q, a
<1>3. /\ Q \in Seq(PlanRecords) /\ DOMAIN Q = DOMAIN P /\ Q[i] = q
      /\ \A j \in DOMAIN P : (j # i => Q[j] = P[j]) /\ j \in Nat
  BY <1>0, <1>1, Rewritten
<1>4. /\ D \in Seq(Approvals(P)) /\ DOMAIN D = DOMAIN C \union {k} /\ D[k] = a
      /\ k \notin DOMAIN C
      /\ \A n \in DOMAIN C : D[n] = C[n] /\ C[n] \in Approvals(P)
  BY <1>0, <1>2, Appended
<1> HIDE DEF Q, D, k
<1>5. \A j \in DOMAIN P : /\ Q[j].spec = P[j].spec /\ Q[j].version = P[j].version
                          /\ Q[j].specVersion = P[j].specVersion
                          /\ Q[j].status = "draft" => P[j].status = "draft"
                          /\ Q[j].status = "approved" <=> P[j].status = "approved" \/ j = i
                          /\ TasksOf(Q[j]) = TasksOf(P[j])
  BY <1>1, <1>3
<1>6. D \in Seq(Approvals(Q))
  BY <1>3, <1>4, WiderApprovals
<1>7. Grows(Q) /\ DraftIsLast(Q) /\ HasLast(Q)
  <2>1. Grows(Q)
    BY <1>3, <1>5 DEF Good, Grows
  <2>2. DraftIsLast(Q)
    BY <1>3, <1>5 DEF Good, DraftIsLast
  <2>3. HasLast(Q)
    BY <1>3, <1>5 DEF Good, HasLast
  <2>4. QED
    BY <2>1, <2>2, <2>3
<1>8. \A n \in DOMAIN C : C[n].plan \in DOMAIN P /\ C[n].plan # i
  <2>1. \A n \in DOMAIN C : C[n].plan \in DOMAIN P
    BY <1>4 DEF Approvals
  <2>2. \A n \in DOMAIN C : C[n].plan # i
    BY DEF Good, Decided
  <2>3. QED
    BY <2>1, <2>2
<1>9. Decided(Q, D)
  <2>1. Decided(P, C)
    BY DEF Good
  <2>2. \A j \in DOMAIN Q : Q[j].status = "approved" <=> \E n \in DOMAIN D : D[n].plan = j
    BY <1>2, <1>3, <1>4, <1>5, <2>1 DEF Decided
  <2>3. \A m, n \in DOMAIN D : D[m].plan = D[n].plan => m = n
    BY <1>2, <1>4, <1>8, <2>1 DEF Decided
  <2>4. \A n \in DOMAIN D : D[n].tasks = TasksOf(Q[D[n].plan])
    BY <1>2, <1>4, <1>5, <1>8, <2>1 DEF Decided
  <2>5. QED
    BY <2>2, <2>3, <2>4 DEF Decided
<1>10. Rests(Q, D, W)
  <2>1. Rests(P, C, W)
    BY DEF Good
  <2>2. \A n \in DOMAIN D : /\ D[n].of \in W
                            /\ D[n].of.spec = Q[D[n].plan].spec
                            /\ D[n].of.version = Q[D[n].plan].specVersion
    BY <1>2, <1>4, <1>5, <1>8, <2>1 DEF Rests
  <2>3. QED
    BY <1>3, <1>5, <2>1, <2>2 DEF Rests
<1>11. Good(Q, D, W)
  BY <1>3, <1>6, <1>7, <1>9, <1>10 DEF Good
<1>12. QED
  BY <1>11 DEF Q, q, D, a

\* Nobody's approval is taken back.
LEMMA MoreVouched ==
  ASSUME NEW P, NEW C, NEW W, Good(P, C, W), NEW V, W \subseteq V
  PROVE  Good(P, C, V)
<1>1. Rests(P, C, V)
  BY DEF Good, Rests, Backs
<1>2. QED
  BY <1>1 DEF Good

-----------------------------------------------------------------------------
(* The invariant.                                                          *)

\* What people approved is a version the spec still has or has had.
VouchedAreVersions == \A v \in vouched : v.spec \in Specs /\ Later(v, row[v.spec])

\* What a process holds is of a plan there is, and was read of an approved spec.
Holds(at, m, P, W) ==
  \/ at = "idle" /\ m = Nothing
  \/ at = "propose" /\ m \in ProposeMem /\ Backs(W, m.spec, m.specVersion)
  \/ /\ at = "revise"
     /\ m \in [op : {"revise"}, plan : DOMAIN P, specVersion : Nat, in : ValidInputs]
     /\ Backs(W, P[m.plan].spec, m.specVersion)
  \/ at = "approve" /\ m \in [op : {"approve"}, plan : DOMAIN P]

IInv ==
  /\ RowsInv
  /\ VouchedAreVersions
  /\ Good(plans, created, vouched)
  /\ DOMAIN pc = Procs /\ DOMAIN mem = Procs
  /\ \A p \in Procs : Holds(pc[p], mem[p], plans, vouched)
  /\ calls \in Nat

LEMMA PlansInitially == Init => IInv
<1> SUFFICES ASSUME Init PROVE IInv
  OBVIOUS
<1>1. RowsInv /\ vouched = {} /\ plans = <<>> /\ created = <<>>
  BY RowsInitially DEF Init, SpecInit
<1>2. DOMAIN plans = {} /\ DOMAIN created = {}
  BY <1>1
<1>3. plans \in Seq(PlanRecords) /\ created \in Seq(Approvals(plans))
  BY <1>1
<1>4. Good(plans, created, vouched)
  BY <1>2, <1>3 DEF Good, Grows, DraftIsLast, HasLast, Decided, Rests
<1>5. QED
  BY <1>1, <1>4 DEF Init, IInv, VouchedAreVersions, Holds

\* Plans keep their specs and people their approvals, so what a process holds
\* stays true.
LEMMA HeldStays ==
  ASSUME NEW P, NEW Q, NEW W, NEW V, W \subseteq V, DOMAIN P \subseteq DOMAIN Q,
         \A i \in DOMAIN P : Q[i].spec = P[i].spec,
         NEW at, NEW m, Holds(at, m, P, W)
  PROVE  Holds(at, m, Q, V)
<1>1. CASE at = "revise"
  <2>1. /\ m \in [op : {"revise"}, plan : DOMAIN P, specVersion : Nat, in : ValidInputs]
        /\ Backs(W, P[m.plan].spec, m.specVersion)
    BY <1>1 DEF Holds
  <2>2. m \in [op : {"revise"}, plan : DOMAIN Q, specVersion : Nat, in : ValidInputs]
    BY <2>1
  <2>3. m.plan \in DOMAIN P
    BY <2>1
  <2>4. Backs(V, Q[m.plan].spec, m.specVersion)
    BY <2>1, <2>3 DEF Backs
  <2>5. QED
    BY <1>1, <2>2, <2>4 DEF Holds
<1>2. CASE at = "propose"
  BY <1>2 DEF Holds, Backs
<1>3. CASE at = "approve"
  BY <1>3 DEF Holds
<1>4. QED
  BY <1>1, <1>2, <1>3 DEF Holds

LEMMA VouchedStay ==
  ASSUME RowsInv, RowsInv', VouchedAreVersions, [SpecNext]_specVars
  PROVE  VouchedAreVersions'
<1>1. \A s \in Specs : Exists(s) => Later(row[s], row'[s])
  BY RowsStep
<1>2. \A s \in Specs : row[s].version \in Nat /\ row'[s].version \in Nat
  BY DEF RowsInv, RowsTypeOK, Rows
<1>3. ASSUME NEW v \in vouched
      PROVE  v.spec \in Specs /\ Later(v, row'[v.spec])
  <2>1. v.spec \in Specs /\ Later(v, row[v.spec]) /\ v.version \in Nat
    BY DEF VouchedAreVersions, RowsInv, RowsTypeOK, Versions
  <2>2. Later(row[v.spec], row'[v.spec])
    BY <1>1, <2>1 DEF Exists, Later
  <2>3. QED
    BY <1>2, <2>1, <2>2 DEF Later
<1>4. CASE vouched' = vouched
  BY <1>3, <1>4 DEF VouchedAreVersions
<1>5. ASSUME NEW s \in Specs, Approve(s)
      PROVE  VouchedAreVersions'
  <2>1. vouched' = vouched \union {Version(s)} /\ Exists(s)
    BY <1>5 DEF Approve, Exists
  <2>2. Version(s).spec = s /\ Version(s).version = row[s].version /\ Version(s).text = row[s].text
    BY DEF Version
  <2>3. Later(Version(s), row'[s])
    BY <1>1, <2>1, <2>2 DEF Later
  <2>4. QED
    BY <1>3, <2>1, <2>2, <2>3 DEF VouchedAreVersions
<1>6. QED
  BY <1>4, <1>5 DEF SpecNext, Add, Revise, Supersede, specVars

-----------------------------------------------------------------------------
(* Each step.                                                              *)

\* A spec that has plans has a highest number among them, so the next is higher.
LEMMA NextIsHigher ==
  ASSUME Good(plans, created, vouched), NEW s
  PROVE  /\ NextVersion(s) \in Nat
         /\ \A i \in Of(s) : plans[i].version < NextVersion(s)
<1>1. \A i \in DOMAIN plans : plans[i] \in PlanRecords
  BY DEF Good
<1>2. \A i \in DOMAIN plans : plans[i].version \in Nat /\ i \in Nat
  BY <1>1 DEF PlanRecords, Good
<1>3. CASE Of(s) = {}
  BY <1>3 DEF NextVersion
<1>4. CASE Of(s) # {}
  <2>1. PICK n \in Of(s) : \A j \in Of(s) : j <= n
    <3>1. PICK i \in Of(s) : TRUE
      BY <1>4
    <3>2. i \in DOMAIN plans /\ plans[i].spec = s
      BY DEF Of
    <3>3. PICK n \in DOMAIN plans : /\ plans[n].spec = plans[i].spec
                                    /\ \A j \in DOMAIN plans : plans[j].spec = plans[i].spec => j <= n
      BY <3>2 DEF Good, HasLast
    <3>4. QED
      BY <3>2, <3>3 DEF Of
  <2> DEFINE V == {plans[i].version : i \in Of(s)}
             Top(v) == \A i \in Of(s) : plans[i].version <= v
             top == CHOOSE v \in V : Top(v)
  <2>2. \A i \in Of(s) : plans[i].version <= plans[n].version
    <3>1. ASSUME NEW i \in Of(s)
          PROVE  plans[i].version <= plans[n].version
      <4>1. /\ i \in DOMAIN plans /\ n \in DOMAIN plans /\ plans[i].spec = plans[n].spec
            /\ i <= n
        BY <2>1 DEF Of
      <4>2. CASE i = n
        BY <1>2, <4>1, <4>2
      <4>3. CASE i < n
        BY <1>2, <4>1, <4>3 DEF Good, Grows
      <4>4. QED
        BY <1>2, <4>1, <4>2, <4>3
    <3>2. QED
      BY <3>1
  <2>3. plans[n].version \in V /\ Top(plans[n].version)
    BY <2>2
  <2>4. V \subseteq Nat
    BY <1>2 DEF Of
  <2> HIDE DEF V
  <2>5. top \in V /\ Top(top)
    <3> HIDE DEF Top
    <3>1. QED
      BY <2>3
  <2>6. NextVersion(s) = 1 + top
    BY <1>4 DEF NextVersion, V
  <2> HIDE DEF top
  <2>7. top \in Nat
    BY <2>4, <2>5
  <2>8. \A i \in Of(s) : plans[i].version \in Nat
    BY <1>2 DEF Of
  <2>9. QED
    BY <2>5, <2>6, <2>7, <2>8
<1>5. QED
  BY <1>3, <1>4

\* An approved spec's version is one a person approved.
LEMMA ApprovedBacks ==
  ASSUME RowsInv, NEW s \in Specs, row[s].status = "approved"
  PROVE  Backs(vouched, s, row[s].version) /\ row[s].version \in Nat
<1>1. Version(s) \in vouched /\ Version(s).spec = s /\ Version(s).version = row[s].version
  BY DEF RowsInv, ApprovedTextIsVouched, Version
<1>2. QED
  BY <1>1 DEF Backs, RowsInv, RowsTypeOK, Rows

LEMMA RecordTyped ==
  ASSUME NEW s \in Specs, NEW specVersion \in Nat, NEW version \in Nat, NEW in \in ValidInputs
  PROVE  PlanRecord(s, specVersion, version, in) \in PlanRecords
<1>1. in.items \in Items /\ in.needs \in SUBSET (Refs \X Refs)
  <2>1. PICK R \in (SUBSET Refs) \ {{}} :
          in \in [items : [R -> Wordings], needs : {n \in SUBSET (R \X R) : Acyclic(n)}]
    BY DEF ValidInputs
  <2>2. QED
    BY <2>1 DEF Items
<1>2. QED
  BY <1>1 DEF PlanRecord, PlanRecords, PlanStatuses

\* Where a step of process p leaves it, and what it leaves the plans as.
Leaves(p, at, m) ==
  /\ pc' = [pc EXCEPT ![p] = at]
  /\ mem' = [mem EXCEPT ![p] = m]
  /\ Holds(at, m, plans', vouched')
  /\ calls' \in Nat

SpecsStay == /\ DOMAIN plans \subseteq DOMAIN plans'
             /\ \A i \in DOMAIN plans : plans'[i].spec = plans[i].spec

LEMMA Left ==
  ASSUME IInv, UNCHANGED specVars, Good(plans', created', vouched'), SpecsStay,
         NEW p \in Procs, NEW at, NEW m, Leaves(p, at, m)
  PROVE  IInv'
<1>1. RowsInv' /\ VouchedAreVersions' /\ vouched' = vouched
  <2>1. [SpecNext]_specVars
    OBVIOUS
  <2>2. RowsInv'
    BY <2>1, RowsStep DEF IInv
  <2>3. QED
    BY <2>1, <2>2, VouchedStay DEF IInv, specVars
<1>2. DOMAIN pc' = Procs /\ DOMAIN mem' = Procs
  BY DEF Leaves, IInv
<1>3. \A q \in Procs : Holds(pc'[q], mem'[q], plans', vouched')
  <2>1. ASSUME NEW q \in Procs, q # p
        PROVE  Holds(pc'[q], mem'[q], plans', vouched')
    <3>1. pc'[q] = pc[q] /\ mem'[q] = mem[q]
      BY <2>1 DEF Leaves, IInv
    <3>2. Holds(pc[q], mem[q], plans, vouched)
      BY DEF IInv
    <3>3. Holds(pc[q], mem[q], plans', vouched')
      BY <1>1, <3>2, HeldStays DEF SpecsStay
    <3>4. QED
      BY <3>1, <3>3
  <2>2. pc'[p] = at /\ mem'[p] = m
    BY DEF Leaves, IInv
  <2>3. QED
    BY <2>1, <2>2 DEF Leaves
<1>4. QED
  BY <1>1, <1>2, <1>3 DEF IInv, Leaves

\* The same when a step only reads, or only returns.
LEMMA LeftReading ==
  ASSUME IInv, Reading, NEW p \in Procs, NEW at, NEW m,
         pc' = [pc EXCEPT ![p] = at], mem' = [mem EXCEPT ![p] = m],
         Holds(at, m, plans, vouched), calls' \in Nat
  PROVE  IInv'
<1>1. plans' = plans /\ created' = created /\ vouched' = vouched /\ UNCHANGED specVars
  BY DEF Reading, specVars
<1>2. Good(plans', created', vouched') /\ SpecsStay
  BY <1>1 DEF IInv, SpecsStay
<1>3. Leaves(p, at, m)
  BY <1>1 DEF Leaves
<1>4. QED
  BY <1>1, <1>2, <1>3, Left

\* A draft closed or rewritten by one step of a process that then is idle.
LEMMA LeftClosing ==
  ASSUME IInv, UNCHANGED <<specVars, created>>, NEW p \in Procs,
         pc' = [pc EXCEPT ![p] = "idle"], mem' = [mem EXCEPT ![p] = Nothing], calls' \in Nat,
         NEW i \in DOMAIN plans, plans[i].status = "draft",
         NEW q \in PlanRecords, plans' = [plans EXCEPT ![i] = q],
         q.spec = plans[i].spec, q.version = plans[i].version,
         q.specVersion = plans[i].specVersion, q.status # "approved"
  PROVE  IInv'
<1>1. Good(plans, created, vouched)
  BY DEF IInv
<1>2. Good([plans EXCEPT ![i] = q], created, vouched)
  BY <1>1, DraftClosed
<1>3. Good(plans', created', vouched')
  BY <1>2 DEF specVars
<1>4. SpecsStay
  BY DEF SpecsStay
<1>5. Leaves(p, "idle", Nothing)
  BY DEF Leaves, Holds
<1>6. QED
  BY <1>3, <1>4, <1>5, Left

LEMMA ProposeStep ==
  ASSUME IInv, NEW p \in Procs, CommitPropose(p)
  PROVE  IInv'
<1> DEFINE s == mem[p].spec
           x == PlanRecord(s, mem[p].specVersion, NextVersion(s), mem[p].in)
<1>1. pc[p] = "propose" /\ pc' = [pc EXCEPT ![p] = "idle"] /\ mem' = [mem EXCEPT ![p] = Nothing]
      /\ calls' = calls /\ UNCHANGED <<specVars, created>>
  BY DEF CommitPropose, Return
<1>2. mem[p] \in ProposeMem /\ Backs(vouched, s, mem[p].specVersion)
  BY <1>1 DEF IInv, Holds
<1>3. s \in Specs /\ mem[p].specVersion \in Nat /\ mem[p].in \in ValidInputs
  BY <1>2 DEF ProposeMem
<1>4. Good(plans, created, vouched) /\ calls' \in Nat
  BY <1>1 DEF IInv
<1>5. CASE MayPropose(s)
  <2>1. NextVersion(s) \in Nat /\ \A i \in Of(s) : plans[i].version < NextVersion(s)
    BY <1>4, NextIsHigher
  <2>2. x \in PlanRecords
    BY <1>3, <2>1, RecordTyped
  <2>3. /\ x.spec = s /\ x.specVersion = mem[p].specVersion
        /\ x.version = NextVersion(s) /\ x.status = "draft"
    BY DEF PlanRecord
  <2>4. plans' = Append(plans, x)
    BY <1>5 DEF CommitPropose
  <2> HIDE DEF x
  <2>5. \A j \in DOMAIN plans : plans[j].spec = x.spec => /\ plans[j].status # "draft"
                                                          /\ plans[j].version < x.version
    BY <1>5, <2>1, <2>3 DEF MayPropose, Drafts, Of
  <2>6. Good(Append(plans, x), created, vouched)
    BY <1>2, <1>4, <2>2, <2>3, <2>5, DraftAdded
  <2>7. Good(plans', created', vouched')
    BY <1>1, <2>4, <2>6 DEF specVars
  <2>8. SpecsStay
    <3>1. plans \in Seq(PlanRecords)
      BY <1>4 DEF Good
    <3>2. QED
      BY <2>2, <2>4, <3>1, Appended DEF SpecsStay
  <2>9. Leaves(p, "idle", Nothing)
    BY <1>1, <1>4 DEF Leaves, Holds
  <2>10. QED
    BY <1>1, <2>7, <2>8, <2>9, Left
<1>6. CASE ~MayPropose(s)
  <2>1. Reading
    BY <1>1, <1>6 DEF CommitPropose, Reading, specVars
  <2>2. QED
    BY <1>1, <1>4, <2>1, LeftReading DEF Holds
<1>7. QED
  BY <1>5, <1>6

LEMMA ReviseStep ==
  ASSUME IInv, NEW p \in Procs, CommitRevise(p)
  PROVE  IInv'
<1> DEFINE i == mem[p].plan
           q == [plans[i] EXCEPT !.status = "superseded"]
           P == [plans EXCEPT ![i] = q]
           x == PlanRecord(plans[i].spec, mem[p].specVersion, plans[i].version + 1, mem[p].in)
<1>1. pc[p] = "revise" /\ pc' = [pc EXCEPT ![p] = "idle"] /\ mem' = [mem EXCEPT ![p] = Nothing]
      /\ calls' = calls /\ UNCHANGED <<specVars, created>>
  BY DEF CommitRevise, Return
<1>2. /\ mem[p] \in [op : {"revise"}, plan : DOMAIN plans, specVersion : Nat, in : ValidInputs]
      /\ Backs(vouched, plans[i].spec, mem[p].specVersion)
  BY <1>1 DEF IInv, Holds
<1>3. i \in DOMAIN plans /\ mem[p].specVersion \in Nat /\ mem[p].in \in ValidInputs
  BY <1>2
<1>4. Good(plans, created, vouched) /\ plans \in Seq(PlanRecords) /\ calls' \in Nat
  BY <1>1 DEF IInv, Good
<1>5. CASE plans[i].status = "draft"
  <2>1. plans[i] \in PlanRecords
    BY <1>3, <1>4
  <2>2. plans[i].spec \in Specs /\ plans[i].version \in Nat
    BY <2>1 DEF PlanRecords
  <2>3. x \in PlanRecords
    BY <1>3, <2>2, RecordTyped
  <2>4. /\ x.spec = plans[i].spec /\ x.specVersion = mem[p].specVersion
        /\ x.version = plans[i].version + 1 /\ x.status = "draft"
    BY DEF PlanRecord
  <2>5. /\ q \in PlanRecords /\ q.status = "superseded" /\ q.spec = plans[i].spec
        /\ q.version = plans[i].version /\ q.specVersion = plans[i].specVersion
    BY <2>1 DEF PlanRecords, PlanStatuses
  <2>6. plans' = Append(P, x)
    BY <1>5 DEF CommitRevise
  <2> HIDE DEF x, q
  <2>7. Good(P, created, vouched)
    BY <1>3, <1>4, <1>5, <2>5, DraftClosed
  <2>8. /\ P \in Seq(PlanRecords) /\ DOMAIN P = DOMAIN plans /\ P[i] = q
        /\ \A j \in DOMAIN plans : (j # i => P[j] = plans[j]) /\ j \in Nat /\ plans[j] \in PlanRecords
    BY <1>3, <1>4, <2>5, Rewritten
  <2> HIDE DEF P
  <2>9. \A j \in DOMAIN P : P[j].spec = x.spec => /\ P[j].status # "draft"
                                                  /\ P[j].version < x.version
    <3> SUFFICES ASSUME NEW j \in DOMAIN P, P[j].spec = x.spec
                 PROVE  P[j].status # "draft" /\ P[j].version < x.version
      OBVIOUS
    <3>1. CASE j = i
      BY <2>2, <2>4, <2>5, <2>8, <3>1
    <3>2. CASE j # i
      <4>1. j \in DOMAIN plans /\ P[j] = plans[j] /\ plans[j].spec = plans[i].spec
        BY <2>4, <2>8, <3>2
      <4>2. j <= i
        BY <1>3, <1>4, <1>5, <4>1 DEF Good, DraftIsLast
      <4>3. plans[j].status # "draft"
        <5>1. i \in Nat /\ j \in Nat /\ (plans[j].status = "draft" => i <= j)
          BY <1>3, <1>4, <2>8, <4>1 DEF Good, DraftIsLast
        <5>2. QED
          BY <3>2, <4>2, <5>1
      <4>4. plans[j].version < plans[i].version
        <5>1. j < i
          BY <1>3, <2>8, <3>2, <4>1, <4>2
        <5>2. QED
          BY <1>3, <1>4, <4>1, <5>1 DEF Good, Grows
      <4>5. plans[j].version \in Nat
        BY <2>8, <4>1 DEF PlanRecords
      <4>6. QED
        BY <2>2, <2>4, <4>1, <4>3, <4>4, <4>5
    <3>3. QED
      BY <3>1, <3>2
  <2>10. Good(Append(P, x), created, vouched)
    BY <1>2, <2>3, <2>4, <2>7, <2>9, DraftAdded
  <2>11. Good(plans', created', vouched')
    BY <1>1, <2>6, <2>10 DEF specVars
  <2>12. SpecsStay
    <3>1. \A j \in DOMAIN P : Append(P, x)[j] = P[j]
      BY <2>3, <2>8, Appended
    <3>2. DOMAIN P \subseteq DOMAIN Append(P, x)
      BY <2>3, <2>8, Appended
    <3>3. \A j \in DOMAIN plans : P[j].spec = plans[j].spec
      BY <2>5, <2>8
    <3>4. QED
      BY <2>6, <2>8, <3>1, <3>2, <3>3 DEF SpecsStay
  <2>13. Leaves(p, "idle", Nothing)
    BY <1>1, <1>4 DEF Leaves, Holds
  <2>14. QED
    BY <1>1, <2>11, <2>12, <2>13, Left
<1>6. CASE plans[i].status # "draft"
  <2>1. Reading
    BY <1>1, <1>6 DEF CommitRevise, Reading, specVars
  <2>2. QED
    BY <1>1, <1>4, <2>1, LeftReading DEF Holds
<1>7. QED
  BY <1>5, <1>6

LEMMA ApproveStep ==
  ASSUME IInv, NEW p \in Procs, CommitApprove(p)
  PROVE  IInv'
<1> DEFINE i == mem[p].plan
           s == plans[i].spec
<1>1. pc[p] = "approve" /\ pc' = [pc EXCEPT ![p] = "idle"] /\ mem' = [mem EXCEPT ![p] = Nothing]
      /\ calls' = calls /\ UNCHANGED specVars
  BY DEF CommitApprove, Return
<1>2. mem[p] \in [op : {"approve"}, plan : DOMAIN plans]
  BY <1>1 DEF IInv, Holds
<1>3. i \in DOMAIN plans
  BY <1>2
<1>4. Good(plans, created, vouched) /\ plans \in Seq(PlanRecords) /\ calls' \in Nat
  BY <1>1 DEF IInv, Good
<1>5. CASE Approvable(i)
  <2>1. plans[i] \in PlanRecords
    BY <1>3, <1>4
  <2>2. PICK v \in vouched : v.spec = s /\ v.version = plans[i].specVersion
    BY <1>3, <1>4 DEF Good, Rests, Backs
  <2>3. v = Version(s)
    <3>1. v \in Versions /\ Later(v, row[s])
      BY <2>2 DEF IInv, RowsInv, RowsTypeOK, VouchedAreVersions
    <3>2. v.version = row[s].version
      BY <1>5, <2>2 DEF Approvable
    <3>3. v.text = row[s].text
      BY <3>1, <3>2 DEF Later
    <3>4. QED
      BY <2>2, <3>1, <3>2, <3>3 DEF Versions, Version
  <2>4. /\ plans' = [plans EXCEPT ![i].status = "approved"]
        /\ created' = Append(created, [plan |-> i, tasks |-> TasksOf(plans[i]), of |-> v])
    BY <1>5, <2>3 DEF CommitApprove
  <2>5. v \in Versions /\ plans[i].status = "draft"
    BY <1>5, <2>2 DEF IInv, RowsInv, RowsTypeOK, Approvable
  <2>6. Good(plans', created', vouched')
    <3>1. Good([plans EXCEPT ![i].status = "approved"],
               Append(created, [plan |-> i, tasks |-> TasksOf(plans[i]), of |-> v]), vouched)
      BY <1>3, <1>4, <2>2, <2>5, DraftApproved
    <3>2. QED
      BY <1>1, <2>4, <3>1 DEF specVars
  <2>7. SpecsStay
    BY <1>3, <1>4, <2>1, <2>4 DEF SpecsStay, PlanRecords
  <2>8. Leaves(p, "idle", Nothing)
    BY <1>1, <1>4 DEF Leaves, Holds
  <2>9. QED
    BY <1>1, <2>6, <2>7, <2>8, Left
<1>6. CASE ~Approvable(i)
  <2>1. Reading
    BY <1>1, <1>6 DEF CommitApprove, Reading, specVars
  <2>2. QED
    BY <1>1, <1>4, <2>1, LeftReading DEF Holds
<1>7. QED
  BY <1>5, <1>6

LEMMA EditStep ==
  ASSUME IInv, NEW p \in Procs, EditPlanItem(p)
  PROVE  IInv'
<1>1. /\ pc' = [pc EXCEPT ![p] = "idle"] /\ mem' = [mem EXCEPT ![p] = Nothing]
      /\ calls' \in Nat /\ UNCHANGED <<specVars, created>>
  BY DEF EditPlanItem, Start, Call, IInv
<1>2. PICK i \in DOMAIN plans : \E r \in DOMAIN plans[i].items :
        /\ MayEdit(i)
        /\ \/ \E w \in Wordings : plans' = [plans EXCEPT ![i].items[r] = w]
           \/ plans' = [plans EXCEPT ![i].dropped = @ \union {r}]
           \/ plans' = [plans EXCEPT ![i].dropped = @ \ {r}]
  BY DEF EditPlanItem
<1>3. PICK r \in DOMAIN plans[i].items :
        /\ plans[i].status = "draft"
        /\ \/ \E w \in Wordings : plans' = [plans EXCEPT ![i].items[r] = w]
           \/ plans' = [plans EXCEPT ![i].dropped = @ \union {r}]
           \/ plans' = [plans EXCEPT ![i].dropped = @ \ {r}]
  BY <1>2 DEF MayEdit
<1>4. plans[i] \in PlanRecords
  BY DEF IInv, Good
<1>5. PICK R \in (SUBSET Refs) \ {{}} : plans[i].items \in [R -> Wordings]
  BY <1>4 DEF PlanRecords, Items
<1>6. r \in R /\ r \in Refs
  BY <1>3, <1>5
<1>7. CASE \E w \in Wordings : plans' = [plans EXCEPT ![i].items[r] = w]
  <2>1. PICK w \in Wordings : plans' = [plans EXCEPT ![i].items[r] = w]
    BY <1>7
  <2> DEFINE items == [plans[i].items EXCEPT ![r] = w]
             q == [plans[i] EXCEPT !.items = items]
  <2>2. items \in Items
    BY <1>5, <1>6 DEF Items
  <2> HIDE DEF items
  <2>3. q \in PlanRecords /\ q.spec = plans[i].spec /\ q.version = plans[i].version
        /\ q.specVersion = plans[i].specVersion /\ q.status = plans[i].status
    BY <1>4, <2>2 DEF PlanRecords
  <2>4. plans' = [plans EXCEPT ![i] = q]
    BY <2>1 DEF items
  <2> HIDE DEF q
  <2>5. QED
    BY <1>1, <1>3, <2>3, <2>4, LeftClosing
<1>8. CASE plans' = [plans EXCEPT ![i].dropped = @ \union {r}]
  <2> DEFINE q == [plans[i] EXCEPT !.dropped = @ \union {r}]
  <2>1. q \in PlanRecords /\ q.spec = plans[i].spec /\ q.version = plans[i].version
        /\ q.specVersion = plans[i].specVersion /\ q.status = plans[i].status
    BY <1>4, <1>6 DEF PlanRecords
  <2>2. plans' = [plans EXCEPT ![i] = q]
    BY <1>8
  <2> HIDE DEF q
  <2>3. QED
    BY <1>1, <1>3, <2>1, <2>2, LeftClosing
<1>9. CASE plans' = [plans EXCEPT ![i].dropped = @ \ {r}]
  <2> DEFINE q == [plans[i] EXCEPT !.dropped = @ \ {r}]
  <2>1. q \in PlanRecords /\ q.spec = plans[i].spec /\ q.version = plans[i].version
        /\ q.specVersion = plans[i].specVersion /\ q.status = plans[i].status
    BY <1>4 DEF PlanRecords
  <2>2. plans' = [plans EXCEPT ![i] = q]
    BY <1>9
  <2> HIDE DEF q
  <2>3. QED
    BY <1>1, <1>3, <2>1, <2>2, LeftClosing
<1>10. QED
  BY <1>3, <1>7, <1>8, <1>9

LEMMA RejectStep ==
  ASSUME IInv, NEW p \in Procs, RejectPlan(p)
  PROVE  IInv'
<1>1. /\ pc' = [pc EXCEPT ![p] = "idle"] /\ mem' = [mem EXCEPT ![p] = Nothing]
      /\ calls' \in Nat /\ UNCHANGED <<specVars, created>>
  BY DEF RejectPlan, Start, Call, IInv
<1>2. PICK i \in DOMAIN plans : /\ plans[i].status = "draft"
                                /\ plans' = [plans EXCEPT ![i].status = "rejected"]
  BY DEF RejectPlan
<1> DEFINE q == [plans[i] EXCEPT !.status = "rejected"]
<1>3. plans[i] \in PlanRecords
  BY DEF IInv, Good
<1>4. q \in PlanRecords /\ q.spec = plans[i].spec /\ q.version = plans[i].version
      /\ q.specVersion = plans[i].specVersion /\ q.status = "rejected"
  BY <1>3 DEF PlanRecords, PlanStatuses
<1>5. plans' = [plans EXCEPT ![i] = q]
  BY <1>2
<1> HIDE DEF q
<1>6. QED
  BY <1>1, <1>2, <1>4, <1>5, LeftClosing

LEMMA StartStep ==
  ASSUME IInv, NEW p \in Procs, StartPropose(p) \/ StartRevise(p) \/ StartApprove(p)
  PROVE  IInv'
<1>0. calls + 1 \in Nat /\ RowsInv
  BY DEF IInv
<1>1. CASE StartPropose(p)
  <2>1. PICK s \in Specs, in \in ValidInputs :
          /\ row[s].status = "approved"
          /\ Start(p, "propose", "propose",
                   [op |-> "propose", spec |-> s, specVersion |-> row[s].version, in |-> in])
    BY <1>1 DEF StartPropose
  <2> DEFINE m == [op |-> "propose", spec |-> s, specVersion |-> row[s].version, in |-> in]
  <2>2. Backs(vouched, s, row[s].version) /\ row[s].version \in Nat
    BY <1>0, <2>1, ApprovedBacks
  <2>3. m \in ProposeMem /\ m.spec = s /\ m.specVersion = row[s].version
    BY <2>2 DEF ProposeMem
  <2>4. pc' = [pc EXCEPT ![p] = "propose"] /\ mem' = [mem EXCEPT ![p] = m] /\ calls' = calls + 1
    BY <2>1 DEF Start, Call
  <2> HIDE DEF m
  <2>5. Holds("propose", m, plans, vouched)
    BY <2>2, <2>3 DEF Holds
  <2>6. QED
    BY <1>0, <1>1, <2>4, <2>5, LeftReading DEF StartPropose
<1>2. CASE StartRevise(p)
  <2>1. PICK i \in DOMAIN plans, in \in ValidInputs :
          /\ row[plans[i].spec].status = "approved"
          /\ Start(p, "revise", "revise",
                   [op |-> "revise", plan |-> i, specVersion |-> row[plans[i].spec].version,
                    in |-> in])
    BY <1>2 DEF StartRevise
  <2> DEFINE m == [op |-> "revise", plan |-> i, specVersion |-> row[plans[i].spec].version,
                   in |-> in]
  <2>2. plans[i].spec \in Specs
    <3>1. plans[i] \in PlanRecords
      BY DEF IInv, Good
    <3>2. QED
      BY <3>1 DEF PlanRecords
  <2>3. Backs(vouched, plans[i].spec, row[plans[i].spec].version) /\ row[plans[i].spec].version \in Nat
    BY <1>0, <2>1, <2>2, ApprovedBacks
  <2>4. /\ m \in [op : {"revise"}, plan : DOMAIN plans, specVersion : Nat, in : ValidInputs]
        /\ m.plan = i /\ m.specVersion = row[plans[i].spec].version
    BY <2>3
  <2>5. pc' = [pc EXCEPT ![p] = "revise"] /\ mem' = [mem EXCEPT ![p] = m] /\ calls' = calls + 1
    BY <2>1 DEF Start, Call
  <2> HIDE DEF m
  <2>6. Holds("revise", m, plans, vouched)
    BY <2>3, <2>4 DEF Holds
  <2>7. QED
    BY <1>0, <1>2, <2>5, <2>6, LeftReading DEF StartRevise
<1>3. CASE StartApprove(p)
  <2>1. PICK i \in DOMAIN plans : Start(p, "approve", "approve", [op |-> "approve", plan |-> i])
    BY <1>3 DEF StartApprove
  <2> DEFINE m == [op |-> "approve", plan |-> i]
  <2>2. Holds("approve", m, plans, vouched)
    BY DEF Holds
  <2>3. pc' = [pc EXCEPT ![p] = "approve"] /\ mem' = [mem EXCEPT ![p] = m] /\ calls' = calls + 1
    BY <2>1 DEF Start, Call
  <2> HIDE DEF m
  <2>4. QED
    BY <1>0, <1>3, <2>2, <2>3, LeftReading DEF StartApprove
<1>4. QED
  BY <1>1, <1>2, <1>3

LEMMA SpecStep ==
  ASSUME IInv, ChangeSpec
  PROVE  IInv'
<1>1. SpecNext /\ UNCHANGED <<plans, created, pc, mem>> /\ calls' = calls + 1
  BY DEF ChangeSpec, Call
<1>2. RowsInv' /\ VouchedAreVersions' /\ vouched \subseteq vouched'
  BY <1>1, RowsStep, VouchedStay DEF IInv
<1>3. Good(plans, created, vouched')
  BY <1>2, MoreVouched DEF IInv
<1>4. ASSUME NEW p \in Procs PROVE Holds(pc[p], mem[p], plans, vouched')
  <2>1. Holds(pc[p], mem[p], plans, vouched)
    BY DEF IInv
  <2>2. QED
    BY <1>2, <2>1, HeldStays
<1>5. QED
  BY <1>1, <1>2, <1>3, <1>4 DEF IInv

LEMMA PlansStep ==
  ASSUME IInv, [Next]_vars
  PROVE  IInv'
<1>1. CASE UNCHANGED vars \/ Rest
  BY <1>1 DEF vars, specVars, Rest, IInv, RowsInv, RowsTypeOK, Numbered, Exists, HistoryIsWhole,
              ApprovedTextIsVouched, Version, VouchedAreVersions
<1>2. CASE ChangeSpec
  BY <1>2, SpecStep
<1>3. ASSUME NEW p \in Procs, Step(p)
      PROVE  IInv'
  <2>1. CASE CommitPropose(p) \/ CommitRevise(p) \/ CommitApprove(p)
    BY <2>1, ProposeStep, ReviseStep, ApproveStep
  <2>2. CASE EditPlanItem(p) \/ RejectPlan(p)
    BY <2>2, EditStep, RejectStep
  <2>3. CASE StartPropose(p) \/ StartRevise(p) \/ StartApprove(p)
    BY <2>3, StartStep
  <2>4. CASE Crash(p)
    <3>1. Reading /\ pc' = [pc EXCEPT ![p] = "idle"] /\ mem' = [mem EXCEPT ![p] = Nothing]
          /\ calls' \in Nat
      BY <2>4 DEF Crash, Return, IInv
    <3>2. QED
      BY <3>1, LeftReading DEF Holds
  <2>5. QED
    BY <1>3, <2>1, <2>2, <2>3, <2>4 DEF Step
<1>4. QED
  BY <1>1, <1>2, <1>3 DEF Next

-----------------------------------------------------------------------------
(* The theorems.                                                           *)

LEMMA PlansInvariant == Spec => []IInv
BY PlansInitially, PlansStep, PTL DEF Spec

THEOREM PlansTypeCorrect == Spec => []TypeOK
<1>1. ASSUME IInv PROVE TypeOK
  <2>1. \A p \in Procs : \/ pc[p] = "idle" /\ mem[p] = Nothing
                         \/ pc[p] = "propose" /\ mem[p] \in ProposeMem
                         \/ pc[p] = "revise" /\ mem[p] \in ReviseMem
                         \/ pc[p] = "approve" /\ mem[p] \in ApproveMem
    BY <1>1 DEF IInv, Holds, ReviseMem, ApproveMem
  <2>2. QED
    BY <1>1, <2>1 DEF IInv, RowsInv, Good, Approvals, TypeOK
<1>2. QED
  BY <1>1, PlansInvariant, PTL

\* However proposals and revisions interleave, a spec has one draft to decide.
THEOREM OneDraft == Spec => []OneDraftPerSpec
<1>1. ASSUME IInv PROVE OneDraftPerSpec
  <2>1. \A i \in DOMAIN plans : i \in Nat
    BY <1>1 DEF IInv, Good
  <2>2. ASSUME NEW s \in Specs, NEW i \in Drafts(s), NEW j \in Drafts(s)
        PROVE  i = j
    <3>1. /\ i \in DOMAIN plans /\ plans[i].spec = s /\ plans[i].status = "draft"
          /\ j \in DOMAIN plans /\ plans[j].spec = s /\ plans[j].status = "draft"
      BY DEF Drafts, Of
    <3>2. i <= j /\ j <= i
      BY <1>1, <3>1 DEF IInv, Good, DraftIsLast
    <3>3. QED
      BY <2>1, <3>1, <3>2
  <2>3. QED
    BY <2>2 DEF OneDraftPerSpec
<1>2. QED
  BY <1>1, PlansInvariant, PTL

\* A revision numbers from the plan it replaces, which is the last one.
THEOREM LaterPlansAreHigher == Spec => []VersionsGrow
<1>1. IInv => VersionsGrow
  BY DEF IInv, Good, Grows, VersionsGrow
<1>2. QED
  BY <1>1, PlansInvariant, PTL

\* No second approval, no edit of an approved plan, whoever read it a draft.
THEOREM PlansAreCarriedOutOnce == Spec => []CarriedOutOnce
<1>1. IInv => CarriedOutOnce
  BY DEF IInv, Good, Decided, CarriedOutOnce
<1>2. QED
  BY <1>1, PlansInvariant, PTL

\* Tasks come from text a person approved.
THEOREM TasksComeFromApprovedText == Spec => []PlansRestOnApprovedText
<1>1. IInv => PlansRestOnApprovedText
  BY DEF IInv, Good, Rests, Backs, PlansRestOnApprovedText
<1>2. QED
  BY <1>1, PlansInvariant, PTL

=============================================================================
