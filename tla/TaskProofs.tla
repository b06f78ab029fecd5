----------------------------- MODULE TaskProofs ------------------------------
(***************************************************************************)
(* Theorems of AtomicCompletion, the rules of the gate over logs of any    *)
(* length, and of TaskBoard, what happens to tasks before it.              *)
(***************************************************************************)
EXTENDS AtomicCompletion, TaskBoard, FiniteSetTheorems, WellFoundedInduction, TLAPS

-----------------------------------------------------------------------------
(* The newest row of a selection.                                          *)

\* A non-empty set of positions in a log has a last one: measured from the end,
\* the least.
LEMMA HasLast ==
  ASSUME NEW n \in Nat, NEW S \in SUBSET (1..n), S # {}
  PROVE  \E i \in S : \A j \in S : j <= i
<1> DEFINE T == {n - i : i \in S}
           R == {ss \in Nat \X Nat : ss[1] < ss[2]}
<1>1. T \subseteq Nat /\ T # {}
  <2>1. \A i \in S : n - i \in Nat
    OBVIOUS
  <2>2. PICK i \in S : TRUE
    OBVIOUS
  <2>3. n - i \in T
    BY <2>2
  <2>4. QED
    BY <2>1, <2>3
<1>2. IsWellFoundedOn(R, Nat)
  BY NatLessThanWellFounded DEF OpToRel
<1>3. PICK x \in T : \A y \in T : ~(<<y, x>> \in R)
  <2> HIDE DEF T, R
  <2>1. QED
    BY <1>1, <1>2, WFMin
<1>4. PICK i \in S : x = n - i
  BY <1>3
<1>5. \A j \in S : ~(n - j < n - i)
  BY <1>1, <1>3, <1>4
<1>6. QED
  BY <1>5

\* Newest is the row at the last position, and there is one.
LEMMA NewestAt ==
  ASSUME NEW R, NEW log \in Seq(R), NEW at \in SUBSET DOMAIN log, NEW i \in at,
         \A j \in at : j <= i
  PROVE  Newest(log, at) = log[i]
<1>1. \A k \in at : (\A j \in at : j <= k) => k = i
  OBVIOUS
<1>2. (CHOOSE k \in at : \A j \in at : j <= k) = i
  BY <1>1
<1>3. QED
  BY <1>2 DEF Newest

LEMMA NewestExists ==
  ASSUME NEW R, NEW log \in Seq(R), NEW at \in SUBSET DOMAIN log, at # {}
  PROVE  \E i \in at : (\A j \in at : j <= i) /\ Newest(log, at) = log[i]
<1>1. Len(log) \in Nat /\ at \in SUBSET (1..Len(log))
  OBVIOUS
<1>2. PICK i \in at : \A j \in at : j <= i
  BY <1>1, HasLast
<1>3. QED
  BY <1>2, NewestAt

LEMMA AppendedRow ==
  ASSUME NEW R, NEW log \in Seq(R), NEW x \in R
  PROVE  /\ DOMAIN Append(log, x) = DOMAIN log \union {Len(log) + 1}
         /\ \A i \in DOMAIN log : Append(log, x)[i] = log[i]
         /\ Append(log, x)[Len(log) + 1] = x
<1>1. Len(log) \in Nat /\ DOMAIN log = 1..Len(log) /\ DOMAIN Append(log, x) = 1..Len(log) + 1
  OBVIOUS
<1>2. (\A i \in 1..Len(log) : Append(log, x)[i] = log[i]) /\ Append(log, x)[Len(log) + 1] = x
  OBVIOUS
<1>3. QED
  BY <1>1, <1>2

\* A row appended to the selection is its newest; one outside leaves it alone.
LEMMA NewestAppended ==
  ASSUME NEW R, NEW log \in Seq(R), NEW x \in R, NEW at \in SUBSET DOMAIN log
  PROVE  Newest(Append(log, x), at \union {Len(log) + 1}) = x
<1>1. Append(log, x) \in Seq(R) /\ DOMAIN Append(log, x) = 1..Len(log) + 1
  OBVIOUS
<1>2. at \union {Len(log) + 1} \in SUBSET DOMAIN Append(log, x)
  BY <1>1
<1>3. \A j \in at \union {Len(log) + 1} : j <= Len(log) + 1
  OBVIOUS
<1>4. Newest(Append(log, x), at \union {Len(log) + 1}) = Append(log, x)[Len(log) + 1]
  BY <1>1, <1>2, <1>3, NewestAt
<1>5. QED
  BY <1>4

\* The newest check of a kind that has any is of that kind, and is in force.
LEMMA NewestOfKind ==
  ASSUME NEW cs \in Seq(CheckRecords(Trees)), NEW k \in CheckKinds, KindAt(cs, k) # {}
  PROVE  /\ Newest(cs, KindAt(cs, k)) \in LatestChecks(cs)
         /\ Newest(cs, KindAt(cs, k)).kind = k
<1>1. KindAt(cs, k) \in SUBSET DOMAIN cs
  BY DEF KindAt
<1>2. PICK i \in KindAt(cs, k) : Newest(cs, KindAt(cs, k)) = cs[i]
  BY <1>1, NewestExists
<1>3. QED
  BY <1>2 DEF LatestChecks, KindAt

LEMMA LatestAreChecks ==
  ASSUME NEW cs \in Seq(CheckRecords(Trees))
  PROVE  LatestChecks(cs) \subseteq CheckRecords(Trees)
<1> SUFFICES ASSUME NEW k \in CheckKinds, KindAt(cs, k) # {}
             PROVE  Newest(cs, KindAt(cs, k)) \in CheckRecords(Trees)
  BY DEF LatestChecks
<1>1. KindAt(cs, k) \in SUBSET DOMAIN cs
  BY DEF KindAt
<1>2. PICK i \in KindAt(cs, k) : Newest(cs, KindAt(cs, k)) = cs[i]
  BY <1>1, NewestExists
<1>3. QED
  BY <1>1, <1>2

-----------------------------------------------------------------------------
(* Type correctness.                                                       *)

THEOREM AtomicTypeCorrect == Spec => []TypeOK
<1>1. Init => TypeOK
  <2> SUFFICES ASSUME Init PROVE TypeOK
    OBVIOUS
  <2>1. status \in UsedStatuses /\ risk \in TaskRisks /\ autonomy \in TaskAutonomies
    BY DataAssumption DEF Init
  <2>2. checks \in Seq(CheckRecords(Trees)) /\ approvals \in Seq(ApprovalRecords(Trees))
    BY DEF Init
  <2>3. roled \in BOOLEAN
    BY DEF Init
  <2>l. lately \subseteq TaskRisks \X TaskAutonomies
    BY <2>1 DEF Init
  <2>4. QED
    BY <2>1, <2>2, <2>3, <2>l DEF TypeOK
<1>2. TypeOK /\ [Next]_vars => TypeOK'
  <2> SUFFICES ASSUME TypeOK, [Next]_vars PROVE TypeOK'
    OBVIOUS
  <2>t. TypeOK
    OBVIOUS
  <2>l. ASSUME Touch, risk' \in TaskRisks, autonomy' \in TaskAutonomies
        PROVE  lately' \subseteq TaskRisks \X TaskAutonomies
    <3>1. <<risk', autonomy'>> \in TaskRisks \X TaskAutonomies
      BY <2>l
    <3>2. lately' \subseteq lately \union {<<risk', autonomy'>>}
      BY <2>l DEF Touch
    <3>3. QED
      BY <3>1, <3>2, <2>t DEF TypeOK
  <2>1. CASE RecordCheck \/ RecordDecision
    <3>c. ASSUME RecordCheck
          PROVE  checks' \in Seq(CheckRecords(Trees)) /\ approvals' \in Seq(ApprovalRecords(Trees))
      <4>1. PICK c \in CheckRecords(Trees) : checks' = Append(checks, c)
        BY <3>c DEF RecordCheck
      <4>2. checks' \in Seq(CheckRecords(Trees)) /\ approvals' = approvals
        BY <3>c, <4>1, <2>t DEF TypeOK, RecordCheck
      <4>3. QED
        BY <4>2, <2>t DEF TypeOK
    <3>d. ASSUME RecordDecision
          PROVE  checks' \in Seq(CheckRecords(Trees)) /\ approvals' \in Seq(ApprovalRecords(Trees))
      <4>1. PICK a \in ApprovalRecords(Trees) : approvals' = Append(approvals, a)
        BY <3>d DEF RecordDecision
      <4>2. approvals' \in Seq(ApprovalRecords(Trees)) /\ checks' = checks
        BY <3>d, <4>1, <2>t DEF TypeOK, RecordDecision
      <4>3. QED
        BY <4>2, <2>t DEF TypeOK
    <3>1. /\ checks' \in Seq(CheckRecords(Trees))
          /\ approvals' \in Seq(ApprovalRecords(Trees))
      BY <2>1, <3>c, <3>d DEF TypeOK
    <3>2. UNCHANGED <<status, risk, autonomy, lately, roled>>
      BY <2>1 DEF RecordCheck, RecordDecision
    <3>3. QED
      BY <3>1, <3>2, <2>t DEF TypeOK
  <2>2. CASE SetLevels \/ SetStatus \/ AddApprovingRole
    <3>1. /\ status' \in UsedStatuses /\ risk' \in TaskRisks /\ autonomy' \in TaskAutonomies
          /\ roled' \in BOOLEAN /\ UNCHANGED <<checks, approvals>>
      BY <2>2, <2>t DEF TypeOK, SetLevels, SetStatus, AddApprovingRole
    <3>2. Touch \/ lately' = lately
      BY <2>2 DEF SetLevels, SetStatus, AddApprovingRole
    <3>3. lately' \subseteq TaskRisks \X TaskAutonomies
      BY <3>1, <3>2, <2>l, <2>t DEF TypeOK
    <3>4. QED
      BY <3>1, <3>3, <2>t DEF TypeOK
  <2>3. CASE Complete
    <3>1. lately' \subseteq TaskRisks \X TaskAutonomies
      BY <2>3, <2>l, <2>t DEF TypeOK, Complete
    <3>2. status' \in UsedStatuses /\ UNCHANGED <<risk, autonomy, checks, approvals, roled>>
      BY <2>3, DataAssumption DEF Complete
    <3>3. QED
      BY <3>1, <3>2, <2>t DEF TypeOK
  <2>4. CASE Override
    <3>1. \A current \in Trees \union {TreeUnavailable} :
            OverrideRecord(current) \in ApprovalRecords(Trees)
      BY DEF OverrideRecord, ApprovalRecords
    <3>2. lately' \subseteq TaskRisks \X TaskAutonomies
      BY <2>4, <2>l, <2>t DEF TypeOK, Override
    <3>3. status' \in UsedStatuses /\ UNCHANGED <<risk, autonomy, checks, roled>>
      BY <2>4, DataAssumption DEF Override
    <3>4. approvals' \in Seq(ApprovalRecords(Trees))
      BY <2>4, <3>1, <2>t DEF TypeOK, Override
    <3>5. QED
      BY <3>2, <3>3, <3>4, <2>t DEF TypeOK
  <2>5. CASE UNCHANGED vars
    BY <2>5 DEF TypeOK, vars
  <2>6. QED
    BY <2>1, <2>2, <2>3, <2>4, <2>5 DEF Next
<1>3. QED
  BY <1>1, <1>2, PTL DEF Spec

-----------------------------------------------------------------------------
(* Tightening.                                                             *)

\* The gate asks no less at levels at least as strict.
LEMMA GateMonotone ==
  ASSUME NEW r, NEW a, NEW s, NEW b, NEW cs, NEW as, NEW ro, NEW cu,
         HighRisk(r) => HighRisk(s), NeedsPerson(r, a) => NeedsPerson(s, b),
         GateOK(s, b, cs, as, ro, cu)
  PROVE  GateOK(r, a, cs, as, ro, cu)
<1>1. CheckBlockers(s, cs) = {} /\ ProvenanceBlockers(s, cs, cu) = {}
  BY DEF GateOK, AgentBlockers
<1>2. CheckBlockers(r, cs) = {}
  BY <1>1 DEF CheckBlockers
<1>3. ProvenanceBlockers(r, cs, cu) = {}
  <2>1. \A c : Weightless(r, c) => Weightless(s, c)
    BY DEF Weightless
  <2>2. QED
    BY <1>1, <2>1 DEF ProvenanceBlockers
<1>4. PersonBlockers(r, a, as, ro, cu) = {}
  BY DEF GateOK, PersonBlockers
<1>5. QED
  BY <1>2, <1>3, <1>4 DEF GateOK, AgentBlockers

\* Raising the risk or tightening the autonomy never opens the gate.
THEOREM Tightening == Spec => []TighteningNeverOpens
<1>1. TypeOK => TighteningNeverOpens
  <2> SUFFICES ASSUME TypeOK, NEW current \in Currents, NEW r \in TaskRisks,
                      NEW a \in TaskAutonomies,
                      RiskRank[r] >= RiskRank[risk],
                      AutonomyRank[a] <= AutonomyRank[autonomy],
                      GateOK(r, a, checks, approvals, roled, current)
               PROVE  GateOK(risk, autonomy, checks, approvals, roled, current)
    BY DEF TighteningNeverOpens, GateHolds
  <2>1. risk \in Risks /\ r \in Risks /\ autonomy \in Autonomies /\ a \in Autonomies
    BY DataAssumption DEF TypeOK
  <2>2. HighRisk(risk) => HighRisk(r)
    BY <2>1 DEF RiskRank, Risks, HighRisk
  <2>3. autonomy = "hitl" => a = "hitl"
    BY <2>1 DEF AutonomyRank, Autonomies
  <2>4. NeedsPerson(risk, autonomy) => NeedsPerson(r, a)
    BY <2>2, <2>3 DEF NeedsPerson
  <2>5. QED
    BY <2>2, <2>4, GateMonotone
<1>2. QED
  BY <1>1, AtomicTypeCorrect, PTL

-----------------------------------------------------------------------------
(* Typed passes and refusals.                                              *)

\* A pass of a runnable kind typed by an agent keeps the gate closed for as long
\* as it is the newest row of its kind, whatever lies under it.
THEOREM AgentsCannotVouch == Spec => []AgentTypedPassNeverOpens
<1>1. TypeOK => AgentTypedPassNeverOpens
  <2> SUFFICES ASSUME TypeOK, NEW current \in Currents, NEW k \in RunnableKinds,
                      KindAt(checks, k) # {},
                      Newest(checks, KindAt(checks, k)).status = "pass",
                      Newest(checks, KindAt(checks, k)).source = "manual",
                      Newest(checks, KindAt(checks, k)).by = "agent"
               PROVE  ~GateHolds(current)
    BY DEF AgentTypedPassNeverOpens
  <2> DEFINE c == Newest(checks, KindAt(checks, k))
  <2>1. checks \in Seq(CheckRecords(Trees)) /\ k \in CheckKinds
    BY DEF TypeOK, RunnableKinds, CheckKinds
  <2>2. c \in LatestChecks(checks) /\ c.kind = k
    BY <2>1, NewestOfKind
  <2>3. Weightless(risk, c) /\ c.status = "pass" /\ c.source # "runner"
    BY <2>2 DEF Weightless
  <2>4. "typed pass" \in ProvenanceBlockers(risk, checks, current)
    <3> HIDE DEF c
    <3>1. QED
      BY <2>2, <2>3 DEF ProvenanceBlockers
  <2>5. QED
    BY <2>4 DEF GateHolds, GateOK, AgentBlockers
<1>2. QED
  BY <1>1, AtomicTypeCorrect, PTL

\* A failing row is the newest of its kind, so the gate is closed.
LEMMA FailureCloses ==
  ASSUME NEW cs \in Seq(CheckRecords(Trees)), NEW c \in CheckRecords(Trees), c.status = "fail",
         NEW r, NEW a, NEW as, NEW ro, NEW cu
  PROVE  ~GateOK(r, a, Append(cs, c), as, ro, cu)
<1> DEFINE more == Append(cs, c)
<1>1. more \in Seq(CheckRecords(Trees)) /\ c.kind \in CheckKinds
  BY DEF CheckRecords
<1>2. KindAt(more, c.kind) = KindAt(cs, c.kind) \union {Len(cs) + 1}
  BY DEF KindAt
<1>3. Newest(more, KindAt(more, c.kind)) = c
  <2>1. KindAt(cs, c.kind) \in SUBSET DOMAIN cs
    BY DEF KindAt
  <2>2. QED
    BY <1>2, <2>1, NewestAppended
<1>4. c \in LatestChecks(more)
  BY <1>1, <1>2, <1>3 DEF LatestChecks
<1>5. "failing" \in CheckBlockers(r, more)
  BY <1>4 DEF CheckBlockers, Failing
<1>6. QED
  BY <1>5 DEF GateOK, AgentBlockers

\* A rejection opens nothing: it is the newest review decision, and what else the
\* gate reads has not changed.
LEMMA RejectionCloses ==
  ASSUME NEW log \in Seq(ApprovalRecords(Trees)), NEW x \in ApprovalRecords(Trees),
         x.kind = "code_review", x.decision = "rejected",
         NEW r, NEW a, NEW cs, NEW ro, NEW cu,
         GateOK(r, a, cs, Append(log, x), ro, cu)
  PROVE  GateOK(r, a, cs, log, ro, cu)
<1> DEFINE more == Append(log, x)
<1>1. ReviewAt(more) = ReviewAt(log) \union {Len(log) + 1}
  <2>1. /\ DOMAIN more = DOMAIN log \union {Len(log) + 1}
        /\ \A i \in DOMAIN log : more[i] = log[i]
        /\ more[Len(log) + 1] = x
    BY AppendedRow
  <2> HIDE DEF more
  <2>2. QED
    BY <2>1 DEF ReviewAt
<1>2. Newest(more, ReviewAt(more)) = x
  <2>1. ReviewAt(log) \in SUBSET DOMAIN log
    BY DEF ReviewAt
  <2>2. QED
    BY <1>1, <2>1, NewestAppended
<1>3. ~NeedsPerson(r, a)
  <2>1. NeedsPerson(r, a) => "approval required" \in PersonBlockers(r, a, more, ro, cu)
    BY <1>2 DEF PersonBlockers
  <2>2. QED
    BY <2>1 DEF GateOK
<1>4. PersonBlockers(r, a, log, ro, cu) = {}
  BY <1>3 DEF PersonBlockers
<1>5. QED
  BY <1>4 DEF GateOK

\* An approving role asks for more, never for less.
LEMMA RoleCloses ==
  ASSUME NEW r, NEW a, NEW cs, NEW as, NEW cu, GateOK(r, a, cs, as, TRUE, cu)
  PROVE  GateOK(r, a, cs, as, FALSE, cu)
BY DEF GateOK, PersonBlockers

-----------------------------------------------------------------------------

\* A rejection, a failing check or a new approving role never opens the gate.
THEOREM Refusals == Spec => RefusalsNeverOpen
<1> DEFINE Refused == \/ Len(approvals') > Len(approvals) /\ approvals'[Len(approvals')].decision = "rejected"
                      \/ Len(checks') > Len(checks) /\ checks'[Len(checks')].status = "fail"
                      \/ roled' # roled
<1>1. TypeOK /\ [Next]_vars => [Refused => Stricter]_vars
  <2> SUFFICES ASSUME TypeOK, Next, Refused, NEW current \in Currents, GateHolds(current)'
               PROVE  GateHolds(current)
    BY DEF Stricter
  <2>1. CASE RecordCheck
    <3>1. PICK c \in CheckRecords(Trees) : checks' = Append(checks, c)
      BY <2>1 DEF RecordCheck
    <3>2. c.status = "fail"
      BY <2>1, <3>1 DEF TypeOK, RecordCheck
    <3>3. ~GateOK(risk', autonomy', Append(checks, c), approvals', roled', current)
      BY <3>2, FailureCloses DEF TypeOK
    <3>4. QED
      BY <3>1, <3>3 DEF GateHolds
  <2>2. CASE RecordDecision
    <3>1. PICK x \in ApprovalRecords(Trees) : Decidable(x) /\ approvals' = Append(approvals, x)
      BY <2>2 DEF RecordDecision
    <3>2. UNCHANGED <<risk, autonomy, checks, roled>>
      BY <2>2 DEF RecordDecision
    <3>3. x.decision = "rejected" /\ x.kind = "code_review"
      BY <3>1, <3>2 DEF TypeOK, Decidable
    <3>4. GateOK(risk, autonomy, checks, Append(approvals, x), roled, current)
      BY <3>1, <3>2 DEF GateHolds
    <3>5. GateOK(risk, autonomy, checks, approvals, roled, current)
      BY <3>3, <3>4, RejectionCloses DEF TypeOK
    <3>6. QED
      BY <3>5 DEF GateHolds
  <2>3. CASE AddApprovingRole
    <3>1. roled = FALSE /\ roled' = TRUE
      <4>1. /\ ~(Len(approvals') > Len(approvals))
            /\ ~(Len(checks') > Len(checks))
        BY <2>3 DEF TypeOK, AddApprovingRole
      <4>2. roled \in BOOLEAN /\ roled' = TRUE
        BY <2>3 DEF TypeOK, AddApprovingRole
      <4>3. QED
        BY <4>1, <4>2, Zenon DEF Refused
    <3>2. UNCHANGED <<risk, autonomy, checks, approvals>>
      BY <2>3 DEF AddApprovingRole
    <3>3. GateOK(risk, autonomy, checks, approvals, TRUE, current)
      BY <3>1, <3>2 DEF GateHolds
    <3>4. QED
      BY <3>1, <3>3, RoleCloses DEF GateHolds
  <2>4. CASE SetLevels \/ SetStatus \/ Complete
    BY <2>4 DEF TypeOK, SetLevels, SetStatus, Complete
  <2>5. CASE Override
    <3>1. PICK cu \in Trees \union {TreeUnavailable}, levels \in lately : approvals' = Append(approvals, OverrideRecord(cu))
      BY <2>5 DEF Override
    <3>2. approvals'[Len(approvals')].decision = "overridden"
      BY <3>1 DEF TypeOK, OverrideRecord
    <3>3. UNCHANGED <<checks, roled>>
      BY <2>5 DEF Override
    <3>4. QED
      BY <3>2, <3>3 DEF TypeOK
  <2>6. QED
    BY <2>1, <2>2, <2>3, <2>4, <2>5 DEF Next
<1>2. QED
  BY <1>1, AtomicTypeCorrect, PTL DEF Spec, RefusalsNeverOpen

-----------------------------------------------------------------------------
(* What a high-risk gate that holds says of the logs.                      *)

\* The rows in force are the last of their kinds.
LEMMA InForce ==
  ASSUME NEW cs \in Seq(CheckRecords(Trees))
  PROVE  /\ \A c \in LatestChecks(cs) : \E i \in DOMAIN cs :
              c = cs[i] /\ Last(cs, i, KindAt(cs, cs[i].kind))
         /\ \A i \in DOMAIN cs :
              Last(cs, i, KindAt(cs, cs[i].kind)) => cs[i] \in LatestChecks(cs)
<1>1. \A k : KindAt(cs, k) \in SUBSET DOMAIN cs
  BY DEF KindAt
<1>2. ASSUME NEW c \in LatestChecks(cs)
      PROVE  \E i \in DOMAIN cs : c = cs[i] /\ Last(cs, i, KindAt(cs, cs[i].kind))
  <2>1. PICK k \in CheckKinds : KindAt(cs, k) # {} /\ c = Newest(cs, KindAt(cs, k))
    BY DEF LatestChecks
  <2>2. PICK i \in KindAt(cs, k) : (\A j \in KindAt(cs, k) : j <= i) /\ c = cs[i]
    BY <1>1, <2>1, NewestExists
  <2>3. cs[i].kind = k /\ i \in DOMAIN cs
    BY DEF KindAt
  <2>4. QED
    BY <2>2, <2>3 DEF Last
<1>3. ASSUME NEW i \in DOMAIN cs, Last(cs, i, KindAt(cs, cs[i].kind))
      PROVE  cs[i] \in LatestChecks(cs)
  <2>1. cs[i].kind \in CheckKinds
    <3>1. cs[i] \in CheckRecords(Trees)
      OBVIOUS
    <3>2. \A c \in CheckRecords(Trees) : c.kind \in CheckKinds
      BY DEF CheckRecords
    <3>3. QED
      BY <3>1, <3>2
  <2>2. Newest(cs, KindAt(cs, cs[i].kind)) = cs[i]
    BY <1>1, <1>3, NewestAt DEF Last
  <2>3. KindAt(cs, cs[i].kind) # {}
    BY <1>3 DEF Last
  <2>4. QED
    BY <2>1, <2>2, <2>3 DEF LatestChecks
<1>4. QED
  BY <1>2, <1>3

\* The checks: something passed, acline ran the test, and each row in force is
\* the runner's, of one tree.
LEMMA HighRiskChecks ==
  ASSUME NEW r, NEW cs \in Seq(CheckRecords(Trees)), NEW cu \in Trees \union {TreeUnavailable},
         HighRisk(r), AgentBlockers(r, cs, cu) = {}
  PROVE  /\ cu \in Trees
         /\ \E c \in LatestChecks(cs) : /\ c.kind = "test" /\ c.status = "pass"
                                        /\ c.source = "runner" /\ c.tree = cu
         /\ \A c \in LatestChecks(cs) :
              /\ c.status # "fail"
              /\ c.kind \in {"sast", "sca"} => c.status = "pass"
              /\ (c.status = "pass" /\ c.kind \in RunnableKinds) =>
                   c.source = "runner" /\ c.tree = cu
<1> DEFINE latest == LatestChecks(cs)
           passes == {c \in latest : c.status = "pass"}
           ran    == {c \in passes : c.source = "runner"}
<1>1. CheckBlockers(r, cs) = {} /\ ProvenanceBlockers(r, cs, cu) = {}
  BY DEF AgentBlockers
<1>2. latest \subseteq CheckRecords(Trees)
  BY LatestAreChecks
<1>3. \A c \in latest : c.status \in {"pass", "fail", "skipped"}
  <2>1. \A c \in CheckRecords(Trees) : c.status \in {"pass", "fail", "skipped"}
    BY DEF CheckRecords, CheckStatuses
  <2> HIDE DEF latest
  <2>2. QED
    BY <1>2, <2>1
<1>4. \A c \in latest : c.status # "fail"
  <2>1. "failing" \notin CheckBlockers(r, cs)
    BY <1>1
  <2>2. QED
    BY <2>1 DEF CheckBlockers, Failing
<1>5. \A c \in latest : c.kind \in {"sast", "sca"} => c.status = "pass"
  <2>1. "scan skipped" \notin CheckBlockers(r, cs)
    BY <1>1
  <2>2. \A c \in latest : ~(c.kind \in {"sast", "sca"} /\ c.status = "skipped")
    BY <2>1 DEF CheckBlockers
  <2>3. QED
    BY <1>3, <1>4, <2>2
<1>6. passes # {}
  <2>1. "no verification" \notin CheckBlockers(r, cs) /\ "all skipped" \notin CheckBlockers(r, cs)
    BY <1>1
  <2>2. latest # {} /\ ~(\A c \in latest : c.status = "skipped")
    BY <2>1 DEF CheckBlockers
  <2>3. QED
    BY <1>3, <1>4, <2>2
<1>7. ran # {}
  <2>1. "acline ran nothing" \notin ProvenanceBlockers(r, cs, cu)
    BY <1>1
  <2>2. QED
    BY <1>6, <2>1 DEF ProvenanceBlockers
<1>8. cu # TreeUnavailable
  <2>1. "tree unavailable" \notin ProvenanceBlockers(r, cs, cu)
    BY <1>1
  <2>2. QED
    BY <1>7, <2>1 DEF ProvenanceBlockers
<1>9. cu \in Trees /\ TreeKnown(cu)
  BY <1>8, DataAssumption DEF TreeKnown
<1>10. \A c \in ran : c.tree = cu
  <2>1. "stale" \notin ProvenanceBlockers(r, cs, cu) /\ "unbound" \notin ProvenanceBlockers(r, cs, cu)
    BY <1>1
  <2>2. \A c \in ran : c.tree # NoTree
    BY <1>9, <2>1 DEF ProvenanceBlockers
  <2>3. \A c \in ran : ~(c.tree # NoTree /\ c.tree # cu)
    BY <1>9, <2>1 DEF ProvenanceBlockers
  <2>4. QED
    BY <2>2, <2>3
<1>11. \A c \in passes : c.kind \in RunnableKinds => c \in ran
  <2>1. "typed pass" \notin ProvenanceBlockers(r, cs, cu)
    BY <1>1
  <2>2. \A c \in passes \ ran : ~Weightless(r, c)
    BY <2>1 DEF ProvenanceBlockers
  <2>3. \A c : c.kind \in RunnableKinds => Weightless(r, c)
    BY DEF Weightless
  <2>4. QED
    BY <2>2, <2>3
<1>12. \E c \in latest : c.kind = "test" /\ c.status # "skipped"
  <2>1. "tests not run" \notin ProvenanceBlockers(r, cs, cu)
    BY <1>1
  <2>2. QED
    BY <1>7, <2>1 DEF ProvenanceBlockers
<1>13. \E c \in latest : c.kind = "test" /\ c \in ran
  <2>1. PICK c \in latest : c.kind = "test" /\ c.status # "skipped"
    BY <1>12
  <2>2. c \in passes /\ "test" \in RunnableKinds
    BY <1>3, <1>4, <2>1 DEF RunnableKinds
  <2>3. QED
    BY <1>11, <2>1, <2>2
<1>14. QED
  <2>1. \E c \in latest : /\ c.kind = "test" /\ c.status = "pass"
                          /\ c.source = "runner" /\ c.tree = cu
    BY <1>10, <1>13
  <2>2. \A c \in latest : (c.status = "pass" /\ c.kind \in RunnableKinds) =>
                            c.source = "runner" /\ c.tree = cu
    BY <1>10, <1>11
  <2>3. QED
    BY <1>4, <1>5, <1>9, <2>1, <2>2

\* The person: the last review decision approves that tree or names none, and an
\* approver gave it if the project has one.
LEMMA HighRiskApproval ==
  ASSUME NEW r, NEW a, NEW log \in Seq(ApprovalRecords(Trees)), NEW cu \in Trees,
         NEW ro \in BOOLEAN, HighRisk(r), PersonBlockers(r, a, log, ro, cu) = {}
  PROVE  \E i \in DOMAIN log : /\ Last(log, i, ReviewAt(log))
                               /\ log[i].decision = "approved"
                               /\ log[i].tree \in {cu, NoTree}
                               /\ ro => log[i].role = "approver"
<1>1. NeedsPerson(r, a) /\ TreeKnown(cu)
  BY DataAssumption DEF NeedsPerson, TreeKnown
<1>2. /\ "approval required" \notin PersonBlockers(r, a, log, ro, cu)
      /\ "approval stale" \notin PersonBlockers(r, a, log, ro, cu)
      /\ "approver role missing" \notin PersonBlockers(r, a, log, ro, cu)
  OBVIOUS
<1> DEFINE x == Newest(log, ReviewAt(log))
<1>3. ReviewAt(log) # {} /\ x.decision = "approved"
  BY <1>1, <1>2 DEF PersonBlockers
<1>4. ~(x.tree # NoTree /\ x.tree # cu)
  BY <1>1, <1>2, <1>3 DEF PersonBlockers
<1>5. ro => x.role = "approver"
  BY <1>1, <1>2, <1>3, <1>4 DEF PersonBlockers
<1>6. ReviewAt(log) \in SUBSET DOMAIN log
  BY DEF ReviewAt
<1>7. PICK i \in ReviewAt(log) : (\A j \in ReviewAt(log) : j <= i) /\ x = log[i]
  BY <1>3, <1>6, NewestExists
<1>8. Last(log, i, ReviewAt(log)) /\ i \in DOMAIN log
  BY <1>6, <1>7 DEF Last
<1>9. QED
  <2> HIDE DEF x
  <2>1. QED
    BY <1>3, <1>4, <1>5, <1>7, <1>8

\* A high-risk task is finished only by the evidence its rules name.
THEOREM HighRisks == Spec => HighRiskCompletionRules
<1>1. TypeOK /\ [Next]_vars => [HighRiskCompletion]_vars
  <2> SUFFICES ASSUME TypeOK, Next, status # "done", status' = "done",
                      approvals' = approvals,
                      \A levels \in lately : HighRisk(levels[1])
               PROVE  HighRiskCompletion
    BY DEF HighRiskCompletion
  <2>1. Complete
    <3>1. ~Override
      BY DEF TypeOK, Override
    <3>2. ~(RecordCheck \/ RecordDecision \/ SetLevels \/ SetStatus \/ AddApprovingRole)
      BY DEF RecordCheck, RecordDecision, SetLevels, SetStatus, AddApprovingRole
    <3>3. QED
      BY <3>1, <3>2 DEF Next
  <2>2. PICK cu \in Trees \union {TreeUnavailable}, levels \in lately : HoldsFor(levels, cu)
    BY <2>1 DEF Complete
  <2>3. /\ AgentBlockers(levels[1], checks, cu) = {}
        /\ PersonBlockers(levels[1], levels[2], approvals, roled, cu) = {}
        /\ HighRisk(levels[1])
    BY <2>2 DEF HoldsFor, GateOK
  <2>4. checks \in Seq(CheckRecords(Trees)) /\ approvals \in Seq(ApprovalRecords(Trees)) /\ roled \in BOOLEAN
    BY DEF TypeOK
  <2>5. /\ cu \in Trees
        /\ \E c \in LatestChecks(checks) : /\ c.kind = "test" /\ c.status = "pass"
                                           /\ c.source = "runner" /\ c.tree = cu
        /\ \A c \in LatestChecks(checks) :
             /\ c.status # "fail"
             /\ c.kind \in {"sast", "sca"} => c.status = "pass"
             /\ (c.status = "pass" /\ c.kind \in RunnableKinds) =>
                  c.source = "runner" /\ c.tree = cu
    BY <2>3, <2>4, HighRiskChecks
  <2>6. \E i \in DOMAIN approvals : /\ Last(approvals, i, ReviewAt(approvals))
                                    /\ approvals[i].decision = "approved"
                                    /\ approvals[i].tree \in {cu, NoTree}
                                    /\ roled => approvals[i].role = "approver"
    BY <2>3, <2>4, <2>5, HighRiskApproval
  <2>7. \E i \in DOMAIN checks : /\ Last(checks, i, KindAt(checks, checks[i].kind))
                                 /\ checks[i].kind = "test"
                                 /\ checks[i].status = "pass"
                                 /\ checks[i].source = "runner"
                                 /\ checks[i].tree = cu
    BY <2>4, <2>5, InForce
  <2>8. \A i \in DOMAIN checks : Last(checks, i, KindAt(checks, checks[i].kind)) =>
          /\ checks[i].status # "fail"
          /\ checks[i].kind \in {"sast", "sca"} => checks[i].status = "pass"
          /\ (checks[i].status = "pass" /\ checks[i].kind \in RunnableKinds) =>
               checks[i].source = "runner" /\ checks[i].tree = cu
    BY <2>4, <2>5, InForce
  <2>9. QED
    BY <2>5, <2>6, <2>7, <2>8 DEF HighRiskCompletion
<1>2. QED
  BY <1>1, AtomicTypeCorrect, PTL DEF Spec, HighRiskCompletionRules

-----------------------------------------------------------------------------
(* The search of wouldCycle finds what is linked behind a task.            *)

\* Induction over the naturals, for one set of them.
LEMMA AllNaturals ==
  ASSUME NEW S, 0 \in S, \A n \in Nat : n \in S => n + 1 \in S
  PROVE  \A n \in Nat : n \in S
<1> DEFINE R == {ss \in Nat \X Nat : ss[1] < ss[2]}
           Bad == Nat \ S
<1> SUFFICES ASSUME Bad # {} PROVE FALSE
  OBVIOUS
<1>1. IsWellFoundedOn(R, Nat)
  BY NatLessThanWellFounded DEF OpToRel
<1>2. PICK x \in Bad : \A y \in Bad : ~(<<y, x>> \in R)
  <2>1. Bad \subseteq Nat
    OBVIOUS
  <2> HIDE DEF Bad, R
  <2>2. QED
    BY <1>1, <2>1, WFMin
<1>3. x \in Nat /\ x # 0 /\ x - 1 \in Nat
  OBVIOUS
<1>4. x - 1 \notin Bad
  <2>1. <<x - 1, x>> \in R
    BY <1>3
  <2> HIDE DEF Bad, R
  <2>2. QED
    BY <1>2, <2>1
<1>5. QED
  BY <1>3, <1>4

\* One round of the search, and the search as a function of the rounds.
Grow(links_, S) == S \union {e[2] : e \in {x \in Precedes(links_) : x[1] \in S}}

IsSearch(f, n, links_, start) ==
  f = [k \in 0 .. n |-> IF k = 0 THEN {start} ELSE Grow(links_, f[k - 1])]

LEMMA SearchExists ==
  ASSUME NEW links_, NEW start
  PROVE  \A n \in Nat : \E f : IsSearch(f, n, links_, start)
<1> DEFINE S == {n \in Nat : \E f : IsSearch(f, n, links_, start)}
<1>1. 0 \in S
  <2> DEFINE f == [k \in 0 .. 0 |-> {start}]
  <2>1. IsSearch(f, 0, links_, start)
    BY DEF IsSearch
  <2>2. QED
    BY <2>1
<1>2. ASSUME NEW n \in Nat, n \in S PROVE n + 1 \in S
  <2>1. PICK f : IsSearch(f, n, links_, start)
    BY <1>2
  <2> DEFINE g == [k \in 0 .. (n + 1) |-> IF k = n + 1 THEN Grow(links_, f[n]) ELSE f[k]]
             h == [k \in 0 .. (n + 1) |-> IF k = 0 THEN {start} ELSE Grow(links_, g[k - 1])]
  <2>2. ASSUME NEW k \in 0 .. (n + 1) PROVE g[k] = h[k]
    <3>1. CASE k = n + 1
      BY <3>1
    <3>2. CASE k # n + 1
      <4>1. k \in 0 .. n /\ (k # 0 => k - 1 \in 0 .. n)
        BY <3>2
      <4>2. f[k] = IF k = 0 THEN {start} ELSE Grow(links_, f[k - 1])
        BY <2>1, <4>1 DEF IsSearch
      <4>3. QED
        BY <3>2, <4>1, <4>2
    <3>3. QED
      BY <3>1, <3>2
  <2>3. g = h
    BY <2>2
  <2>4. IsSearch(g, n + 1, links_, start)
    BY <2>3 DEF IsSearch
  <2> HIDE DEF g
  <2>5. QED
    BY <2>4
<1> HIDE DEF S
<1>3. \A n \in Nat : n \in S
  BY <1>1, <1>2, AllNaturals
<1>4. QED
  BY <1>3 DEF S

LEMMA WaitingIsSearch ==
  ASSUME NEW links_, NEW start, NEW T, Cardinality(T) \in Nat
  PROVE  \E f : IsSearch(f, Cardinality(T), links_, start) /\ Waiting(links_, start, T) = f[Cardinality(T)]
<1> DEFINE N == Cardinality(T)
           f == CHOOSE f : IsSearch(f, N, links_, start)
<1>1. IsSearch(f, N, links_, start)
  BY SearchExists
<1>2. Waiting(links_, start, T) = f[N]
  BY DEF Waiting, IsSearch, Grow
<1>3. QED
  BY <1>1, <1>2

\* v comes after u, through any number of links: it lies in every set that holds
\* u and whatever waits on what it holds.
Closed(links_, C) == \A e \in Precedes(links_) : e[1] \in C => e[2] \in C
Leads(links_, u, v) == \A C \in SUBSET Nat : u \in C /\ Closed(links_, C) => v \in C

LEMMA PrecedesOf ==
  ASSUME NEW T, NEW links_ \in SUBSET LinkRows(T), NEW e \in Precedes(links_)
  PROVE  e[1] \in T /\ e[2] \in T
BY DEF Precedes, LinkRows

LEMMA SearchSteps ==
  ASSUME NEW f, NEW n \in Nat, NEW links_, NEW start, IsSearch(f, n, links_, start)
  PROVE  /\ f[0] = {start}
         /\ \A k \in 0 .. n : k # 0 => f[k] = Grow(links_, f[k - 1])
<1>1. 0 \in 0 .. n
  OBVIOUS
<1>2. QED
  BY <1>1 DEF IsSearch

\* Whatever is found lies in every closed set that holds the start.
LEMMA SearchIsSound ==
  ASSUME NEW f, NEW n \in Nat, NEW links_, NEW start, IsSearch(f, n, links_, start),
         NEW C, start \in C, Closed(links_, C)
  PROVE  \A k \in 0 .. n : f[k] \subseteq C
<1> DEFINE S == {k \in Nat : k \in 0 .. n => f[k] \subseteq C}
<1>1. 0 \in S
  BY SearchSteps
<1>2. ASSUME NEW k \in Nat, k \in S PROVE k + 1 \in S
  <2> SUFFICES ASSUME k + 1 \in 0 .. n PROVE f[k + 1] \subseteq C
    OBVIOUS
  <2>1. f[k + 1] = Grow(links_, f[k]) /\ f[k] \subseteq C
    <3>1. k + 1 # 0 /\ (k + 1) - 1 = k /\ k \in 0 .. n
      OBVIOUS
    <3>2. QED
      BY <1>2, <3>1, SearchSteps
  <2>2. QED
    BY <2>1 DEF Grow, Closed
<1> HIDE DEF S
<1>3. \A k \in Nat : k \in S
  BY <1>1, <1>2, AllNaturals
<1>4. QED
  BY <1>3 DEF S

\* As many rounds as there are tasks are enough: a round that finds nothing new
\* is the last.
LEMMA SearchIsDone ==
  ASSUME NEW T, IsFiniteSet(T), NEW links_ \in SUBSET LinkRows(T), NEW start \in T, NEW f,
         IsSearch(f, Cardinality(T), links_, start)
  PROVE  /\ Closed(links_, f[Cardinality(T)]) /\ start \in f[Cardinality(T)]
         /\ f[Cardinality(T)] \subseteq T
<1> DEFINE N == Cardinality(T)
<1>1. N \in Nat
  BY FS_CardinalityType
<1>2. \A k \in 0 .. N : f[k] \subseteq T
  <2>1. Closed(links_, T)
    BY PrecedesOf DEF Closed
  <2>2. QED
    BY <1>1, <2>1, SearchIsSound
<1>3. \A k \in 0 .. N : IsFiniteSet(f[k]) /\ Cardinality(f[k]) \in Nat /\ Cardinality(f[k]) <= N
  BY <1>1, <1>2, FS_Subset, FS_CardinalityType
<1> DEFINE S == {k \in Nat : k \in 0 .. N => /\ start \in f[k]
                                              /\ (Closed(links_, f[k]) \/ Cardinality(f[k]) >= k + 1)}
<1>4. 0 \in S
  <2>1. f[0] = {start}
    BY <1>1, SearchSteps
  <2>2. Cardinality({start}) = 1
    BY FS_Singleton
  <2>3. QED
    BY <2>1, <2>2
<1>5. ASSUME NEW k \in Nat, k \in S PROVE k + 1 \in S
  <2> SUFFICES ASSUME k + 1 \in 0 .. N
               PROVE  /\ start \in f[k + 1]
                      /\ (Closed(links_, f[k + 1]) \/ Cardinality(f[k + 1]) >= (k + 1) + 1)
    OBVIOUS
  <2>1. f[k + 1] = Grow(links_, f[k]) /\ k \in 0 .. N
    <3>1. k + 1 # 0 /\ (k + 1) - 1 = k /\ k \in 0 .. N
      BY <1>1
    <3>2. QED
      BY <1>1, <3>1, SearchSteps
  <2>2. f[k] \subseteq f[k + 1] /\ start \in f[k]
    BY <1>5, <2>1 DEF Grow
  <2>3. CASE f[k + 1] = f[k]
    <3>1. Closed(links_, f[k])
      <4>1. ASSUME NEW e \in Precedes(links_), e[1] \in f[k] PROVE e[2] \in f[k]
        <5>1. e[2] \in Grow(links_, f[k])
          BY <4>1 DEF Grow
        <5>2. QED
          BY <2>1, <2>3, <5>1
      <4>2. QED
        BY <4>1 DEF Closed
    <3>2. QED
      BY <2>2, <2>3, <3>1
  <2>4. CASE f[k + 1] # f[k]
    <3>1. ~Closed(links_, f[k])
      <4>1. PICK x \in f[k + 1] : x \notin f[k]
        BY <2>2, <2>4
      <4>2. \E e \in Precedes(links_) : e[1] \in f[k] /\ x = e[2]
        BY <2>1, <4>1 DEF Grow
      <4>3. QED
        BY <4>1, <4>2 DEF Closed
    <3>2. Cardinality(f[k]) >= k + 1
      BY <1>5, <2>1, <3>1
    <3>3. Cardinality(f[k]) < Cardinality(f[k + 1])
      <4>1. Cardinality(f[k]) <= Cardinality(f[k + 1]) /\ (Cardinality(f[k]) = Cardinality(f[k + 1]) => f[k] = f[k + 1])
        BY <1>3, <2>2, FS_Subset
      <4>2. QED
        BY <1>3, <2>1, <2>4, <4>1
    <3>4. QED
      BY <1>3, <2>1, <2>2, <3>2, <3>3
  <2>5. QED
    BY <2>3, <2>4
<1> HIDE DEF S
<1>6. N \in S
  BY <1>1, <1>4, <1>5, AllNaturals
<1>7. start \in f[N] /\ (Closed(links_, f[N]) \/ Cardinality(f[N]) >= N + 1)
  <2>1. N \in 0 .. N
    BY <1>1
  <2>2. QED
    BY <1>6, <2>1 DEF S
<1>8. QED
  <2>1. N \in 0 .. N
    BY <1>1
  <2>2. QED
    BY <1>1, <1>2, <1>3, <1>7, <2>1

\* What the search finds is what is led to, however many tasks there are besides.
LEMMA WaitingIsLedTo ==
  ASSUME NEW T \in SUBSET Nat, IsFiniteSet(T), NEW links_ \in SUBSET LinkRows(T),
         NEW start \in T, NEW v
  PROVE  v \in Waiting(links_, start, T) <=> Leads(links_, start, v)
<1>1. Cardinality(T) \in Nat
  BY FS_CardinalityType
<1>2. PICK f : /\ IsSearch(f, Cardinality(T), links_, start)
               /\ Waiting(links_, start, T) = f[Cardinality(T)]
  BY <1>1, WaitingIsSearch
<1> DEFINE W == f[Cardinality(T)]
<1>3. Closed(links_, W) /\ start \in W /\ W \in SUBSET Nat
  BY <1>2, SearchIsDone
<1>4. \A C : start \in C /\ Closed(links_, C) => W \subseteq C
  <2>1. Cardinality(T) \in 0 .. Cardinality(T)
    BY <1>1
  <2>2. QED
    BY <1>1, <1>2, <2>1, SearchIsSound
<1>5. QED
  BY <1>2, <1>3, <1>4 DEF Leads

-----------------------------------------------------------------------------
(* A link found good leaves every task an order.                           *)

Acyclic(links_) == \A e \in Precedes(links_) : ~Leads(links_, e[2], e[1])

\* A link read and found good.
Orders(links_, l) ==
  /\ l.task # l.related
  /\ l.relation = "depends_on" => ~Leads(links_, l.task, l.related)
  /\ l.relation = "blocks"     => ~Leads(links_, l.related, l.task)

LEMMA OneMorePrecedes ==
  ASSUME NEW links_, NEW l
  PROVE  \A e : e \in Precedes(links_ \union {l}) =>
           \/ e \in Precedes(links_)
           \/ l.relation = "depends_on" /\ e = <<l.related, l.task>>
           \/ l.relation = "blocks" /\ e = <<l.task, l.related>>
BY DEF Precedes

\* Behind a task, through links, there is a closed set of tasks.
LEMMA Behind ==
  ASSUME NEW links_ \in SUBSET LinkRows(Nat), NEW u \in Nat
  PROVE  \E W \in SUBSET Nat : /\ u \in W /\ Closed(links_, W)
                               /\ \A v \in Nat : v \in W <=> Leads(links_, u, v)
<1> DEFINE W == {v \in Nat : Leads(links_, u, v)}
<1>1. u \in W
  BY DEF Leads
<1>2. \A v \in Nat : v \in W <=> Leads(links_, u, v)
  OBVIOUS
<1>3. W \in SUBSET Nat
  OBVIOUS
<1>4. Closed(links_, W)
  <2>1. ASSUME NEW e \in Precedes(links_), e[1] \in W PROVE e[2] \in W
    <3>1. e[2] \in Nat
      BY PrecedesOf
    <3>2. Leads(links_, u, e[2])
      BY <2>1 DEF Leads, Closed
    <3>3. QED
      BY <3>1, <3>2
  <2>2. QED
    BY <2>1 DEF Closed
<1> HIDE DEF W
<1>5. QED
  BY <1>1, <1>2, <1>3, <1>4

\* A sound new edge, between different tasks, keeps every task out of what waits on it.
LEMMA GoodLink ==
  ASSUME NEW links_ \in SUBSET LinkRows(Nat), NEW l \in LinkRows(Nat),
         Acyclic(links_), Orders(links_, l)
  PROVE  Acyclic(links_ \union {l})
<1> DEFINE now == links_ \union {l}
<1>1. now \in SUBSET LinkRows(Nat) /\ l.task \in Nat /\ l.related \in Nat
  BY DEF LinkRows
<1> DEFINE a == IF l.relation = "blocks" THEN l.task ELSE l.related
           b == IF l.relation = "blocks" THEN l.related ELSE l.task
<1>2. CASE l.relation = "related"
  <2>1. Precedes(now) \subseteq Precedes(links_)
    BY <1>2, OneMorePrecedes
  <2>2. ASSUME NEW u, NEW v, Leads(now, u, v) PROVE Leads(links_, u, v)
    <3>1. \A C : Closed(links_, C) => Closed(now, C)
      BY <2>1 DEF Closed
    <3>2. QED
      BY <2>2, <3>1 DEF Leads
  <2>3. QED
    BY <2>1, <2>2 DEF Acyclic
<1>3. CASE l.relation # "related"
  <2>1. /\ a \in Nat /\ b \in Nat /\ ~Leads(links_, b, a)
        /\ \A e \in Precedes(now) : e \in Precedes(links_) \/ (e[1] = a /\ e[2] = b)
    <3>1. l.relation \in {"depends_on", "blocks"}
      BY <1>3 DEF LinkRows, Relations
    <3>2. \A e \in Precedes(now) : e \in Precedes(links_) \/ e = <<a, b>>
      BY <3>1, OneMorePrecedes
    <3>3. QED
      BY <1>1, <3>1, <3>2 DEF Orders
  <2> HIDE DEF a, b, now
  <2>2. PICK B \in SUBSET Nat : /\ b \in B /\ Closed(links_, B)
                                /\ \A v \in Nat : v \in B <=> Leads(links_, b, v)
    BY <2>1, Behind
  <2>3. a \notin B
    BY <2>1, <2>2
  <2>4. SUFFICES ASSUME NEW e \in Precedes(now)
                 PROVE  \E C \in SUBSET Nat : e[2] \in C /\ Closed(now, C) /\ e[1] \notin C
    BY DEF Acyclic, Leads, now
  <2>5. CASE e[1] = a /\ e[2] = b
    <3>1. Closed(now, B)
      BY <2>1, <2>2, <2>3 DEF Closed
    <3>2. QED
      BY <2>2, <2>3, <2>5, <3>1
  <2>6. CASE e \in Precedes(links_)
    <3>1. e[1] \in Nat /\ e[2] \in Nat /\ ~Leads(links_, e[2], e[1])
      BY <2>6, PrecedesOf DEF Acyclic
    <3>2. PICK W \in SUBSET Nat : /\ e[2] \in W /\ Closed(links_, W)
                                  /\ \A v \in Nat : v \in W <=> Leads(links_, e[2], v)
      BY <3>1, Behind
    <3>3. e[1] \notin W
      BY <3>1, <3>2
    <3>4. CASE a \notin W
      <4>1. Closed(now, W)
        BY <2>1, <3>2, <3>4 DEF Closed
      <4>2. QED
        BY <3>2, <3>3, <4>1
    <3>5. CASE a \in W
      <4>1. e[1] \notin B
        <5>1. SUFFICES ASSUME e[1] \in B PROVE FALSE
          OBVIOUS
        <5>2. e[2] \in B
          BY <2>2, <2>6, <5>1 DEF Closed
        <5>3. Leads(links_, e[2], a)
          BY <2>1, <3>2, <3>5
        <5>4. a \in B
          BY <2>2, <5>2, <5>3 DEF Leads
        <5>5. QED
          BY <2>3, <5>4
      <4>2. Closed(now, W \union B)
        BY <2>1, <2>2, <3>2 DEF Closed
      <4>3. W \union B \in SUBSET Nat
        OBVIOUS
      <4>4. QED
        BY <3>2, <3>3, <4>1, <4>2, <4>3
    <3>6. QED
      BY <3>4, <3>5
  <2>7. QED
    BY <2>1, <2>5, <2>6
<1>4. QED
  BY <1>2, <1>3 DEF now

-----------------------------------------------------------------------------
(* What the trail tells of a task.                                         *)

\* ToldLast, of any trail.
Says(log, k, t, field) == log[k].task = t /\ log[k].field = field

LastSaid(log, t, field, n, start) ==
  LET said == {k \in 1 .. n : Says(log, k, t, field)}
  IN  IF said = {} THEN start
      ELSE log[CHOOSE k \in said : \A j \in said : j <= k].to

LEMMA ToldIsSaid ==
  ASSUME NEW t, NEW field, NEW n, NEW start
  PROVE  /\ ToldLast(t, field, n, start) = LastSaid(events, t, field, n, start)
         /\ ToldLast(t, field, n, start)' = LastSaid(events', t, field, n, start)
BY DEF ToldLast, LastSaid, Says

LEMMA SaidHere ==
  ASSUME NEW log, NEW t, NEW field, NEW n \in Nat, NEW start,
         NEW k \in 1 .. n, Says(log, k, t, field),
         \A j \in 1 .. n : Says(log, j, t, field) => j <= k
  PROVE  LastSaid(log, t, field, n, start) = log[k].to
<1> DEFINE said == {j \in 1 .. n : Says(log, j, t, field)}
           last == CHOOSE i \in said : \A j \in said : j <= i
<1>1. k \in said /\ \A j \in said : j <= k
  OBVIOUS
<1>2. last \in said /\ \A j \in said : j <= last
  BY <1>1
<1>3. last = k
  BY <1>1, <1>2
<1>4. LastSaid(log, t, field, n, start) = IF said = {} THEN start ELSE log[last].to
  BY DEF LastSaid
<1> HIDE DEF said, last
<1>5. QED
  BY <1>1, <1>3, <1>4

LEMMA SaidNowhere ==
  ASSUME NEW log, NEW t, NEW field, NEW n \in Nat, NEW start,
         \A j \in 1 .. n : ~Says(log, j, t, field)
  PROVE  LastSaid(log, t, field, n, start) = start
BY DEF LastSaid

\* A trail that goes on in silence about a field tells the same of it.
LEMMA SaidBefore ==
  ASSUME NEW log, NEW more, NEW t, NEW field, NEW n \in Nat, NEW m \in Nat, NEW start, n <= m,
         \A k \in 1 .. n : more[k] = log[k],
         \A k \in 1 .. m : k > n => ~Says(more, k, t, field)
  PROVE  LastSaid(more, t, field, m, start) = LastSaid(log, t, field, n, start)
<1> DEFINE said == {k \in 1 .. n : Says(log, k, t, field)}
<1>1. CASE said = {}
  <2>1. \A j \in 1 .. n : ~Says(log, j, t, field)
    BY <1>1
  <2>2. \A j \in 1 .. m : ~Says(more, j, t, field)
    <3>1. ASSUME NEW j \in 1 .. m PROVE ~Says(more, j, t, field)
      <4>1. CASE j > n
        BY <4>1
      <4>2. CASE ~(j > n)
        <5>1. j \in 1 .. n
          BY <4>2
        <5>2. QED
          BY <2>1, <5>1 DEF Says
      <4>3. QED
        BY <4>1, <4>2
    <3>2. QED
      BY <3>1
  <2>3. QED
    BY <2>1, <2>2, SaidNowhere
<1>2. CASE said # {}
  <2>1. PICK k \in said : \A j \in said : j <= k
    BY <1>2, HasLast
  <2>2. k \in 1 .. n /\ k \in 1 .. m /\ more[k] = log[k] /\ Says(log, k, t, field) /\ Says(more, k, t, field)
    BY <2>1 DEF Says
  <2>3. \A j \in 1 .. n : Says(log, j, t, field) => j <= k
    BY <2>1
  <2>4. \A j \in 1 .. m : Says(more, j, t, field) => j <= k
    <3>1. ASSUME NEW j \in 1 .. m, Says(more, j, t, field) PROVE j <= k
      <4>1. j \in 1 .. n
        BY <3>1
      <4>2. Says(log, j, t, field)
        BY <3>1, <4>1 DEF Says
      <4>3. QED
        BY <2>3, <4>1, <4>2
    <3>2. QED
      BY <3>1
  <2>5. LastSaid(log, t, field, n, start) = log[k].to
    BY <2>2, <2>3, SaidHere
  <2>6. LastSaid(more, t, field, m, start) = more[k].to
    BY <2>2, <2>4, SaidHere
  <2>7. QED
    BY <2>2, <2>5, <2>6
<1>3. QED
  BY <1>1, <1>2

-----------------------------------------------------------------------------
(* The inductive invariant: the tables are typed and match the trail, links *)
(* read as validated leave every task an order, whatever a command remembers *)
(* at a point of it still holds, and what the trail says of autonomy was     *)
(* given by a person or earned.                                              *)

TaskRows(P) ==
  [project : {NoProject} \union P, status : TaskStatuses, autonomy : Autonomies,
   deferred : {"yes", "no"}, milestone : {NoMilestone} \union Milestones]

EvalRows(I, P) == [task : {0} \union I, project : {0} \union P, rate : Rates, by : Procs, at : Nat]

MilestoneStatuses == {"planned", "active", "done", "cancelled"}

Points == {"idle", "marker", "named", "listed", "insert", "update", "link", "promote", "write"}

Values == TaskStatuses \union Autonomies \union {"yes", "no", NoMilestone} \union Milestones
            \union Rates \union Names \union MilestoneStatuses

EventRows ==
  [task : Nat, field : {"status", "autonomy", "milestone", "deferred", "project", "eval",
                        "milestone_status"},
   to : Values, how : {"created", "set", "promoted"}, by : Procs, cmd : Nat, since : Nat,
   cited : Nat]

Fields == {"status", "autonomy", "milestone"}

Settings == UNION {[D -> Values \union {""}] : D \in SUBSET Fields}

\* What a command remembers, whatever it is about.
Memories ==
  [task : Nat, set : Settings, cmd : Nat, since : Nat, link : Seq(LinkRows(Nat)),
   seen : SUBSET LinkRows(Nat), cited : Nat, project : Nat, at : SUBSET Dirs,
   found : SUBSET [name : Names, in : Dirs], known : SUBSET Nat]

TablesTyped ==
  /\ tasks \in Seq(TaskRows(Projects))
  /\ links \subseteq LinkRows(Ids)
  /\ evals \in Seq(EvalRows(Ids, Projects))
  /\ milestones \in [Milestones -> MilestoneStatuses]
  /\ projects \in Seq(ProjectRows)
  /\ markers \in [Dirs -> {NoName} \union Names]
  /\ \A i, j \in Projects : projects[i].name = projects[j].name => i = j
  /\ events \in Seq(EventRows)
  /\ \A k \in DOMAIN events : events[k].task \in {0} \union Ids /\ events[k].since < k
  /\ blind \in BOOLEAN

Typed ==
  /\ TablesTyped
  /\ used \in Families /\ calls \in Nat
  /\ pc \in [Procs -> Points]
  /\ mem \in [Procs -> Memories]

\* Where a task is added from: what has been found is above it.
Located(m) ==
  /\ \A d, e \in m.at : d = e
  /\ \A f \in m.found, d \in m.at : f.in \in Upward(d)

\* The project an addition has settled on is one it may be in.
Meant(m) ==
  /\ m.project # NoProject =>
       \A d \in m.at :
         \/ projects[m.project].path = {} /\ \E f \in m.found : f.name = projects[m.project].name
         \/ \E path \in projects[m.project].path, a \in Dirs :
              a \in Upward(d) /\ PathInside(a, path)
  /\ (\E i \in m.known, d \in m.at : \E path \in projects[i].path : PathInside(d, path))
       => m.project # NoProject

AddingHolds(m) ==
  /\ m.project \in {NoProject} \union Projects
  /\ "autonomy" \in DOMAIN m.set /\ m.set["autonomy"] \in {""} \union Autonomies
  /\ Located(m)

WritingHolds(m) ==
  /\ m.project \in Projects
  /\ \A d, e \in m.at : d = e
  /\ \A d \in m.at : MayMark(projects[m.project], d)

UpdatingHolds(p, m) ==
  /\ m.task \in Ids /\ DOMAIN m.set \subseteq Fields
  /\ "status" \in DOMAIN m.set => m.set["status"] \in TaskStatuses
  /\ "milestone" \in DOMAIN m.set => m.set["milestone"] \in Milestones
  /\ "autonomy" \in DOMAIN m.set =>
       /\ m.set["autonomy"] \in Autonomies
       /\ p \notin Deciders =>
            /\ m.set["autonomy"] # "auto"
            /\ AutonomyRank[m.set["autonomy"]] <= AutonomyRank[AutonomyAt(m.task, m.since)]

\* The eval e speaks for a promotion by p of task t begun when there were n events.
SpeaksFor(e, t, p, n) ==
  /\ e \in DOMAIN evals /\ t \in Ids
  /\ EvalProject(evals[e]) = tasks[t].project
  /\ p \in Agents => evals[e].rate >= DefaultThreshold /\ evals[e].by \notin Agents
  /\ \A i \in DOMAIN evals :
       (i > e /\ EvalProject(evals[i]) = tasks[t].project) => evals[i].at >= n

PromotingHolds(p, m) ==
  /\ "autonomy" \in DOMAIN m.set /\ m.set["autonomy"] \in Autonomies
  /\ SpeaksFor(m.cited, m.task, p, m.since)

LinkingHolds(m) ==
  /\ Len(m.link) = 1 /\ m.link[1] \in LinkRows(Ids)
  /\ m.seen \subseteq LinkRows(Ids) /\ Orders(m.seen, m.link[1])

\* What p remembers, at a point of its command, still holds.
Remembered(p, at, m) ==
  /\ m.task \in {0} \union Ids /\ m.since <= Len(events) /\ m.known \subseteq Projects
  /\ at \in {"marker", "named", "listed", "insert"} => AddingHolds(m)
  /\ at = "insert" => Meant(m)
  /\ at = "write" => WritingHolds(m)
  /\ at = "update" => UpdatingHolds(p, m)
  /\ at = "promote" => PromotingHolds(p, m)
  /\ at = "link" => LinkingHolds(m)

AllRemembered ==
  \A p \in Procs, at \in Points, m \in Memories :
    (pc[p] = at /\ mem[p] = m) => Remembered(p, at, m)

\* What an event says of autonomy was given by a person or earned.
Given(k) ==
  LET v == events[k] IN
  /\ (v.field = "autonomy" /\ v.to = "auto") =>
       \/ v.how \in {"created", "set"} /\ v.by \in Deciders
       \/ v.how = "promoted" /\ SpeaksFor(v.cited, v.task, v.by, v.since)
  /\ (v.field = "autonomy" /\ v.how = "set" /\ v.by \notin Deciders) =>
       AutonomyRank[v.to] <= AutonomyRank[AutonomyAt(v.task, v.since)]

AllGiven == \A k \in DOMAIN events : Given(k)

\* Whatever links were added as they had been found good.
InAnOrder == ~blind => Acyclic(links)

BInv == Typed /\ BoardMatchesTrail /\ InAnOrder /\ AllRemembered /\ AllGiven

-----------------------------------------------------------------------------
(* The tables only grow: what was remembered, or told, goes on holding.    *)

Grown ==
  /\ Ids \subseteq Ids' /\ \A t \in Ids : tasks'[t].project = tasks[t].project
  /\ Projects \subseteq Projects' /\ \A i \in Projects : projects'[i] = projects[i]
  /\ Len(events) <= Len(events') /\ \A k \in DOMAIN events : events'[k] = events[k]
  /\ DOMAIN evals \subseteq DOMAIN evals' /\ \A e \in DOMAIN evals : evals'[e] = evals[e]
  /\ \A e \in DOMAIN evals' : e \notin DOMAIN evals => evals'[e].at >= Len(events)

LEMMA GrownTells ==
  ASSUME TablesTyped, TablesTyped', Grown, NEW t, NEW n \in Nat, n <= Len(events)
  PROVE  AutonomyAt(t, n)' = AutonomyAt(t, n)
<1>1. \A k \in 1 .. n : events'[k] = events[k]
  <2>1. \A k \in 1 .. n : k \in DOMAIN events
    BY DEF TablesTyped
  <2>2. QED
    BY <2>1 DEF Grown
<1>2. LastSaid(events', t, "autonomy", n, "hotl") = LastSaid(events, t, "autonomy", n, "hotl")
  <2>1. n <= n /\ \A k \in 1 .. n : k > n => ~Says(events', k, t, "autonomy")
    OBVIOUS
  <2>2. QED
    BY <1>1, <2>1, SaidBefore
<1>3. QED
  BY <1>2, ToldIsSaid DEF AutonomyAt

LEMMA GrownEvals ==
  ASSUME TablesTyped, Grown, NEW e \in DOMAIN evals
  PROVE  EvalProject(evals[e])' = EvalProject(evals[e])
<1>1. evals[e] \in EvalRows(Ids, Projects) /\ evals'[e] = evals[e]
  BY DEF TablesTyped, Grown
<1>2. evals[e].task # 0 => tasks'[evals[e].task].project = tasks[evals[e].task].project
  BY <1>1 DEF EvalRows, Grown
<1>3. QED
  BY <1>1, <1>2 DEF EvalProject

LEMMA GrownSpeaks ==
  ASSUME TablesTyped, TablesTyped', Grown, NEW e, NEW t, NEW p, NEW n \in Nat, n <= Len(events),
         SpeaksFor(e, t, p, n)
  PROVE  SpeaksFor(e, t, p, n)'
<1>1. /\ e \in DOMAIN evals' /\ t \in Ids' /\ tasks'[t].project = tasks[t].project
      /\ evals'[e] = evals[e] /\ EvalProject(evals[e])' = tasks'[t].project
  BY GrownEvals DEF SpeaksFor, Grown
<1>2. p \in Agents => evals'[e].rate >= DefaultThreshold /\ evals'[e].by \notin Agents
  BY <1>1 DEF SpeaksFor
<1>3. ASSUME NEW i \in DOMAIN evals', i > e, EvalProject(evals[i])' = tasks'[t].project
      PROVE  evals'[i].at >= n
  <2>1. CASE i \in DOMAIN evals
    BY <1>1, <1>3, <2>1, GrownEvals DEF SpeaksFor, Grown
  <2>2. CASE i \notin DOMAIN evals
    <3>1. evals'[i].at >= Len(events) /\ evals'[i].at \in Nat /\ Len(events) \in Nat
      <4>1. evals'[i] \in EvalRows(Ids', Projects')
        BY <1>3 DEF TablesTyped
      <4>2. evals'[i].at >= Len(events) /\ Len(events) \in Nat
        BY <1>3, <2>2 DEF Grown, TablesTyped
      <4>3. QED
        BY <4>1, <4>2 DEF EvalRows
    <3>2. QED
      BY <3>1
  <2>3. QED
    BY <2>1, <2>2
<1>4. QED
  BY <1>1, <1>2, <1>3 DEF SpeaksFor

LEMMA GrownRemembers ==
  ASSUME TablesTyped, TablesTyped', Grown, NEW p, NEW at, NEW m \in Memories, Remembered(p, at, m)
  PROVE  Remembered(p, at, m)'
<1>1. m.since \in Nat /\ m.since <= Len(events) /\ Len(events) \in Nat /\ Len(events') \in Nat
  BY DEF Remembered, Memories, TablesTyped
<1>2. /\ m.task \in {0} \union Ids' /\ m.since <= Len(events') /\ m.known \subseteq Projects'
      /\ Ids \subseteq Ids' /\ Projects \subseteq Projects'
      /\ \A i \in Projects : projects'[i] = projects[i]
  BY <1>1 DEF Remembered, Grown
<1>3. at \in {"marker", "named", "listed", "insert"} => AddingHolds(m)'
  BY <1>2 DEF Remembered, AddingHolds, Located
<1>4. at = "insert" => Meant(m)'
  <2> SUFFICES ASSUME at = "insert" PROVE Meant(m)'
    OBVIOUS
  <2>1. /\ m.project \in {NoProject} \union Projects /\ m.known \subseteq Projects /\ Meant(m)
    BY DEF Remembered, AddingHolds
  <2>2. m.project # NoProject => projects'[m.project] = projects[m.project]
    BY <1>2, <2>1
  <2>3. \A i \in m.known : projects'[i] = projects[i]
    BY <1>2, <2>1
  <2>4. QED
    BY <2>1, <2>2, <2>3 DEF Meant
<1>5. at = "write" => WritingHolds(m)'
  BY <1>2 DEF Remembered, WritingHolds
<1>6. at = "update" => UpdatingHolds(p, m)'
  BY <1>1, <1>2, GrownTells DEF Remembered, UpdatingHolds
<1>7. at = "promote" => PromotingHolds(p, m)'
  BY <1>1, <1>2, GrownSpeaks DEF Remembered, PromotingHolds
<1>8. at = "link" => LinkingHolds(m)'
  <2>1. LinkRows(Ids) \subseteq LinkRows(Ids')
    BY <1>2 DEF LinkRows
  <2>2. QED
    BY <2>1 DEF Remembered, LinkingHolds
<1>9. QED
  BY <1>2, <1>3, <1>4, <1>5, <1>6, <1>7, <1>8 DEF Remembered

LEMMA GrownGives ==
  ASSUME TablesTyped, TablesTyped', Grown, NEW k \in DOMAIN events, Given(k)
  PROVE  Given(k)'
<1>1. /\ events'[k] = events[k] /\ events[k].since \in Nat /\ events[k].since <= Len(events)
  <2>1. events[k] \in EventRows /\ events[k].since < k /\ k \in 1 .. Len(events) /\ Len(events) \in Nat
    BY DEF TablesTyped
  <2>2. events[k].since \in Nat
    BY <2>1 DEF EventRows
  <2>3. k \in Nat /\ k <= Len(events)
    BY <2>1
  <2>4. events'[k] = events[k]
    BY DEF Grown
  <2>5. QED
    BY <2>1, <2>2, <2>3, <2>4
<1>2. AutonomyAt(events[k].task, events[k].since)' = AutonomyAt(events[k].task, events[k].since)
  BY <1>1, GrownTells
<1>3. SpeaksFor(events[k].cited, events[k].task, events[k].by, events[k].since) =>
        SpeaksFor(events[k].cited, events[k].task, events[k].by, events[k].since)'
  BY <1>1, GrownSpeaks
<1>4. QED
  BY <1>1, <1>2, <1>3 DEF Given

-----------------------------------------------------------------------------
(* What a step of one process has to show.                                 *)

\* Goes on at `to`, remembering m.
Moves(p, to, m) ==
  /\ pc' = [pc EXCEPT ![p] = to]
  /\ mem' = [mem EXCEPT ![p] = m]

LEMMA MovesKeepTypes ==
  ASSUME Typed, NEW p \in Procs, NEW to \in Points, NEW m \in Memories, Moves(p, to, m)
  PROVE  /\ pc' \in [Procs -> Points] /\ mem' \in [Procs -> Memories]
         /\ pc'[p] = to /\ mem'[p] = m
         /\ \A q \in Procs \ {p} : pc'[q] = pc[q] /\ mem'[q] = mem[q]
BY DEF Typed, Moves

\* A step that changes the tables.
LEMMA TableStep ==
  ASSUME BInv, NEW p \in Procs, NEW to \in Points, NEW m \in Memories, Moves(p, to, m),
         used' = used, calls' \in Nat, TablesTyped', BoardMatchesTrail', InAnOrder', Grown,
         \A k \in DOMAIN events' \ DOMAIN events : Given(k)',
         Remembered(p, to, m)'
  PROVE  BInv'
<1>1. Typed'
  BY MovesKeepTypes DEF BInv, Typed
<1>2. AllRemembered'
  <2>1. ASSUME NEW q \in Procs, NEW at \in Points, NEW mq \in Memories, pc'[q] = at, mem'[q] = mq
        PROVE  Remembered(q, at, mq)'
    <3>1. CASE q = p
      <4>1. at = to /\ mq = m
        BY <2>1, <3>1, MovesKeepTypes DEF BInv
      <4>2. QED
        BY <3>1, <4>1
    <3>2. CASE q # p
      <4>1. pc[q] = at /\ mem[q] = mq
        BY <2>1, <3>2, MovesKeepTypes DEF BInv
      <4>2. Remembered(q, at, mq)
        BY <4>1 DEF BInv, AllRemembered
      <4>3. QED
        BY <4>2, GrownRemembers DEF BInv, Typed
    <3>3. QED
      BY <3>1, <3>2
  <2>2. QED
    BY <2>1 DEF AllRemembered
<1>3. AllGiven'
  <2>1. ASSUME NEW k \in DOMAIN events', k \in DOMAIN events PROVE Given(k)'
    BY <2>1, GrownGives DEF BInv, Typed, AllGiven
  <2>2. QED
    BY <2>1 DEF AllGiven
<1>4. QED
  BY <1>1, <1>2, <1>3 DEF BInv

\* A step that changes only what its process remembers.
LEMMA OwnStep ==
  ASSUME BInv, NEW p \in Procs, NEW to \in Points, NEW m \in Memories, Moves(p, to, m),
         UNCHANGED <<tables, events, blind>>, used' = used, calls' \in Nat, Remembered(p, to, m)
  PROVE  BInv'
<1>1. TablesTyped' /\ BoardMatchesTrail' /\ InAnOrder'
  BY ToldIsSaid DEF BInv, Typed, TablesTyped, BoardMatchesTrail, AutonomyAt, InAnOrder,
     tables, scopes, Ids, Projects
<1>2. Grown
  <2>1. Len(events) \in Nat
    BY DEF BInv, Typed, TablesTyped
  <2>2. QED
    BY <2>1 DEF Grown, tables, scopes, Ids, Projects
<1>3. Remembered(p, to, m)'
  BY <1>1, <1>2, GrownRemembers DEF BInv, Typed
<1>4. events' = events
  OBVIOUS
<1>5. QED
  BY <1>1, <1>2, <1>3, <1>4, TableStep

LEMMA IdleIsTyped == Idle \in Memories
<1>1. [f \in {} |-> ""] \in [{} -> Values \union {""}] /\ {} \in SUBSET Fields
  OBVIOUS
<1>2. [f \in {} |-> ""] \in Settings
  BY <1>1 DEF Settings
<1>3. <<>> \in Seq(LinkRows(Nat))
  OBVIOUS
<1>4. QED
  BY <1>2, <1>3 DEF Idle, Memories, NoEval, NoProject

LEMMA IdleRemembers ==
  ASSUME TablesTyped, NEW p
  PROVE  Remembered(p, "idle", Idle)
<1>1. Len(events) \in Nat
  BY DEF TablesTyped
<1>2. QED
  BY <1>1 DEF Remembered, Idle

LEMMA NowIdle ==
  ASSUME TablesTyped', NEW p
  PROVE  Remembered(p, "idle", Idle)'
<1>1. Len(events') \in Nat
  BY DEF TablesTyped
<1>2. QED
  BY <1>1 DEF Remembered, Idle

LEMMA ReturnMoves ==
  ASSUME NEW p, Return(p)
  PROVE  Moves(p, "idle", Idle) /\ used' = used /\ calls' = calls
BY DEF Return, Moves

LEMMA GoOnMoves ==
  ASSUME NEW p, NEW to, NEW m, GoOn(p, to, m)
  PROVE  Moves(p, to, m) /\ used' = used /\ calls' = calls
BY DEF GoOn, Moves

\* A command begins knowing when it did and which projects there were.
Begun(m) == [m EXCEPT !.cmd = calls + 1, !.since = Len(events), !.known = Projects]

LEMMA BegunIsTyped ==
  ASSUME Typed, NEW m \in Memories
  PROVE  /\ Begun(m) \in Memories
         /\ Begun(m).task = m.task /\ Begun(m).set = m.set /\ Begun(m).cmd = calls + 1
         /\ Begun(m).since = Len(events) /\ Begun(m).link = m.link /\ Begun(m).seen = m.seen
         /\ Begun(m).cited = m.cited /\ Begun(m).project = m.project /\ Begun(m).at = m.at
         /\ Begun(m).found = m.found /\ Begun(m).known = Projects
<1>1. Len(events) \in Nat /\ calls + 1 \in Nat /\ Projects \in SUBSET Nat
  <2>1. Len(events) \in Nat /\ Projects = 1 .. Len(projects) /\ calls \in Nat
    BY DEF Typed, TablesTyped, Projects
  <2>2. QED
    BY <2>1
<1>2. QED
  BY <1>1 DEF Begun, Memories

LEMMA StartMoves ==
  ASSUME Typed, NEW p, NEW call, NEW to, NEW m, Start(p, call, to, m)
  PROVE  /\ Moves(p, to, IF to = "idle" THEN Idle ELSE Begun(m))
         /\ used' = used /\ calls' = calls + 1 /\ calls' \in Nat /\ pc[p] = "idle"
<1>1. calls \in Nat
  BY DEF Typed
<1>2. QED
  BY <1>1 DEF Start, Moves, Begun

\* Whatever begins remembers no more than there is.
LEMMA BegunRemembers ==
  ASSUME Typed, NEW p, NEW to, NEW m \in Memories, m.task \in {0} \union Ids,
         to \in {"marker", "named", "listed", "insert"} => AddingHolds(Begun(m)),
         to = "insert" => Meant(Begun(m)),
         to = "write" => WritingHolds(Begun(m)),
         to = "update" => UpdatingHolds(p, Begun(m)),
         to = "promote" => PromotingHolds(p, Begun(m)),
         to = "link" => LinkingHolds(Begun(m))
  PROVE  Remembered(p, to, Begun(m))
<1>1. Len(events) \in Nat
  BY DEF Typed, TablesTyped
<1>2. QED
  BY <1>1, BegunIsTyped DEF Remembered

\* What p remembers.
LEMMA ItsMemory ==
  ASSUME BInv, NEW p \in Procs
  PROVE  mem[p] \in Memories /\ pc[p] \in Points /\ Remembered(p, pc[p], mem[p])
BY DEF BInv, Typed, AllRemembered

-----------------------------------------------------------------------------
(* Directories.                                                            *)

LEMMA WholeSeq ==
  ASSUME NEW S, NEW d \in Seq(S)
  PROVE  SubSeq(d, 1, Len(d)) = d
OBVIOUS

LEMMA DirsAreSeqs ==
  ASSUME NEW d \in Dirs
  PROVE  d \in Seq(STRING) /\ Len(d) \in Nat /\ Real[d] \in Dirs /\ Upward(d) \subseteq Dirs
BY ProjectScopeAssumption DEF Upward

LEMMA IsOnItsWay ==
  ASSUME NEW d \in Dirs
  PROVE  d \in Upward(d) /\ Paths!IsPrefix(d, d)
<1>1. d \in Seq(STRING) /\ Len(d) \in 0 .. Len(d) /\ SubSeq(d, 1, Len(d)) = d /\ Len(d) <= Len(d)
  BY DirsAreSeqs, WholeSeq
<1>2. QED
  BY <1>1 DEF Upward, Paths!Prefixes, Paths!IsPrefix

LEMMA PrefixIsAbove ==
  ASSUME NEW a \in Dirs, NEW d \in Dirs
  PROVE  Paths!IsPrefix(a, d) <=> a \in Upward(d)
<1>1. a \in Seq(STRING) /\ d \in Seq(STRING) /\ Len(a) \in Nat /\ Len(d) \in Nat /\ SubSeq(a, 1, Len(a)) = a
  BY DirsAreSeqs, WholeSeq
<1>2. ASSUME Paths!IsPrefix(a, d) PROVE a \in Upward(d)
  <2>1. Len(a) \in 0 .. Len(d) /\ a = SubSeq(d, 1, Len(a))
    BY <1>1, <1>2 DEF Paths!IsPrefix
  <2>2. QED
    BY <2>1 DEF Upward, Paths!Prefixes
<1>3. ASSUME a \in Upward(d) PROVE Paths!IsPrefix(a, d)
  <2>1. PICK l \in 0 .. Len(d) : a = SubSeq(d, 1, l)
    BY <1>3 DEF Upward, Paths!Prefixes
  <2>2. Len(a) = l
    BY <1>1, <2>1
  <2>3. QED
    BY <1>1, <2>1, <2>2 DEF Paths!IsPrefix
<1>4. QED
  BY <1>2, <1>3

LEMMA AboveIsShorter ==
  ASSUME NEW d \in Dirs, NEW a \in Upward(d)
  PROVE  Len(a) \in Nat /\ Len(a) <= Len(d) /\ (Len(a) >= Len(d) => a = d)
<1>1. a \in Dirs /\ d \in Seq(STRING) /\ Len(a) \in Nat /\ Len(d) \in Nat /\ SubSeq(d, 1, Len(d)) = d
  BY DirsAreSeqs, WholeSeq
<1>2. PICK l \in 0 .. Len(d) : a = SubSeq(d, 1, l)
  BY DEF Upward, Paths!Prefixes
<1>3. Len(a) = l
  BY <1>1, <1>2
<1>4. l \in Nat /\ l <= Len(d) /\ (l >= Len(d) => l = Len(d))
  <2>1. Len(d) \in Nat /\ l \in 0 .. Len(d)
    BY <1>1, <1>2
  <2>2. QED
    BY <2>1
<1>5. Len(a) >= Len(d) => a = d
  BY <1>1, <1>2, <1>3, <1>4
<1>6. QED
  BY <1>3, <1>4, <1>5

LEMMA NearestThere ==
  ASSUME NEW d \in Dirs, NEW S, Upward(d) \intersect S # {}
  PROVE  Nearest(d, S) # {}
<1> DEFINE on == Upward(d) \intersect S
           lens == {Len(a) + 1 : a \in on}
<1>1. Len(d) + 1 \in Nat /\ lens # {}
  BY DirsAreSeqs
<1>2. lens \in SUBSET (1 .. (Len(d) + 1))
  <2>1. \A a \in on : Len(a) + 1 \in 1 .. (Len(d) + 1)
    <3>1. ASSUME NEW a \in on PROVE Len(a) + 1 \in 1 .. (Len(d) + 1)
      <4>1. Len(a) \in Nat /\ Len(a) <= Len(d) /\ Len(d) \in Nat
        BY AboveIsShorter, DirsAreSeqs
      <4>2. QED
        BY <4>1
    <3>2. QED
      BY <3>1
  <2>2. QED
    BY <2>1
<1>3. PICK x \in lens : \A y \in lens : y <= x
  <2> HIDE DEF lens
  <2>1. QED
    BY <1>1, <1>2, HasLast
<1>4. PICK a \in on : x = Len(a) + 1
  BY <1>3
<1>5. ASSUME NEW b \in on PROVE Len(b) <= Len(a)
  <2>1. Len(b) + 1 <= Len(a) + 1
    BY <1>3, <1>4
  <2>2. Len(b) \in Nat /\ Len(a) \in Nat
    BY AboveIsShorter
  <2>3. QED
    BY <2>1, <2>2
<1>6. a \in Nearest(d, S)
  BY <1>5 DEF Nearest
<1>7. QED
  BY <1>6

LEMMA NearestIsAbove ==
  ASSUME NEW d, NEW S, NEW a \in Nearest(d, S)
  PROVE  a \in Upward(d) /\ a \in S
BY DEF Nearest

\* The least of some numbers.
LEMMA LeastOf ==
  ASSUME NEW S \in SUBSET Nat, S # {}
  PROVE  LET i == CHOOSE i \in S : \A j \in S : i <= j IN i \in S /\ \A j \in S : i <= j
<1> DEFINE R == {ss \in Nat \X Nat : ss[1] < ss[2]}
<1>1. IsWellFoundedOn(R, Nat)
  BY NatLessThanWellFounded DEF OpToRel
<1>2. PICK x \in S : \A y \in S : ~(<<y, x>> \in R)
  <2> HIDE DEF R
  <2>1. QED
    BY <1>1, WFMin
<1>3. \A y \in S : x <= y
  <2>1. ASSUME NEW y \in S, ~(x <= y) PROVE FALSE
    <3>1. x \in Nat /\ y \in Nat
      OBVIOUS
    <3>2. <<y, x>> \in R
      BY <2>1, <3>1
    <3>3. QED
      BY <1>2, <3>2
  <2>2. QED
    BY <2>1
<1>4. QED
  BY <1>3

LEMMA AboveIsThere ==
  ASSUME NEW rows \in Seq(ProjectRows), NEW d \in Dirs
  PROVE  /\ ProjectAbove(rows, d) \in {NoProject} \union DOMAIN rows
         /\ ProjectAbove(rows, d) # NoProject =>
              \E a \in Upward(d) : ProjectAbove(rows, d) \in ProjectsAt(rows, a)
         /\ (\E a \in Upward(d) : ProjectsAt(rows, a) # {}) => ProjectAbove(rows, d) # NoProject
<1> DEFINE S == {x \in Dirs : ProjectsAt(rows, x) # {}}
           at == UNION {ProjectsAt(rows, a) : a \in Nearest(d, S)}
<1>1. \A a : ProjectsAt(rows, a) \subseteq DOMAIN rows
  BY DEF ProjectsAt
<1>2. at \subseteq DOMAIN rows /\ DOMAIN rows \subseteq Nat /\ NoProject \notin DOMAIN rows
  <2>1. at \subseteq DOMAIN rows
    BY <1>1
  <2>2. DOMAIN rows = 1 .. Len(rows) /\ Len(rows) \in Nat
    OBVIOUS
  <2> HIDE DEF at
  <2>3. QED
    BY <2>1, <2>2 DEF NoProject
<1>3. ProjectAbove(rows, d) = IF at = {} THEN NoProject ELSE CHOOSE i \in at : \A j \in at : i <= j
  BY DEF ProjectAbove
<1>4. at # {} => ProjectAbove(rows, d) \in at
  <2> HIDE DEF at
  <2>1. QED
    BY <1>2, <1>3, LeastOf
<1>5. (\E a \in Upward(d) : ProjectsAt(rows, a) # {}) => at # {}
  <2>1. ASSUME NEW a \in Upward(d), ProjectsAt(rows, a) # {} PROVE at # {}
    <3>1. Upward(d) \intersect S # {}
      BY <2>1, DirsAreSeqs
    <3>2. PICK b \in Nearest(d, S) : TRUE
      BY <3>1, NearestThere
    <3>3. ProjectsAt(rows, b) # {}
      BY NearestIsAbove
    <3>4. QED
      BY <3>2, <3>3
  <2>2. QED
    BY <2>1
<1>6. at # {} => \E a \in Upward(d) : ProjectAbove(rows, d) \in ProjectsAt(rows, a)
  <2>1. ASSUME at # {} PROVE \E a \in Nearest(d, S) : ProjectAbove(rows, d) \in ProjectsAt(rows, a)
    BY <1>4, <2>1
  <2>2. QED
    BY <2>1, NearestIsAbove
<1> HIDE DEF at
<1>7. QED
  BY <1>2, <1>3, <1>4, <1>5, <1>6

\* A project found in the list holds the directory; one that holds it is found.
LEMMA ListedIsMeant ==
  ASSUME NEW rows \in Seq(ProjectRows), NEW d \in Dirs
  PROVE  /\ ListedProject(rows, d) \in {NoProject} \union DOMAIN rows
         /\ ListedProject(rows, d) # NoProject =>
              \E path \in rows[ListedProject(rows, d)].path, a \in Dirs :
                a \in Upward(d) /\ PathInside(a, path)
         /\ (\E i \in DOMAIN rows : \E path \in rows[i].path : PathInside(d, path))
              => ListedProject(rows, d) # NoProject
<1> DEFINE i == ListedProject(rows, d)
<1>1. Real[d] \in Dirs /\ \A a \in Upward(Real[d]) : Real[a] = a /\ a \in Dirs
  BY ProjectScopeAssumption, DirsAreSeqs DEF Upward
<1>2. i = IF ProjectAbove(rows, d) # NoProject THEN ProjectAbove(rows, d) ELSE ProjectAbove(rows, Real[d])
  BY DEF ListedProject
<1>3. i \in {NoProject} \union DOMAIN rows
  BY <1>1, <1>2, AboveIsThere
<1>4. \A j \in DOMAIN rows : rows[j].path \subseteq Dirs
  <2>1. \A j \in DOMAIN rows : rows[j] \in ProjectRows
    OBVIOUS
  <2>2. QED
    BY <2>1 DEF ProjectRows
<1>5. ASSUME i # NoProject, ProjectAbove(rows, d) # NoProject
      PROVE  \E path \in rows[i].path, a \in Dirs : a \in Upward(d) /\ PathInside(a, path)
  <2>1. PICK a \in Upward(d) : i \in ProjectsAt(rows, a)
    BY <1>2, <1>5, AboveIsThere
  <2>2. PICK path \in rows[i].path : path = a \/ Real[path] = a
    BY <2>1 DEF ProjectsAt
  <2>3. path \in Dirs /\ a \in Dirs
    BY <1>3, <1>4, <1>5, <2>2, DirsAreSeqs
  <2>4. Real[path] \in Dirs /\ Real[Real[path]] = Real[path]
    BY <2>3, ProjectScopeAssumption, DirsAreSeqs, IsOnItsWay DEF Upward
  <2>5. Real[a] = Real[path]
    BY <2>2, <2>4
  <2>6. PathInside(a, path)
    BY <2>4, <2>5, IsOnItsWay DEF PathInside
  <2>7. QED
    BY <2>1, <2>2, <2>3, <2>6
<1>6. ASSUME i # NoProject, ProjectAbove(rows, d) = NoProject
      PROVE  \E path \in rows[i].path, a \in Dirs : a \in Upward(d) /\ PathInside(a, path)
  <2>1. PICK a \in Upward(Real[d]) : i \in ProjectsAt(rows, a)
    BY <1>1, <1>2, <1>6, AboveIsThere
  <2>2. PICK path \in rows[i].path : path = a \/ Real[path] = a
    BY <2>1 DEF ProjectsAt
  <2>3. Real[path] = a /\ a \in Dirs
    BY <1>1, <2>1, <2>2
  <2>4. Paths!IsPrefix(a, Real[d])
    BY <1>1, <2>1, <2>3, PrefixIsAbove
  <2>5. PathInside(d, path) /\ d \in Upward(d)
    BY <2>3, <2>4, IsOnItsWay DEF PathInside
  <2>6. QED
    BY <2>2, <2>5
<1>7. ASSUME NEW j \in DOMAIN rows, NEW path \in rows[j].path, PathInside(d, path)
      PROVE  i # NoProject
  <2>1. path \in Dirs /\ Real[path] \in Dirs
    BY <1>4, DirsAreSeqs
  <2>2. Real[path] \in Upward(Real[d])
    BY <1>1, <1>7, <2>1, PrefixIsAbove DEF PathInside
  <2>3. j \in ProjectsAt(rows, Real[path])
    BY DEF ProjectsAt
  <2>4. ProjectAbove(rows, Real[d]) # NoProject
    BY <1>1, <2>2, <2>3, AboveIsThere
  <2>5. QED
    BY <1>2, <2>4
<1>8. QED
  BY <1>3, <1>5, <1>6, <1>7

\* A marker that names a project is one that may speak for it.
LEMMA MarkedIsMeant ==
  ASSUME NEW rows \in Seq(ProjectRows), NEW found
  PROVE  /\ MarkedProject(rows, found) \in {NoProject} \union DOMAIN rows
         /\ MarkedProject(rows, found) # NoProject =>
              /\ \E m \in found : m.name = rows[MarkedProject(rows, found)].name
              /\ \A m \in found : Trusted(rows[MarkedProject(rows, found)], m.in)
<1> DEFINE ids == {ProjectNamed(rows, m.name) : m \in found} \ {NoProject}
           ok == {i \in ids : \A m \in found : Trusted(rows[i], m.in)}
           i == MarkedProject(rows, found)
<1>1. i = IF ok = {} THEN NoProject ELSE CHOOSE j \in ok : TRUE
  BY DEF MarkedProject
<1>2. i # NoProject => i \in ok
  <2> HIDE DEF ok
  <2>1. QED
    BY <1>1
<1>3. \A m \in found : ProjectNamed(rows, m.name) # NoProject =>
        /\ ProjectNamed(rows, m.name) \in DOMAIN rows
        /\ rows[ProjectNamed(rows, m.name)].name = m.name
  BY DEF ProjectNamed
<1>4. QED
  BY <1>2, <1>3

LEMMA FoundIsAbove ==
  ASSUME NEW says \in [Dirs -> {NoName} \union Names], NEW d \in Dirs
  PROVE  /\ FindMarker(says, d) \in SUBSET [name : Names, in : Dirs]
         /\ \A f \in FindMarker(says, d) : f.in \in Upward(d)
<1>1. \A a \in Nearest(d, {x \in Dirs : says[x] # NoName}) : a \in Upward(d) /\ a \in Dirs /\ says[a] \in Names
  BY NearestIsAbove
<1>2. \A a \in Nearest(d, {x \in Dirs : says[x] # NoName}) :
        /\ [name |-> says[a], in |-> a] \in [name : Names, in : Dirs]
        /\ [name |-> says[a], in |-> a].in \in Upward(d)
  BY <1>1
<1>3. QED
  BY <1>2 DEF FindMarker

\* Where a marker stands it is the nearest, and speaks for the project it names.
LEMMA MarkerSpeaks ==
  ASSUME NEW rows \in Seq(ProjectRows), \A i, j \in DOMAIN rows : rows[i].name = rows[j].name => i = j,
         NEW says \in [Dirs -> {NoName} \union Names], NEW d \in Dirs, NEW i \in DOMAIN rows,
         says[d] = rows[i].name, MayMark(rows[i], d)
  PROVE  ResolvedProject(rows, says, d) = i
<1> DEFINE S == {x \in Dirs : says[x] # NoName}
           f == [name |-> rows[i].name, in |-> d]
<1>1. rows[i].name \in Names /\ d \in S /\ i # NoProject
  <2>1. rows[i] \in ProjectRows /\ i # 0
    OBVIOUS
  <2>2. rows[i].name \in Names /\ rows[i].name # NoName
    BY <2>1, TaskBoardAssumption DEF ProjectRows
  <2>3. QED
    BY <2>1, <2>2 DEF NoProject
<1>2. Nearest(d, S) = {d}
  <2>1. d \in Upward(d) \intersect S
    BY <1>1, IsOnItsWay
  <2>2. \A a \in Upward(d) : Len(a) <= Len(d) /\ (Len(a) >= Len(d) => a = d)
    BY AboveIsShorter
  <2>3. Len(d) \in Nat /\ Len(d) <= Len(d)
    BY DirsAreSeqs
  <2>4. \A a \in Nearest(d, S) : a \in Upward(d) /\ Len(d) <= Len(a)
    BY <2>1 DEF Nearest
  <2>5. \A a \in Nearest(d, S) : a = d
    BY <2>2, <2>3, <2>4, AboveIsShorter
  <2>6. d \in Nearest(d, S)
    BY <2>1, <2>2 DEF Nearest
  <2>7. QED
    BY <2>5, <2>6
<1>3. FindMarker(says, d) = {f}
  BY <1>2 DEF FindMarker
<1>4. ProjectNamed(rows, f.name) = i
  <2>1. \A j \in DOMAIN rows : rows[j].name = f.name <=> j = i
    OBVIOUS
  <2>2. QED
    BY <2>1 DEF ProjectNamed
<1>5. Trusted(rows[i], f.in)
  BY DEF Trusted, MayMark
<1>6. MarkedProject(rows, {f}) = i
  <2> HIDE DEF f
  <2>1. {ProjectNamed(rows, m.name) : m \in {f}} \ {NoProject} = {i}
    BY <1>1, <1>4
  <2>2. {j \in {i} : \A m \in {f} : Trusted(rows[j], m.in)} = {i}
    BY <1>5
  <2>3. QED
    BY <2>1, <2>2 DEF MarkedProject
<1>7. QED
  BY <1>1, <1>3, <1>6 DEF ResolvedProject

-----------------------------------------------------------------------------
(* Steps that change only what their process remembers.                    *)

LEMMA UsedIs ==
  ASSUME Typed
  PROVE  used.levels \subseteq Autonomies /\ used.dirs \subseteq Dirs /\ used.statuses \subseteq TaskStatuses
BY TaskBoardAssumption DEF Typed

LEMMA ProjectsAre ==
  ASSUME Typed
  PROVE  /\ projects \in Seq(ProjectRows) /\ Projects = 1 .. Len(projects) /\ Len(projects) \in Nat
         /\ Projects \subseteq Nat /\ NoProject \notin Projects
         /\ \A i \in Projects : projects[i] \in ProjectRows /\ projects[i].path \subseteq Dirs
<1>1. /\ projects \in Seq(ProjectRows) /\ Projects = 1 .. Len(projects) /\ Len(projects) \in Nat
      /\ \A i \in Projects : projects[i] \in ProjectRows
  BY DEF Typed, TablesTyped, Projects
<1>2. \A i \in Projects : projects[i].path \subseteq Dirs
  BY <1>1 DEF ProjectRows
<1>3. Projects \subseteq Nat /\ NoProject \notin Projects
  BY <1>1 DEF NoProject
<1>4. QED
  BY <1>1, <1>2, <1>3

LEMMA SetIsTyped ==
  ASSUME NEW D \in SUBSET Fields, NEW f \in [D -> Values \union {""}]
  PROVE  f \in Settings
BY DEF Settings

LEMMA AddMemories ==
  ASSUME NEW asked \in {""} \union Autonomies
  PROVE  LET new == [Idle EXCEPT !.set = [f \in {"autonomy"} |-> asked]] IN
         /\ \A i \in Nat : LET m == [new EXCEPT !.project = i] IN
              /\ m \in Memories /\ m.task = 0 /\ m.project = i /\ m.at = {} /\ m.found = {}
              /\ m.set = [f \in {"autonomy"} |-> asked]
         /\ \A d \in Dirs : LET m == [new EXCEPT !.at = {d}] IN
              /\ m \in Memories /\ m.task = 0 /\ m.project = NoProject /\ m.at = {d} /\ m.found = {}
              /\ m.set = [f \in {"autonomy"} |-> asked]
<1> DEFINE set == [f \in {"autonomy"} |-> asked]
           new == [Idle EXCEPT !.set = set]
<1>1. set \in Settings
  <2>1. asked \in Values \union {""} /\ {"autonomy"} \in SUBSET Fields
    BY DEF Values, Fields
  <2>2. QED
    BY <2>1, SetIsTyped
<1> HIDE DEF set
<1>2. new \in Memories /\ new.task = 0 /\ new.project = 0 /\ new.at = {} /\ new.found = {} /\ new.set = set
  BY <1>1, IdleIsTyped DEF Idle, Memories, NoProject
<1> HIDE DEF new
<1>3. \A i \in Nat : LET m == [new EXCEPT !.project = i] IN
        /\ m \in Memories /\ m.task = 0 /\ m.project = i /\ m.at = {} /\ m.found = {} /\ m.set = set
  BY <1>2 DEF Memories
<1>4. \A d \in Dirs : LET m == [new EXCEPT !.at = {d}] IN
        /\ m \in Memories /\ m.task = 0 /\ m.project = NoProject /\ m.at = {d} /\ m.found = {} /\ m.set = set
  BY <1>2 DEF Memories, NoProject
<1>5. QED
  BY <1>3, <1>4 DEF new, set

\* A step that begins a command.
LEMMA BeginStep ==
  ASSUME BInv, NEW p \in Procs, NEW call, NEW to \in Points, to # "idle", NEW m \in Memories,
         Start(p, call, to, m), UNCHANGED <<tables, events, blind>>, Remembered(p, to, Begun(m))
  PROVE  BInv'
<1>1. Moves(p, to, Begun(m)) /\ used' = used /\ calls' \in Nat
  BY StartMoves DEF BInv
<1>2. Begun(m) \in Memories
  BY BegunIsTyped DEF BInv
<1>3. QED
  BY <1>1, <1>2, OwnStep

LEMMA StartAddKeeps ==
  ASSUME BInv, NEW p \in Procs, StartAdd(p)
  PROVE  BInv'
<1>1. PICK asked \in {""} \union used.levels :
        LET new == [Idle EXCEPT !.set = [f \in {"autonomy"} |-> asked]] IN
        \/ \E i \in {NoProject} \union Projects :
             Start(p, "add", "insert", [new EXCEPT !.project = i])
        \/ \E d \in used.dirs : Start(p, "add", "marker", [new EXCEPT !.at = {d}])
  BY DEF StartAdd
<1> DEFINE set == [f \in {"autonomy"} |-> asked]
           new == [Idle EXCEPT !.set = set]
<1>2. UNCHANGED <<tables, events, blind>> /\ Typed /\ asked \in {""} \union Autonomies
  BY UsedIs DEF StartAdd, BInv
<1>3. "autonomy" \in DOMAIN set /\ set["autonomy"] \in {""} \union Autonomies
  BY <1>2
<1>4. "insert" \in Points /\ "marker" \in Points /\ "insert" # "idle" /\ "marker" # "idle"
  BY DEF Points
<1>5. CASE \E i \in {NoProject} \union Projects : Start(p, "add", "insert", [new EXCEPT !.project = i])
  <2>1. PICK i \in {NoProject} \union Projects : Start(p, "add", "insert", [new EXCEPT !.project = i])
    BY <1>5
  <2> DEFINE m == [new EXCEPT !.project = i]
  <2>2. i \in Nat
    <3>1. Projects \subseteq Nat /\ NoProject \in Nat
      BY <1>2, ProjectsAre DEF NoProject
    <3>2. i \in {NoProject} \union Projects
      BY <2>1
    <3>3. QED
      BY <3>1, <3>2
  <2>3. m \in Memories /\ m.task = 0 /\ m.project = i /\ m.at = {} /\ m.found = {} /\ m.set = set
    BY <1>2, <2>2, AddMemories
  <2> HIDE DEF m, set
  <2>4. AddingHolds(Begun(m)) /\ Meant(Begun(m))
    BY <1>2, <1>3, <2>3, BegunIsTyped DEF AddingHolds, Located, Meant
  <2>5. Remembered(p, "insert", Begun(m))
    BY <1>2, <2>3, <2>4, BegunRemembers
  <2>6. Start(p, "add", "insert", m)
    BY <2>1 DEF m, set
  <2>7. QED
    BY <1>2, <1>4, <2>3, <2>5, <2>6, BeginStep
<1>6. CASE \E d \in used.dirs : Start(p, "add", "marker", [new EXCEPT !.at = {d}])
  <2>1. PICK d \in used.dirs : Start(p, "add", "marker", [new EXCEPT !.at = {d}])
    BY <1>6
  <2> DEFINE m == [new EXCEPT !.at = {d}]
  <2>2. d \in Dirs
    BY <1>2, UsedIs
  <2>3. m \in Memories /\ m.task = 0 /\ m.project = NoProject /\ m.at = {d} /\ m.found = {} /\ m.set = set
    BY <1>2, <2>2, AddMemories
  <2> HIDE DEF m, set
  <2>4. AddingHolds(Begun(m))
    <3>1. /\ Begun(m).project = NoProject /\ Begun(m).at = {d} /\ Begun(m).found = {}
          /\ Begun(m).set = set
      BY <1>2, <2>3, BegunIsTyped
    <3>2. QED
      BY <1>3, <3>1 DEF AddingHolds, Located
  <2>5. Remembered(p, "marker", Begun(m))
    BY <1>2, <2>3, <2>4, BegunRemembers
  <2>6. Start(p, "add", "marker", m)
    BY <2>1 DEF m, set
  <2>7. QED
    BY <1>2, <1>4, <2>3, <2>5, <2>6, BeginStep
<1>7. QED
  BY <1>1, <1>5, <1>6

\* A step that goes on with a command.
LEMMA GoOnStep ==
  ASSUME BInv, NEW p \in Procs, NEW to \in Points, NEW m \in Memories,
         GoOn(p, to, m), UNCHANGED <<tables, events, blind>>, Remembered(p, to, m)
  PROVE  BInv'
<1>1. Moves(p, to, m) /\ used' = used /\ calls' \in Nat
  BY GoOnMoves DEF BInv, Typed
<1>2. QED
  BY <1>1, OwnStep

LEMMA ReadMarkerKeeps ==
  ASSUME BInv, NEW p \in Procs, ReadMarker(p)
  PROVE  BInv'
<1>1. /\ UNCHANGED <<tables, events, blind>> /\ Remembered(p, "marker", mem[p]) /\ mem[p] \in Memories
      /\ "named" \in Points
  BY ItsMemory DEF ReadMarker, Points
<1>2. PICK d \in mem[p].at : GoOn(p, "named", [mem[p] EXCEPT !.found = FindMarker(markers, d)])
  BY DEF ReadMarker
<1>3. PICK found : found = FindMarker(markers, d)
  OBVIOUS
<1> DEFINE m == [mem[p] EXCEPT !.found = found]
<1>4. /\ d \in Dirs /\ found \in SUBSET [name : Names, in : Dirs]
      /\ \A f \in found : f.in \in Upward(d)
  BY <1>1, <1>3, FoundIsAbove DEF Memories, BInv, Typed, TablesTyped
<1>5. /\ m \in Memories /\ m.found = found /\ m.task = mem[p].task /\ m.since = mem[p].since
      /\ m.known = mem[p].known /\ m.project = mem[p].project /\ m.set = mem[p].set
      /\ m.at = mem[p].at
  BY <1>1, <1>4 DEF Memories
<1> HIDE DEF m
<1>6. AddingHolds(m)
  BY <1>1, <1>4, <1>5 DEF Remembered, AddingHolds, Located
<1>7. Remembered(p, "named", m)
  BY <1>1, <1>5, <1>6 DEF Remembered
<1>8. GoOn(p, "named", m)
  BY <1>2, <1>3 DEF m
<1>9. QED
  BY <1>1, <1>5, <1>7, <1>8, GoOnStep

LEMMA ReadNamedKeeps ==
  ASSUME BInv, NEW p \in Procs, ReadNamed(p)
  PROVE  BInv'
<1>1. /\ UNCHANGED <<tables, events, blind>> /\ Remembered(p, "named", mem[p]) /\ mem[p] \in Memories
      /\ "listed" \in Points /\ "insert" \in Points
  BY ItsMemory DEF ReadNamed, Points
<1>2. PICK i : i = MarkedProject(projects, mem[p].found)
  OBVIOUS
<1>3. PICK to : to = IF i = NoProject THEN "listed" ELSE "insert"
  OBVIOUS
<1> DEFINE m == [mem[p] EXCEPT !.project = i]
<1>4. GoOn(p, to, m)
  BY <1>2, <1>3 DEF ReadNamed
<1>5. /\ i \in {NoProject} \union Projects
      /\ i # NoProject => /\ \E f \in mem[p].found : f.name = projects[i].name
                          /\ \A f \in mem[p].found : Trusted(projects[i], f.in)
  BY <1>2, MarkedIsMeant, ProjectsAre DEF BInv, Projects
<1>6. i \in Nat
  BY <1>5, ProjectsAre DEF BInv, NoProject
<1>7. /\ m \in Memories /\ m.found = mem[p].found /\ m.task = mem[p].task /\ m.since = mem[p].since
      /\ m.known = mem[p].known /\ m.project = i /\ m.set = mem[p].set /\ m.at = mem[p].at
  BY <1>1, <1>6 DEF Memories
<1> HIDE DEF m
<1>8. AddingHolds(m)
  BY <1>1, <1>5, <1>7 DEF Remembered, AddingHolds, Located
<1>9. i # NoProject => Meant(m)
  <2> SUFFICES ASSUME i # NoProject PROVE Meant(m)
    OBVIOUS
  <2>1. PICK f \in m.found : f.name = projects[i].name /\ Trusted(projects[i], f.in)
    BY <1>5, <1>7
  <2>2. f.in \in Dirs /\ \A d \in m.at : f.in \in Upward(d)
    BY <1>7, <1>8 DEF AddingHolds, Located, Memories
  <2>3. projects[i].path = {} \/ \E path \in projects[i].path : PathInside(f.in, path)
    BY <2>1 DEF Trusted
  <2>4. QED
    BY <1>7, <2>1, <2>2, <2>3 DEF Meant
<1>10. Remembered(p, to, m)
  BY <1>1, <1>3, <1>7, <1>8, <1>9 DEF Remembered
<1>11. QED
  BY <1>1, <1>3, <1>4, <1>7, <1>10, GoOnStep

LEMMA ReadListedKeeps ==
  ASSUME BInv, NEW p \in Procs, ReadListed(p)
  PROVE  BInv'
<1>1. /\ UNCHANGED <<tables, events, blind>> /\ Remembered(p, "listed", mem[p]) /\ mem[p] \in Memories
      /\ "insert" \in Points
  BY ItsMemory DEF ReadListed, Points
<1>2. PICK d \in mem[p].at : GoOn(p, "insert", [mem[p] EXCEPT !.project = ListedProject(projects, d)])
  BY DEF ReadListed
<1>3. PICK i : i = ListedProject(projects, d)
  OBVIOUS
<1> DEFINE m == [mem[p] EXCEPT !.project = i]
<1>4. d \in Dirs
  BY <1>1 DEF Memories
<1>5. /\ i \in {NoProject} \union Projects
      /\ i # NoProject => \E path \in projects[i].path, a \in Dirs :
                            a \in Upward(d) /\ PathInside(a, path)
      /\ (\E j \in Projects : \E path \in projects[j].path : PathInside(d, path)) => i # NoProject
  BY <1>3, <1>4, ListedIsMeant, ProjectsAre DEF BInv, Projects
<1>6. i \in Nat
  BY <1>5, ProjectsAre DEF BInv, NoProject
<1>7. /\ m \in Memories /\ m.found = mem[p].found /\ m.task = mem[p].task /\ m.since = mem[p].since
      /\ m.known = mem[p].known /\ m.project = i /\ m.set = mem[p].set /\ m.at = mem[p].at
  BY <1>1, <1>6 DEF Memories
<1> HIDE DEF m
<1>8. AddingHolds(m)
  BY <1>1, <1>5, <1>7 DEF Remembered, AddingHolds, Located
<1>9. Meant(m)
  <2>1. \A e \in m.at : e = d
    BY <1>7, <1>8 DEF AddingHolds, Located
  <2>2. m.known \subseteq Projects
    BY <1>1, <1>7 DEF Remembered
  <2>3. QED
    BY <1>5, <1>7, <2>1, <2>2 DEF Meant
<1>10. Remembered(p, "insert", m)
  BY <1>1, <1>7, <1>8, <1>9 DEF Remembered
<1>11. GoOn(p, "insert", m)
  BY <1>2, <1>3 DEF m
<1>12. QED
  BY <1>1, <1>7, <1>10, <1>11, GoOnStep

LEMMA CrashKeeps ==
  ASSUME BInv, NEW p \in Procs, Crash(p)
  PROVE  BInv'
<1>1. Moves(p, "idle", Idle) /\ used' = used /\ calls' \in Nat
  BY ReturnMoves DEF Crash, BInv, Typed
<1>2. Remembered(p, "idle", Idle) /\ "idle" \in Points
  BY IdleRemembers DEF BInv, Typed, Points
<1>3. UNCHANGED <<tables, events, blind>>
  BY DEF Crash
<1>4. QED
  BY <1>1, <1>2, <1>3, IdleIsTyped, OwnStep

LEMMA WriteMemory ==
  ASSUME NEW i \in Nat, NEW at \in SUBSET Dirs
  PROVE  LET m == [Idle EXCEPT !.project = i, !.at = at] IN
         m \in Memories /\ m.task = 0 /\ m.project = i /\ m.at = at
BY IdleIsTyped DEF Idle, Memories

LEMMA StartUseKeeps ==
  ASSUME BInv, NEW p \in Procs, StartUse(p)
  PROVE  BInv'
<1>1. PICK i \in Projects, d \in used.dirs :
        /\ MayMark(projects[i], d)
        /\ Start(p, "use", "write", [Idle EXCEPT !.project = i, !.at = {d}])
  BY DEF StartUse
<1>2. UNCHANGED <<tables, events, blind>> /\ Typed /\ "write" \in Points /\ "write" # "idle"
  BY DEF StartUse, BInv, Points
<1>3. i \in Projects /\ i \in Nat /\ {d} \in SUBSET Dirs
  BY <1>1, <1>2, UsedIs, ProjectsAre
<1> DEFINE m == [Idle EXCEPT !.project = i, !.at = {d}]
<1>4. m \in Memories /\ m.task = 0 /\ m.project = i /\ m.at = {d}
  BY <1>3, WriteMemory
<1>5. Start(p, "use", "write", m)
  BY <1>1
<1> HIDE DEF m
<1>6. Begun(m).project = i /\ Begun(m).at = {d}
  BY <1>2, <1>4, BegunIsTyped
<1>7. WritingHolds(Begun(m))
  BY <1>1, <1>3, <1>6 DEF WritingHolds
<1>8. Remembered(p, "write", Begun(m))
  BY <1>2, <1>4, <1>7, BegunRemembers
<1>9. QED
  BY <1>2, <1>4, <1>5, <1>8, BeginStep

LEMMA IdsAre ==
  ASSUME TablesTyped
  PROVE  /\ Ids = 1 .. Len(tasks) /\ Len(tasks) \in Nat /\ Ids \in SUBSET Nat /\ IsFiniteSet(Ids)
         /\ \A t \in Ids : tasks[t] \in TaskRows(Projects)
<1>1. Ids = 1 .. Len(tasks) /\ Len(tasks) \in Nat /\ \A t \in Ids : tasks[t] \in TaskRows(Projects)
  BY DEF TablesTyped, Ids
<1>2. IsFiniteSet(1 .. Len(tasks))
  BY <1>1, FS_Interval
<1>3. 1 .. Len(tasks) \in SUBSET Nat
  BY <1>1
<1>4. QED
  BY <1>1, <1>2, <1>3

LEMMA UpdateMemory ==
  ASSUME NEW t \in Nat, NEW set \in Settings
  PROVE  LET m == [Idle EXCEPT !.task = t, !.set = set] IN
         m \in Memories /\ m.task = t /\ m.set = set
BY IdleIsTyped DEF Idle, Memories

\* Nothing an update asks for is out of its field's values.
LEMMA UpdatesAre ==
  ASSUME Typed, NEW asked \in Updates
  PROVE  /\ DOMAIN asked = Fields
         /\ asked["status"] \in {""} \union TaskStatuses
         /\ asked["autonomy"] \in {""} \union Autonomies
         /\ asked["milestone"] \in {""} \union Milestones
BY UsedIs DEF Updates, Fields

LEMMA StartUpdateKeeps ==
  ASSUME BInv, NEW p \in Procs, StartUpdate(p)
  PROVE  BInv'
<1>1. PICK t \in Ids, asked \in Updates :
        LET from == tasks[t].autonomy
            set  == [f \in {g \in DOMAIN asked : asked[g] # "" /\ ~(g = "autonomy" /\ asked[g] = from)}
                       |-> asked[f]]
        IN  /\ Loosens(from, set) => p \in Deciders
            /\ Start(p, "update", "update", [Idle EXCEPT !.task = t, !.set = set])
  BY DEF StartUpdate
<1> DEFINE from == tasks[t].autonomy
           D    == {g \in DOMAIN asked : asked[g] # "" /\ ~(g = "autonomy" /\ asked[g] = from)}
           set  == [f \in D |-> asked[f]]
           m    == [Idle EXCEPT !.task = t, !.set = set]
<1>2. /\ UNCHANGED <<tables, events, blind>> /\ Typed /\ TablesTyped /\ BoardMatchesTrail
      /\ "update" \in Points /\ "update" # "idle"
  BY DEF StartUpdate, BInv, Typed, Points
<1>3. t \in Ids /\ t \in Nat /\ from \in Autonomies /\ from = AutonomyAt(t, Len(events))
  <2>1. t \in Ids /\ t \in Nat /\ tasks[t] \in TaskRows(Projects)
    BY <1>1, <1>2, IdsAre
  <2>2. from = AutonomyAt(t, Len(events))
    BY <1>2, <2>1 DEF BoardMatchesTrail
  <2>3. QED
    BY <2>1, <2>2 DEF TaskRows
<1>4. /\ D \subseteq Fields /\ \A g \in D : asked[g] # "" /\ (g = "autonomy" => asked[g] # from)
      /\ ("status" \in D => asked["status"] \in TaskStatuses)
      /\ ("autonomy" \in D => asked["autonomy"] \in Autonomies)
      /\ ("milestone" \in D => asked["milestone"] \in Milestones)
  <2>1. /\ DOMAIN asked = Fields
        /\ asked["status"] \in {""} \union TaskStatuses
        /\ asked["autonomy"] \in {""} \union Autonomies
        /\ asked["milestone"] \in {""} \union Milestones
    BY <1>1, <1>2, UpdatesAre
  <2>2. \A g \in D : g \in Fields /\ asked[g] # "" /\ (g = "autonomy" => asked[g] # from)
    BY <2>1
  <2> HIDE DEF D
  <2>3. QED
    BY <2>1, <2>2
<1>5. (Loosens(from, set) => p \in Deciders) /\ Start(p, "update", "update", m)
  BY <1>1
<1>6. DOMAIN set = D /\ \A f \in D : set[f] = asked[f]
  OBVIOUS
<1>7. set \in Settings
  <2> HIDE DEF D
  <2>1. ASSUME NEW f \in D PROVE asked[f] \in Values \union {""}
    <3>1. f \in {"status", "autonomy", "milestone"}
      BY <1>4 DEF Fields
    <3>2. CASE f = "status"
      BY <1>4, <3>2 DEF Values
    <3>3. CASE f = "autonomy"
      BY <1>4, <3>3 DEF Values
    <3>4. CASE f = "milestone"
      BY <1>4, <3>4 DEF Values
    <3>5. QED
      BY <3>1, <3>2, <3>3, <3>4
  <2>2. set \in [D -> Values \union {""}] /\ D \in SUBSET Fields
    BY <1>4, <2>1
  <2> HIDE DEF set
  <2>3. QED
    BY <2>2, SetIsTyped
<1> HIDE DEF set, D
<1>8. m \in Memories /\ m.task = t /\ m.set = set
  BY <1>3, <1>7, UpdateMemory
<1> HIDE DEF m
<1>9. Begun(m).task = t /\ Begun(m).set = set /\ Begun(m).since = Len(events)
  BY <1>2, <1>8, BegunIsTyped
<1>10. ("autonomy" \in DOMAIN set /\ p \notin Deciders) =>
          /\ set["autonomy"] # "auto"
          /\ AutonomyRank[set["autonomy"]] <= AutonomyRank[AutonomyAt(t, Len(events))]
  <2> SUFFICES ASSUME "autonomy" \in DOMAIN set, p \notin Deciders
               PROVE  /\ set["autonomy"] # "auto"
                      /\ AutonomyRank[set["autonomy"]] <= AutonomyRank[from]
    BY <1>3
  <2>1. /\ set["autonomy"] \in Autonomies /\ set["autonomy"] # from
        /\ ~(AutonomyRank[set["autonomy"]] > AutonomyRank[from])
    BY <1>4, <1>5, <1>6 DEF Loosens
  <2>2. \A a, b \in Autonomies : ~(AutonomyRank[a] > AutonomyRank[b]) =>
          AutonomyRank[a] <= AutonomyRank[b] /\ (a = "auto" => b = "auto")
    BY DEF Autonomies, AutonomyRank
  <2>3. QED
    BY <1>3, <2>1, <2>2
<1>11. UpdatingHolds(p, Begun(m))
  BY <1>3, <1>4, <1>6, <1>9, <1>10 DEF UpdatingHolds
<1>12. Remembered(p, "update", Begun(m))
  BY <1>2, <1>3, <1>8, <1>11, BegunRemembers
<1>13. QED
  BY <1>2, <1>5, <1>8, <1>12, BeginStep

LEMMA ValidIsOrder ==
  ASSUME TablesTyped, NEW l \in LinkRows(Ids), ValidLink(links, l, Ids)
  PROVE  Orders(links, l)
<1>1. /\ Ids \in SUBSET Nat /\ IsFiniteSet(Ids) /\ links \in SUBSET LinkRows(Ids)
      /\ l.task \in Ids /\ l.related \in Ids
  BY IdsAre DEF TablesTyped, LinkRows
<1>2. WouldCycle(links, l.related, l.task, Ids) <=> Leads(links, l.task, l.related)
  BY <1>1, WaitingIsLedTo DEF WouldCycle
<1>3. WouldCycle(links, l.task, l.related, Ids) <=> Leads(links, l.related, l.task)
  BY <1>1, WaitingIsLedTo DEF WouldCycle
<1>4. QED
  BY <1>2, <1>3 DEF ValidLink, Orders

LEMMA LinkMemory ==
  ASSUME NEW l \in LinkRows(Nat), NEW seen \in SUBSET LinkRows(Nat)
  PROVE  LET m == [Idle EXCEPT !.link = <<l>>, !.seen = seen] IN
         m \in Memories /\ m.task = 0 /\ m.link = <<l>> /\ m.seen = seen
<1>1. <<l>> \in Seq(LinkRows(Nat))
  OBVIOUS
<1>2. QED
  BY <1>1, IdleIsTyped DEF Idle, Memories

LEMMA StartLinkKeeps ==
  ASSUME BInv, NEW p \in Procs, StartLink(p)
  PROVE  BInv'
<1>1. PICK l \in LinkRows(Ids) :
        /\ ValidLink(links, l, Ids)
        /\ Start(p, "link", "link", [Idle EXCEPT !.link = <<l>>, !.seen = links])
  BY DEF StartLink
<1>2. /\ UNCHANGED <<tables, events, blind>> /\ Typed /\ TablesTyped
      /\ "link" \in Points /\ "link" # "idle"
  BY DEF StartLink, BInv, Typed, Points
<1>3. /\ l \in LinkRows(Ids) /\ l \in LinkRows(Nat) /\ links \subseteq LinkRows(Ids)
      /\ links \in SUBSET LinkRows(Nat)
  <2>1. LinkRows(Ids) \subseteq LinkRows(Nat) /\ links \subseteq LinkRows(Ids)
    BY <1>2, IdsAre DEF LinkRows, TablesTyped
  <2>2. QED
    BY <1>1, <2>1
<1> DEFINE m == [Idle EXCEPT !.link = <<l>>, !.seen = links]
<1>4. m \in Memories /\ m.task = 0 /\ m.link = <<l>> /\ m.seen = links
  BY <1>3, LinkMemory
<1>5. Start(p, "link", "link", m)
  BY <1>1
<1> HIDE DEF m
<1>6. Begun(m).link = <<l>> /\ Begun(m).seen = links
  BY <1>2, <1>4, BegunIsTyped
<1>7. Orders(links, l)
  BY <1>1, <1>2, ValidIsOrder
<1>8. LinkingHolds(Begun(m))
  BY <1>3, <1>6, <1>7 DEF LinkingHolds
<1>9. Remembered(p, "link", Begun(m))
  BY <1>2, <1>4, <1>8, BegunRemembers
<1>10. QED
  BY <1>2, <1>4, <1>5, <1>9, BeginStep

\* The newest eval of a project is one of it, and none is newer.
LEMMA LatestIsNewest ==
  ASSUME TablesTyped, NEW project, LatestEvalIn(project) # NoEval
  PROVE  /\ LatestEvalIn(project) \in DOMAIN evals
         /\ EvalProject(evals[LatestEvalIn(project)]) = project
         /\ \A j \in DOMAIN evals : EvalProject(evals[j]) = project => j <= LatestEvalIn(project)
<1> DEFINE own == {i \in DOMAIN evals : EvalProject(evals[i]) = project}
<1>1. own \in SUBSET (1 .. Len(evals)) /\ Len(evals) \in Nat
  BY DEF TablesTyped
<1>2. LatestEvalIn(project) = IF own = {} THEN NoEval ELSE CHOOSE i \in own : \A j \in own : j <= i
  BY DEF LatestEvalIn
<1>3. LatestEvalIn(project) \in own /\ \A j \in own : j <= LatestEvalIn(project)
  <2> HIDE DEF own
  <2>1. own # {}
    BY <1>2
  <2>2. \E i \in own : \A j \in own : j <= i
    BY <1>1, <2>1, HasLast
  <2>3. QED
    BY <1>2, <2>1, <2>2
<1>4. QED
  BY <1>3

Promotion(t, set, e) == [Idle EXCEPT !.task = t, !.set = set, !.cited = e]

LEMMA PromoteMemory ==
  ASSUME NEW t \in Nat, NEW set \in Settings, NEW e \in Nat
  PROVE  /\ Promotion(t, set, e) \in Memories /\ Promotion(t, set, e).task = t
         /\ Promotion(t, set, e).set = set /\ Promotion(t, set, e).cited = e
BY IdleIsTyped DEF Promotion, Idle, Memories

LEMMA StartPromoteKeeps ==
  ASSUME BInv, NEW p \in Procs, StartPromote(p)
  PROVE  BInv'
<1>1. PICK t \in Ids, to \in used.levels, threshold \in Rates \union {DefaultThreshold} :
        LET e == LatestEvalIn(tasks[t].project) IN
        /\ threshold > 0
        /\ e # NoEval
        /\ p \in Agents => threshold >= DefaultThreshold /\ evals[e].by \notin Agents
        /\ evals[e].rate >= threshold
        /\ Start(p, "promote", "promote",
                 [Idle EXCEPT !.task = t, !.set = [f \in {"autonomy"} |-> to], !.cited = e])
  BY DEF StartPromote
<1>2. /\ UNCHANGED <<tables, events, blind>> /\ Typed /\ TablesTyped
      /\ "promote" \in Points /\ "promote" # "idle"
  BY DEF StartPromote, BInv, Typed, Points
<1>3. PICK e : e = LatestEvalIn(tasks[t].project)
  OBVIOUS
<1> DEFINE set == [f \in {"autonomy"} |-> to]
           m   == Promotion(t, set, e)
<1>4. /\ e # NoEval /\ evals[e].rate >= threshold /\ Start(p, "promote", "promote", m)
      /\ p \in Agents => threshold >= DefaultThreshold /\ evals[e].by \notin Agents
  BY <1>1, <1>3 DEF Promotion
<1>5. /\ e \in DOMAIN evals /\ EvalProject(evals[e]) = tasks[t].project
      /\ \A j \in DOMAIN evals : EvalProject(evals[j]) = tasks[t].project => j <= e
  BY <1>2, <1>3, <1>4, LatestIsNewest
<1>6. /\ t \in Ids /\ t \in Nat /\ to \in Autonomies /\ threshold \in Nat /\ e \in Nat
      /\ evals[e].rate \in Nat
  <2>1. t \in Ids /\ t \in Nat /\ to \in Autonomies
    BY <1>1, <1>2, IdsAre, UsedIs
  <2>2. evals[e] \in EvalRows(Ids, Projects) /\ e \in Nat
    BY <1>2, <1>5 DEF TablesTyped
  <2>3. Rates \subseteq Nat /\ DefaultThreshold \in Nat
    BY TaskBoardAssumption DEF DefaultThreshold
  <2>4. QED
    BY <1>1, <2>1, <2>2, <2>3 DEF EvalRows
<1>7. "autonomy" \in DOMAIN set /\ set["autonomy"] \in Autonomies /\ set \in Settings
  <2>1. to \in Values \union {""} /\ {"autonomy"} \in SUBSET Fields
    BY <1>6 DEF Values, Fields
  <2>2. QED
    BY <1>6, <2>1, SetIsTyped
<1> HIDE DEF set
<1>8. m \in Memories /\ m.task = t /\ m.set = set /\ m.cited = e
  <2>1. t \in Nat /\ e \in Nat /\ set \in Settings
    BY <1>6, <1>7
  <2>2. QED
    BY <2>1, PromoteMemory
<1> HIDE DEF m
<1>9. Begun(m).task = t /\ Begun(m).set = set /\ Begun(m).cited = e /\ Begun(m).since = Len(events)
  BY <1>2, <1>8, BegunIsTyped
<1>10. SpeaksFor(e, t, p, Len(events))
  <2>1. \A i \in DOMAIN evals : ~(i > e /\ EvalProject(evals[i]) = tasks[t].project)
    <3>1. ASSUME NEW i \in DOMAIN evals, i > e, EvalProject(evals[i]) = tasks[t].project PROVE FALSE
      <4>1. i <= e /\ i \in Nat /\ e \in Nat
        BY <1>2, <1>5, <1>6, <3>1 DEF TablesTyped
      <4>2. QED
        BY <3>1, <4>1
    <3>2. QED
      BY <3>1
  <2>2. p \in Agents => evals[e].rate >= DefaultThreshold
    BY <1>4, <1>6 DEF DefaultThreshold
  <2>3. QED
    BY <1>4, <1>5, <1>6, <2>1, <2>2 DEF SpeaksFor
<1>11. PromotingHolds(p, Begun(m))
  BY <1>7, <1>9, <1>10 DEF PromotingHolds
<1>12. Remembered(p, "promote", Begun(m))
  BY <1>2, <1>6, <1>8, <1>11, BegunRemembers
<1>13. QED
  BY <1>2, <1>4, <1>8, <1>12, BeginStep

-----------------------------------------------------------------------------
(* Steps that change the tables, and their events.                         *)

FieldNames == {"status", "autonomy", "milestone", "deferred", "project", "eval", "milestone_status"}

\* The rows are what the trail says of them.
Matches(rows, log) ==
  \A t \in DOMAIN rows :
    /\ rows[t].status = LastSaid(log, t, "status", Len(log), "todo")
    /\ rows[t].autonomy = LastSaid(log, t, "autonomy", Len(log), "hotl")
    /\ rows[t].milestone = LastSaid(log, t, "milestone", Len(log), NoMilestone)
    /\ rows[t].deferred = LastSaid(log, t, "deferred", Len(log), "no")

LEMMA TrailMatches ==
  /\ BoardMatchesTrail <=> Matches(tasks, events)
  /\ BoardMatchesTrail' <=> Matches(tasks', events')
BY ToldIsSaid DEF BoardMatchesTrail, Matches, AutonomyAt, Ids

LEMMA CitedIs ==
  ASSUME Typed, NEW p \in Procs
  PROVE  mem[p].cited \in Nat
<1>1. mem[p] \in Memories
  BY DEF Typed
<1>2. QED
  BY <1>1 DEF Memories

\* One more event gives the field it is about its value, and leaves the others theirs.
LEMMA OneMoreTold ==
  ASSUME TablesTyped, NEW v \in EventRows, events' = Append(events, v), NEW t, NEW field, NEW start
  PROVE  LastSaid(events', t, field, Len(events'), start) =
           IF v.task = t /\ v.field = field THEN v.to
           ELSE LastSaid(events, t, field, Len(events), start)
<1>1. events \in Seq(EventRows) /\ Len(events) \in Nat
  BY DEF TablesTyped
<1>2. /\ Len(events') \in Nat /\ Len(events') = Len(events) + 1
      /\ \A k \in 1 .. Len(events) : events'[k] = events[k]
      /\ events'[Len(events')] = v
  BY <1>1
<1>3. PICK n \in Nat : n = Len(events)
  BY <1>1
<1>4. PICK m \in Nat : m = Len(events')
  BY <1>2
<1>5. PICK log, more : log = events /\ more = events'
  OBVIOUS
<1>6. m = n + 1 /\ (\A k \in 1 .. n : more[k] = log[k]) /\ more[m] = v
  BY <1>2, <1>3, <1>4, <1>5
<1>7. n <= m /\ m \in 1 .. m /\ \A k \in 1 .. m : k <= m /\ (k > n => k = m)
  BY <1>6
<1>8. CASE v.task = t /\ v.field = field
  <2>1. Says(more, m, t, field)
    BY <1>6, <1>8 DEF Says
  <2>2. LastSaid(more, t, field, m, start) = more[m].to
    BY <1>7, <2>1, SaidHere
  <2>3. QED
    BY <1>4, <1>6, <1>8, <1>5, <2>2
<1>9. CASE ~(v.task = t /\ v.field = field)
  <2>1. \A k \in 1 .. m : k > n => ~Says(more, k, t, field)
    BY <1>6, <1>7, <1>9 DEF Says
  <2>2. LastSaid(more, t, field, m, start) = LastSaid(log, t, field, n, start)
    BY <1>6, <1>7, <2>1, SaidBefore
  <2>3. QED
    BY <1>3, <1>4, <1>9, <1>5, <2>2
<1>10. QED
  BY <1>8, <1>9

LEMMA EventsGrow ==
  ASSUME TablesTyped, NEW v \in EventRows, events' = Append(events, v), Ids \subseteq Ids',
         v.task \in {0} \union Ids', v.since <= Len(events)
  PROVE  /\ events' \in Seq(EventRows)
         /\ \A k \in DOMAIN events' : events'[k].task \in {0} \union Ids' /\ events'[k].since < k
         /\ Len(events) <= Len(events') /\ \A k \in DOMAIN events : events'[k] = events[k]
         /\ \A k \in DOMAIN events' \ DOMAIN events : events'[k] = v
<1>1. /\ events \in Seq(EventRows) /\ Len(events) \in Nat /\ DOMAIN events = 1 .. Len(events)
      /\ \A k \in DOMAIN events : events[k].task \in {0} \union Ids /\ events[k].since < k
  BY DEF TablesTyped
<1>2. /\ events' \in Seq(EventRows) /\ Len(events') = Len(events) + 1
      /\ DOMAIN events' = 1 .. (Len(events) + 1)
      /\ \A k \in DOMAIN events : events'[k] = events[k]
      /\ events'[Len(events) + 1] = v
  BY <1>1
<1>3. v.since \in Nat /\ v.since < Len(events) + 1
  <2>1. v.since \in Nat /\ Len(events) \in Nat
    BY <1>1 DEF EventRows
  <2>2. QED
    BY <2>1
<1>4. \A k \in DOMAIN events' : k \in DOMAIN events \/ k = Len(events) + 1
  BY <1>1, <1>2
<1>5. \A k \in DOMAIN events' : events'[k].task \in {0} \union Ids' /\ events'[k].since < k
  BY <1>1, <1>2, <1>3, <1>4
<1>6. Len(events) <= Len(events')
  BY <1>1, <1>2
<1>7. QED
  BY <1>2, <1>4, <1>5, <1>6

LEMMA NoAutonomyGiven ==
  ASSUME NEW k, events'[k].field # "autonomy"
  PROVE  Given(k)'
BY DEF Given

\* Rows are typed in more tasks and projects too.
LEMMA RowsStay ==
  ASSUME NEW P, NEW P2, P \subseteq P2, NEW I, NEW I2, I \subseteq I2
  PROVE  /\ Seq(TaskRows(P)) \subseteq Seq(TaskRows(P2))
         /\ Seq(EvalRows(I, P)) \subseteq Seq(EvalRows(I2, P2))
         /\ LinkRows(I) \subseteq LinkRows(I2)
<1>1. TaskRows(P) \subseteq TaskRows(P2) /\ EvalRows(I, P) \subseteq EvalRows(I2, P2)
      /\ LinkRows(I) \subseteq LinkRows(I2)
  BY DEF TaskRows, EvalRows, LinkRows
<1>2. \A A, B : A \subseteq B => Seq(A) \subseteq Seq(B)
  OBVIOUS
<1>3. QED
  BY <1>1, <1>2

\* An event that tells of none of the fields a task keeps, beside tasks as they were.
LEMMA SilentEvent ==
  ASSUME TablesTyped, BoardMatchesTrail, NEW v \in EventRows, events' = Append(events, v),
         tasks' = tasks, v.task = 0 \/ v.field = "eval"
  PROVE  BoardMatchesTrail'
<1>1. events \in Seq(EventRows) /\ 0 \notin DOMAIN tasks
  BY DEF TablesTyped
<1>2. ASSUME NEW t \in DOMAIN tasks, NEW field \in {"status", "autonomy", "milestone", "deferred"}, NEW start
      PROVE  LastSaid(events', t, field, Len(events'), start) = LastSaid(events, t, field, Len(events), start)
  <2>1. ~(v.task = t /\ v.field = field)
    BY <1>1
  <2>2. QED
    BY <2>1, OneMoreTold
<1>3. QED
  BY <1>2, TrailMatches DEF Matches

LEMMA SameTrail ==
  ASSUME BoardMatchesTrail, events' = events, tasks' = tasks
  PROVE  BoardMatchesTrail'
BY TrailMatches DEF Matches

\* A command that ends as it begins remembers nothing.
LEMMA OneStep ==
  ASSUME BInv, NEW p \in Procs, NEW call, NEW m, Start(p, call, "idle", m),
         TablesTyped', BoardMatchesTrail', InAnOrder', Grown,
         \A k \in DOMAIN events' \ DOMAIN events : Given(k)'
  PROVE  BInv'
<1>1. Moves(p, "idle", Idle) /\ used' = used /\ calls' \in Nat
  BY StartMoves DEF BInv
<1>2. Idle \in Memories /\ "idle" \in Points /\ Remembered(p, "idle", Idle)'
  BY IdleIsTyped, NowIdle DEF Points
<1>3. QED
  BY <1>1, <1>2, TableStep

LEMMA LastStep ==
  ASSUME BInv, NEW p \in Procs, Return(p),
         TablesTyped', BoardMatchesTrail', InAnOrder', Grown,
         \A k \in DOMAIN events' \ DOMAIN events : Given(k)'
  PROVE  BInv'
<1>1. Moves(p, "idle", Idle) /\ used' = used /\ calls' \in Nat
  BY ReturnMoves DEF BInv, Typed
<1>2. Idle \in Memories /\ "idle" \in Points /\ Remembered(p, "idle", Idle)'
  BY IdleIsTyped, NowIdle DEF Points
<1>3. QED
  BY <1>1, <1>2, TableStep

LEMMA WriteMarkerKeeps ==
  ASSUME BInv, NEW p \in Procs, WriteMarker(p)
  PROVE  BInv'
<1>1. /\ Return(p) /\ UNCHANGED <<tasks, links, evals, milestones, projects, events, blind>>
      /\ mem[p] \in Memories /\ Remembered(p, "write", mem[p]) /\ Typed
  BY ItsMemory DEF WriteMarker, BInv
<1>2. PICK d \in mem[p].at : markers' = [markers EXCEPT ![d] = projects[mem[p].project].name]
  BY DEF WriteMarker
<1>3. projects[mem[p].project].name \in Names
  <2>1. projects[mem[p].project] \in ProjectRows
    BY <1>1, ProjectsAre DEF Remembered, WritingHolds
  <2>2. QED
    BY <2>1 DEF ProjectRows
<1>4. markers' \in [Dirs -> {NoName} \union Names]
  BY <1>1, <1>2, <1>3 DEF Typed, TablesTyped
<1>5. TablesTyped'
  BY <1>1, <1>4 DEF Typed, TablesTyped, Ids, Projects
<1>6. BoardMatchesTrail' /\ InAnOrder'
  BY <1>1, SameTrail DEF BInv, InAnOrder
<1>7. Grown
  BY <1>1 DEF Grown, Ids, Projects, Typed, TablesTyped
<1>8. QED
  BY <1>1, <1>5, <1>6, <1>7, LastStep

LEMMA PlaceMarkerKeeps ==
  ASSUME BInv, NEW p \in Procs, PlaceMarker(p)
  PROVE  BInv'
<1>1. /\ Start(p, "mark", "idle", Idle)
      /\ UNCHANGED <<tasks, links, evals, milestones, projects, events, blind>> /\ Typed
  BY DEF PlaceMarker, BInv
<1>2. PICK d \in used.dirs, name \in {NoName} \union Names : markers' = [markers EXCEPT ![d] = name]
  BY DEF PlaceMarker
<1>3. markers' \in [Dirs -> {NoName} \union Names]
  BY <1>1, <1>2 DEF Typed, TablesTyped
<1>4. TablesTyped'
  BY <1>1, <1>3 DEF Typed, TablesTyped, Ids, Projects
<1>5. BoardMatchesTrail' /\ InAnOrder'
  BY <1>1, SameTrail DEF BInv, InAnOrder
<1>6. Grown
  BY <1>1 DEF Grown, Ids, Projects, Typed, TablesTyped
<1>7. QED
  BY <1>1, <1>4, <1>5, <1>6, OneStep

LEMMA AddLinkKeeps ==
  ASSUME BInv, NEW p \in Procs, AddLink(p)
  PROVE  BInv'
<1>1. /\ Return(p) /\ UNCHANGED <<tasks, evals, milestones, events, scopes>>
      /\ links' = links \union {mem[p].link[1]} /\ blind' = (blind \/ links # mem[p].seen)
      /\ mem[p] \in Memories /\ Remembered(p, "link", mem[p]) /\ TablesTyped
  BY ItsMemory DEF AddLink, BInv, Typed
<1>2. mem[p].link[1] \in LinkRows(Ids) /\ Orders(mem[p].seen, mem[p].link[1])
  BY <1>1 DEF Remembered, LinkingHolds
<1>3. TablesTyped'
  BY <1>1, <1>2 DEF TablesTyped, Ids, Projects, scopes
<1>4. InAnOrder'
  <2> SUFFICES ASSUME ~blind' PROVE Acyclic(links')
    BY DEF InAnOrder
  <2>1. ~blind /\ links = mem[p].seen
    BY <1>1
  <2>2. LinkRows(Ids) \subseteq LinkRows(Nat)
    BY <1>1, IdsAre DEF LinkRows
  <2>3. links \in SUBSET LinkRows(Nat) /\ mem[p].link[1] \in LinkRows(Nat)
    BY <1>1, <1>2, <2>2 DEF TablesTyped
  <2>4. Acyclic(links) /\ Orders(links, mem[p].link[1])
    BY <1>2, <2>1 DEF BInv, InAnOrder
  <2>5. QED
    BY <1>1, <2>3, <2>4, GoodLink
<1>5. BoardMatchesTrail'
  BY <1>1, SameTrail DEF BInv
<1>6. Grown
  BY <1>1 DEF Grown, Ids, Projects, TablesTyped, scopes
<1>7. QED
  BY <1>1, <1>3, <1>4, <1>5, <1>6, LastStep

LEMMA DeferTaskKeeps ==
  ASSUME BInv, NEW p \in Procs, DeferTask(p)
  PROVE  BInv'
<1>1. PICK t \in Ids, deferred \in {"yes", "no"} :
        /\ tasks' = [tasks EXCEPT ![t].deferred = deferred]
        /\ events' = Append(events, Told(t, "deferred", deferred, "set", p, calls', Len(events)))
  BY DEF DeferTask
<1>2. /\ Start(p, "defer", "idle", Idle) /\ UNCHANGED <<links, evals, milestones, scopes, blind>>
      /\ Typed /\ TablesTyped /\ BoardMatchesTrail /\ calls' \in Nat /\ Len(events) \in Nat
  BY StartMoves DEF DeferTask, BInv, Typed, TablesTyped
<1>3. PICK v : v = Told(t, "deferred", deferred, "set", p, calls', Len(events))
  OBVIOUS
<1>4. /\ v \in EventRows /\ v.task = t /\ v.field = "deferred" /\ v.to = deferred
      /\ v.since = Len(events)
  <2>1. t \in Nat /\ deferred \in Values /\ "deferred" \in FieldNames
    BY <1>1, <1>2, IdsAre DEF Values, FieldNames
  <2>2. QED
    BY <1>2, <1>3, <2>1, CitedIs DEF Told, EventRows, FieldNames
<1>5. t \in Ids /\ tasks[t] \in TaskRows(Projects) /\ tasks \in Seq(TaskRows(Projects))
  BY <1>1, <1>2, IdsAre DEF TablesTyped
<1>6. PICK row : row = [tasks[t] EXCEPT !.deferred = deferred]
  OBVIOUS
<1>7. /\ row \in TaskRows(Projects) /\ row.deferred = deferred /\ row.status = tasks[t].status
      /\ row.autonomy = tasks[t].autonomy /\ row.milestone = tasks[t].milestone
      /\ row.project = tasks[t].project
  BY <1>1, <1>5, <1>6 DEF TaskRows
<1>8. tasks' = [tasks EXCEPT ![t] = row]
  BY <1>1, <1>6
<1>9. /\ tasks' \in Seq(TaskRows(Projects)) /\ DOMAIN tasks' = DOMAIN tasks /\ Ids' = Ids
      /\ tasks'[t] = row /\ \A u \in Ids : u # t => tasks'[u] = tasks[u]
  BY <1>5, <1>7, <1>8 DEF Ids
<1>10. events' = Append(events, v)
  BY <1>1, <1>3
<1>11. /\ events' \in Seq(EventRows)
       /\ \A k \in DOMAIN events' : events'[k].task \in {0} \union Ids' /\ events'[k].since < k
       /\ Len(events) <= Len(events') /\ \A k \in DOMAIN events : events'[k] = events[k]
       /\ \A k \in DOMAIN events' \ DOMAIN events : events'[k] = v
  <2>1. Ids \subseteq Ids' /\ v.task \in {0} \union Ids' /\ v.since <= Len(events)
    BY <1>2, <1>4, <1>5, <1>9
  <2>2. QED
    BY <1>2, <1>4, <1>10, <2>1, EventsGrow
<1>12. TablesTyped'
  BY <1>2, <1>9, <1>11 DEF TablesTyped, Projects, scopes
<1>13. BoardMatchesTrail'
  <2>1. ASSUME NEW u \in DOMAIN tasks'
        PROVE  /\ tasks'[u].status = LastSaid(events', u, "status", Len(events'), "todo")
               /\ tasks'[u].autonomy = LastSaid(events', u, "autonomy", Len(events'), "hotl")
               /\ tasks'[u].milestone = LastSaid(events', u, "milestone", Len(events'), NoMilestone)
               /\ tasks'[u].deferred = LastSaid(events', u, "deferred", Len(events'), "no")
    <3>1. /\ tasks[u].status = LastSaid(events, u, "status", Len(events), "todo")
          /\ tasks[u].autonomy = LastSaid(events, u, "autonomy", Len(events), "hotl")
          /\ tasks[u].milestone = LastSaid(events, u, "milestone", Len(events), NoMilestone)
          /\ tasks[u].deferred = LastSaid(events, u, "deferred", Len(events), "no")
          /\ u \in Ids
      BY <1>2, <1>9, <2>1, TrailMatches DEF Matches, Ids
    <3>2. \A field, start :
            LastSaid(events', u, field, Len(events'), start) =
              IF v.task = u /\ v.field = field THEN v.to
              ELSE LastSaid(events, u, field, Len(events), start)
      BY <1>2, <1>4, <1>10, OneMoreTold
    <3>3. CASE u = t
      <4>1. tasks'[u] = row
        BY <1>9, <3>3
      <4>2. QED
        BY <1>4, <1>7, <3>1, <3>2, <3>3, <4>1
    <3>4. CASE u # t
      <4>1. tasks'[u] = tasks[u]
        BY <1>9, <3>1, <3>4
      <4>2. QED
        BY <1>4, <3>1, <3>2, <3>4, <4>1
    <3>5. QED
      BY <3>3, <3>4
  <2>2. QED
    BY <2>1, TrailMatches DEF Matches
<1>14. Grown
  <2>1. \A u \in Ids : tasks'[u].project = tasks[u].project
    BY <1>5, <1>7, <1>9
  <2>2. QED
    BY <1>2, <1>9, <1>11, <2>1 DEF Grown, Projects, scopes
<1>15. InAnOrder' /\ \A k \in DOMAIN events' \ DOMAIN events : Given(k)'
  <2>1. ASSUME NEW k \in DOMAIN events' \ DOMAIN events PROVE Given(k)'
    BY <1>4, <1>11, NoAutonomyGiven
  <2>2. QED
    BY <1>2, <2>1 DEF BInv, InAnOrder
<1>16. QED
  BY <1>2, <1>12, <1>13, <1>14, <1>15, OneStep

LEMMA UpdateMilestoneKeeps ==
  ASSUME BInv, NEW p \in Procs, UpdateMilestone(p)
  PROVE  BInv'
<1>1. PICK m \in Milestones, to \in MilestoneStatuses :
        /\ milestones' = [milestones EXCEPT ![m] = to]
        /\ events' = Append(events, Told(0, "milestone_status", to, "set", p, calls', Len(events)))
  BY DEF UpdateMilestone, MilestoneStatuses
<1>2. /\ Start(p, "milestone", "idle", Idle) /\ UNCHANGED <<tasks, links, evals, scopes, blind>>
      /\ Typed /\ TablesTyped /\ BoardMatchesTrail /\ calls' \in Nat /\ Len(events) \in Nat
  <2>1. Start(p, "milestone", "idle", Idle) /\ UNCHANGED <<tasks, links, evals, scopes, blind>>
    BY DEF UpdateMilestone
  <2>2. Typed /\ TablesTyped /\ BoardMatchesTrail /\ Len(events) \in Nat
    BY DEF BInv, Typed, TablesTyped
  <2>3. QED
    BY <2>1, <2>2, StartMoves
<1>3. PICK v : v = Told(0, "milestone_status", to, "set", p, calls', Len(events))
  OBVIOUS
<1>4. v \in EventRows /\ v.task = 0 /\ v.field = "milestone_status" /\ v.since = Len(events)
  <2>1. 0 \in Nat /\ to \in Values /\ "milestone_status" \in FieldNames
    BY <1>1 DEF Values, FieldNames
  <2>2. Typed /\ calls' \in Nat /\ Len(events) \in Nat
    BY <1>2
  <2>3. QED
    BY <1>3, <2>1, <2>2, CitedIs DEF Told, EventRows, FieldNames
<1>5. events' = Append(events, v) /\ Ids' = Ids
  BY <1>1, <1>2, <1>3 DEF Ids
<1>6. /\ events' \in Seq(EventRows)
      /\ \A k \in DOMAIN events' : events'[k].task \in {0} \union Ids' /\ events'[k].since < k
      /\ Len(events) <= Len(events') /\ \A k \in DOMAIN events : events'[k] = events[k]
      /\ \A k \in DOMAIN events' \ DOMAIN events : events'[k] = v
  <2>1. Ids \subseteq Ids' /\ v.task \in {0} \union Ids' /\ v.since <= Len(events)
    <3>1. Len(events) \in Nat
      BY <1>2
    <3>2. QED
      BY <1>4, <1>5, <3>1
  <2>2. QED
    BY <1>2, <1>4, <1>5, <2>1, EventsGrow
<1>7. TablesTyped'
  <2>1. milestones' \in [Milestones -> MilestoneStatuses]
    BY <1>1, <1>2 DEF TablesTyped
  <2>2. QED
    BY <1>2, <1>5, <1>6, <2>1 DEF TablesTyped, Projects, scopes
<1>8. BoardMatchesTrail'
  BY <1>2, <1>4, <1>5, SilentEvent
<1>9. Grown
  BY <1>2, <1>5, <1>6 DEF Grown, Projects, scopes
<1>10. InAnOrder' /\ \A k \in DOMAIN events' \ DOMAIN events : Given(k)'
  <2>1. ASSUME NEW k \in DOMAIN events' \ DOMAIN events PROVE Given(k)'
    BY <1>4, <1>6, NoAutonomyGiven
  <2>2. QED
    BY <1>2, <2>1 DEF BInv, InAnOrder
<1>11. QED
  BY <1>2, <1>7, <1>8, <1>9, <1>10, OneStep

LEMMA AddEvalKeeps ==
  ASSUME BInv, NEW p \in Procs, AddEval(p)
  PROVE  BInv'
<1>1. PICK t \in {0} \union Ids, project \in {0} \union Projects, rate \in Rates :
        /\ evals' = Append(evals, [task |-> t, project |-> project, rate |-> rate, by |-> p,
                                   at |-> Len(events)])
        /\ events' = Append(events, Told(t, "eval", rate, "set", p, calls', Len(events)))
  BY DEF AddEval
<1>2. /\ Start(p, "eval", "idle", Idle) /\ UNCHANGED <<tasks, links, milestones, scopes, blind>>
      /\ Typed /\ TablesTyped /\ BoardMatchesTrail /\ calls' \in Nat /\ Len(events) \in Nat
  BY StartMoves DEF AddEval, BInv, Typed, TablesTyped
<1>3. PICK v : v = Told(t, "eval", rate, "set", p, calls', Len(events))
  OBVIOUS
<1>4. v \in EventRows /\ v.task = t /\ v.field = "eval" /\ v.since = Len(events)
  <2>1. t \in Nat /\ rate \in Values /\ "eval" \in FieldNames
    BY <1>1, <1>2, IdsAre DEF Values, FieldNames
  <2>2. QED
    BY <1>2, <1>3, <2>1, CitedIs DEF Told, EventRows, FieldNames
<1>5. events' = Append(events, v) /\ Ids' = Ids
  BY <1>1, <1>2, <1>3 DEF Ids
<1>6. /\ events' \in Seq(EventRows)
      /\ \A k \in DOMAIN events' : events'[k].task \in {0} \union Ids' /\ events'[k].since < k
      /\ Len(events) <= Len(events') /\ \A k \in DOMAIN events : events'[k] = events[k]
      /\ \A k \in DOMAIN events' \ DOMAIN events : events'[k] = v
  <2>1. Ids \subseteq Ids' /\ v.task \in {0} \union Ids' /\ v.since <= Len(events)
    BY <1>1, <1>2, <1>4, <1>5
  <2>2. QED
    BY <1>2, <1>4, <1>5, <2>1, EventsGrow
<1>7. PICK e : e = [task |-> t, project |-> project, rate |-> rate, by |-> p, at |-> Len(events)]
  OBVIOUS
<1>8. e \in EvalRows(Ids, Projects) /\ e.at = Len(events)
  BY <1>1, <1>2, <1>7 DEF EvalRows
<1>9. /\ evals' \in Seq(EvalRows(Ids, Projects)) /\ DOMAIN evals \subseteq DOMAIN evals'
      /\ \A i \in DOMAIN evals : evals'[i] = evals[i]
      /\ \A i \in DOMAIN evals' : i \notin DOMAIN evals => evals'[i] = e
  <2>1. evals' = Append(evals, e) /\ evals \in Seq(EvalRows(Ids, Projects))
    BY <1>1, <1>2, <1>7 DEF TablesTyped
  <2>2. QED
    BY <1>8, <2>1
<1>10. TablesTyped'
  BY <1>2, <1>5, <1>6, <1>9 DEF TablesTyped, Projects, scopes
<1>11. BoardMatchesTrail'
  BY <1>2, <1>4, <1>5, SilentEvent
<1>12. Grown
  <2>1. \A i \in DOMAIN evals' : i \notin DOMAIN evals => evals'[i].at >= Len(events)
    BY <1>2, <1>8, <1>9
  <2>2. QED
    BY <1>2, <1>5, <1>6, <1>9, <2>1 DEF Grown, Projects, scopes
<1>13. InAnOrder' /\ \A k \in DOMAIN events' \ DOMAIN events : Given(k)'
  <2>1. ASSUME NEW k \in DOMAIN events' \ DOMAIN events PROVE Given(k)'
    BY <1>4, <1>6, NoAutonomyGiven
  <2>2. QED
    BY <1>2, <2>1 DEF BInv, InAnOrder
<1>14. QED
  BY <1>2, <1>10, <1>11, <1>12, <1>13, OneStep

LEMMA DefaultsAre ==
  ASSUME Typed, NEW default \in DefaultsAsked
  PROVE  default \in Autonomies
BY UsedIs DEF DefaultsAsked, Autonomies

\* What AddProject leaves: a project more, and its number remembered.
LEMMA ProjectAdded ==
  ASSUME BInv, NEW p \in Procs, NEW name \in Names, NEW path \in SUBSET Dirs, NEW default \in Autonomies,
         NEW to \in {"idle", "write"}, AddProject(p, name, path, default, to),
         to = "write" => \E d \in Dirs : path = {d}
  PROVE  BInv'
<1> DEFINE n == Len(projects) + 1
           m == [Idle EXCEPT !.project = n, !.at = path]
<1>1. /\ ProjectNamed(projects, name) = NoProject
      /\ Start(p, "register", to, m)
      /\ projects' = Append(projects, [name |-> name, path |-> path, default |-> default])
      /\ events' = Append(events, Told(0, "project", name, "set", p, calls', Len(events)))
      /\ UNCHANGED <<tasks, links, evals, milestones, markers, blind>>
  BY DEF AddProject
<1>2. /\ Typed /\ TablesTyped /\ BoardMatchesTrail /\ Len(events) \in Nat
      /\ projects \in Seq(ProjectRows) /\ n \in Nat
  BY ProjectsAre DEF BInv, Typed, TablesTyped
<1>3. m \in Memories /\ m.task = 0 /\ m.project = n /\ m.at = path
  BY <1>2, WriteMemory
<1> HIDE DEF m
<1>4. /\ Moves(p, to, IF to = "idle" THEN Idle ELSE Begun(m)) /\ used' = used /\ calls' \in Nat
  BY <1>1, <1>2, StartMoves
<1>5. PICK row : row = [name |-> name, path |-> path, default |-> default]
  OBVIOUS
<1>6. /\ row \in ProjectRows /\ row.name = name /\ row.path = path
      /\ projects' = Append(projects, row)
  BY <1>1, <1>5 DEF ProjectRows
<1>7. /\ projects' \in Seq(ProjectRows) /\ Projects' = 1 .. n /\ Projects = 1 .. (n - 1)
      /\ projects'[n] = row /\ \A i \in Projects : projects'[i] = projects[i]
      /\ Projects \subseteq Projects' /\ n \in Projects' /\ \A i \in Projects' : i \in Projects \/ i = n
  BY <1>2, <1>6 DEF Projects
<1>8. \A i \in Projects : projects[i].name # name
  <2>1. ASSUME NEW i \in Projects, projects[i].name = name PROVE FALSE
    <3>1. ProjectNamed(projects, name) \in DOMAIN projects
      BY <2>1 DEF ProjectNamed, Projects
    <3>2. NoProject \notin DOMAIN projects
      BY <1>2, ProjectsAre DEF Projects
    <3>3. QED
      BY <1>1, <3>1, <3>2
  <2>2. QED
    BY <2>1
<1>9. PICK v : v = Told(0, "project", name, "set", p, calls', Len(events))
  OBVIOUS
<1>10. v \in EventRows /\ v.task = 0 /\ v.field = "project" /\ v.since = Len(events)
  <2>1. 0 \in Nat /\ name \in Values /\ "project" \in FieldNames
    BY DEF Values, FieldNames
  <2>2. QED
    BY <1>2, <1>4, <1>9, <2>1, CitedIs DEF Told, EventRows, FieldNames
<1>11. events' = Append(events, v) /\ Ids' = Ids
  BY <1>1, <1>9 DEF Ids
<1>12. /\ events' \in Seq(EventRows)
       /\ \A k \in DOMAIN events' : events'[k].task \in {0} \union Ids' /\ events'[k].since < k
       /\ Len(events) <= Len(events') /\ \A k \in DOMAIN events : events'[k] = events[k]
       /\ \A k \in DOMAIN events' \ DOMAIN events : events'[k] = v
  <2>1. Ids \subseteq Ids' /\ v.task \in {0} \union Ids' /\ v.since <= Len(events)
    BY <1>2, <1>10, <1>11
  <2>2. QED
    BY <1>2, <1>10, <1>11, <2>1, EventsGrow
<1>13. TablesTyped'
  <2>1. /\ Seq(TaskRows(Projects)) \subseteq Seq(TaskRows(Projects'))
        /\ Seq(EvalRows(Ids, Projects)) \subseteq Seq(EvalRows(Ids, Projects'))
        /\ LinkRows(Ids) \subseteq LinkRows(Ids)
    <3>1. Projects \subseteq Projects' /\ Ids \subseteq Ids
      BY <1>7
    <3>2. QED
      BY <3>1, RowsStay
  <2>2. tasks' \in Seq(TaskRows(Projects')) /\ evals' \in Seq(EvalRows(Ids', Projects'))
    BY <1>1, <1>2, <1>11, <2>1 DEF TablesTyped
  <2>3. \A i, j \in Projects' : projects'[i].name = projects'[j].name => i = j
    <3>1. \A i, j \in Projects : projects[i].name = projects[j].name => i = j
      BY <1>2 DEF TablesTyped
    <3>2. QED
      BY <1>6, <1>7, <1>8, <3>1
  <2>4. QED
    BY <1>1, <1>2, <1>7, <1>11, <1>12, <2>2, <2>3 DEF TablesTyped
<1>14. BoardMatchesTrail'
  BY <1>1, <1>2, <1>10, <1>11, SilentEvent
<1>15. Grown
  BY <1>1, <1>7, <1>11, <1>12 DEF Grown
<1>16. InAnOrder' /\ \A k \in DOMAIN events' \ DOMAIN events : Given(k)'
  <2>1. ASSUME NEW k \in DOMAIN events' \ DOMAIN events PROVE Given(k)'
    BY <1>10, <1>12, NoAutonomyGiven
  <2>2. QED
    BY <1>1, <2>1 DEF BInv, InAnOrder
<1>17. CASE to = "idle"
  BY <1>1, <1>13, <1>14, <1>15, <1>16, <1>17, OneStep
<1>18. CASE to = "write"
  <2>1. PICK b : b = Begun(m)
    OBVIOUS
  <2>2. /\ b \in Memories /\ b.task = 0 /\ b.project = n /\ b.at = path /\ b.since = Len(events)
        /\ b.known = Projects
    BY <1>2, <1>3, <2>1, BegunIsTyped
  <2>3. PICK d \in Dirs : path = {d}
    BY <1>18
  <2>4. MayMark(row, d)
    <3>1. PathInside(d, d)
      BY <2>3, DirsAreSeqs, IsOnItsWay DEF PathInside
    <3>2. QED
      BY <1>6, <2>3, <3>1 DEF MayMark
  <2>5. WritingHolds(b)'
    BY <1>7, <2>2, <2>3, <2>4 DEF WritingHolds
  <2>6. Remembered(p, "write", b)'
    BY <1>7, <1>12, <2>2, <2>5 DEF Remembered
  <2>7. Moves(p, "write", b) /\ "write" \in Points
    BY <1>4, <1>18, <2>1 DEF Points
  <2>8. QED
    BY <1>4, <1>13, <1>14, <1>15, <1>16, <2>2, <2>6, <2>7, TableStep
<1>19. QED
  BY <1>17, <1>18

LEMMA RegisterKeeps ==
  ASSUME BInv, NEW p \in Procs, Register(p)
  PROVE  BInv'
<1>1. PICK name \in Names, path \in {{}} \union {{d} : d \in used.dirs}, default \in DefaultsAsked :
        AddProject(p, name, path, default, "idle")
  BY DEF Register
<1>2. path \in SUBSET Dirs /\ default \in Autonomies
  BY <1>1, UsedIs, DefaultsAre DEF BInv
<1>3. QED
  BY <1>1, <1>2, ProjectAdded

LEMMA StartInitKeeps ==
  ASSUME BInv, NEW p \in Procs, StartInit(p)
  PROVE  BInv'
<1>1. PICK d \in used.dirs :
        LET here == {i \in Projects : projects[i].path = {d}} IN
        IF here = {}
        THEN \E name \in Names, default \in DefaultsAsked : AddProject(p, name, {d}, default, "write")
        ELSE /\ Start(p, "register", "write",
                      [Idle EXCEPT !.project = CHOOSE i \in here : \A j \in here : i <= j,
                                   !.at = {d}])
             /\ UNCHANGED <<tables, events, blind>>
  BY DEF StartInit
<1> DEFINE here == {i \in Projects : projects[i].path = {d}}
<1>2. d \in Dirs /\ Typed
  BY <1>1, UsedIs DEF BInv
<1>3. CASE here = {}
  <2>1. PICK name \in Names, default \in DefaultsAsked : AddProject(p, name, {d}, default, "write")
    BY <1>1, <1>3
  <2>2. default \in Autonomies /\ {d} \in SUBSET Dirs
    BY <1>2, <2>1, DefaultsAre
  <2>3. \E e \in Dirs : {d} = {e}
    BY <1>2
  <2>4. QED
    BY <2>1, <2>2, <2>3, ProjectAdded
<1>4. CASE here # {}
  <2>1. PICK i : i = CHOOSE h \in here : \A j \in here : h <= j
    OBVIOUS
  <2> DEFINE m == [Idle EXCEPT !.project = i, !.at = {d}]
  <2>2. Start(p, "register", "write", m) /\ UNCHANGED <<tables, events, blind>>
    BY <1>1, <1>4, <2>1
  <2>3. i \in here
    <3>1. here \in SUBSET Nat
      BY <1>2, ProjectsAre
    <3> HIDE DEF here
    <3>2. QED
      BY <1>4, <2>1, <3>1, LeastOf
  <2>4. i \in Projects /\ i \in Nat /\ {d} \in SUBSET Dirs /\ projects[i].path = {d}
    BY <1>2, <2>3, ProjectsAre
  <2>5. m \in Memories /\ m.task = 0 /\ m.project = i /\ m.at = {d}
    BY <2>4, WriteMemory
  <2> HIDE DEF m
  <2>6. Begun(m).project = i /\ Begun(m).at = {d}
    BY <1>2, <2>5, BegunIsTyped
  <2>7. MayMark(projects[i], d)
    BY <1>2, <2>4, DirsAreSeqs, IsOnItsWay DEF MayMark, PathInside
  <2>8. WritingHolds(Begun(m))
    BY <2>4, <2>6, <2>7 DEF WritingHolds
  <2>9. Remembered(p, "write", Begun(m)) /\ "write" \in Points /\ "write" # "idle"
    BY <1>2, <2>5, <2>8, BegunRemembers DEF Points
  <2>10. QED
    BY <2>2, <2>5, <2>9, BeginStep
<1>5. QED
  BY <1>3, <1>4

\* A trail that goes on with new events.
LEMMA EventsLonger ==
  ASSUME TablesTyped, NEW new \in Seq(EventRows), events' = events \o new, Ids \subseteq Ids',
         \A j \in 1 .. Len(new) : new[j].task \in {0} \union Ids' /\ new[j].since <= Len(events)
  PROVE  /\ events' \in Seq(EventRows)
         /\ \A k \in DOMAIN events' : events'[k].task \in {0} \union Ids' /\ events'[k].since < k
         /\ Len(events) <= Len(events') /\ \A k \in DOMAIN events : events'[k] = events[k]
         /\ \A k \in DOMAIN events' \ DOMAIN events :
              \E j \in 1 .. Len(new) : events'[k] = new[j]
<1>1. /\ events \in Seq(EventRows) /\ Len(events) \in Nat /\ DOMAIN events = 1 .. Len(events)
      /\ \A k \in DOMAIN events : events[k].task \in {0} \union Ids /\ events[k].since < k
  BY DEF TablesTyped
<1>2. /\ events' \in Seq(EventRows) /\ Len(events') = Len(events) + Len(new) /\ Len(new) \in Nat
      /\ DOMAIN events' = 1 .. (Len(events) + Len(new))
      /\ \A k \in DOMAIN events : events'[k] = events[k]
      /\ \A k \in DOMAIN events' : k \notin DOMAIN events =>
           k > Len(events) /\ k - Len(events) \in 1 .. Len(new) /\ events'[k] = new[k - Len(events)]
  BY <1>1
<1>3. \A k \in DOMAIN events' \ DOMAIN events : \E j \in 1 .. Len(new) : events'[k] = new[j]
  BY <1>2
<1>4. ASSUME NEW k \in DOMAIN events'
      PROVE  events'[k].task \in {0} \union Ids' /\ events'[k].since < k
  <2>1. CASE k \in DOMAIN events
    BY <1>1, <1>2, <2>1
  <2>2. CASE k \notin DOMAIN events
    <3>1. PICK j \in 1 .. Len(new) : events'[k] = new[j]
      BY <1>3, <2>2
    <3>2. new[j].since \in Nat
      <4>1. new[j] \in EventRows
        BY <3>1
      <4>2. QED
        BY <4>1 DEF EventRows
    <3>3. k > Len(events) /\ k \in Nat
      BY <1>2, <2>2
    <3>4. new[j].task \in {0} \union Ids' /\ new[j].since <= Len(events)
      BY <3>1
    <3>5. events'[k].since < k
      BY <1>1, <3>1, <3>2, <3>3, <3>4
    <3>6. QED
      BY <3>1, <3>4, <3>5
  <2>3. QED
    BY <2>1, <2>2
<1>5. Len(events) <= Len(events')
  BY <1>1, <1>2
<1>6. QED
  BY <1>2, <1>3, <1>4, <1>5

LEMMA NowSaid ==
  ASSUME TablesTyped, NEW new \in Seq(EventRows), events' = events \o new, NEW t, NEW field, NEW start
  PROVE  /\ \A j \in 1 .. Len(new) :
              (Says(new, j, t, field) /\ \A i \in 1 .. Len(new) : Says(new, i, t, field) => i = j)
                => LastSaid(events', t, field, Len(events'), start) = new[j].to
         /\ (\A j \in 1 .. Len(new) : ~Says(new, j, t, field)) =>
              LastSaid(events', t, field, Len(events'), start)
                = LastSaid(events, t, field, Len(events), start)
<1>1. events \in Seq(EventRows) /\ Len(events) \in Nat
  BY DEF TablesTyped
<1>2. /\ Len(events') \in Nat /\ Len(new) \in Nat /\ Len(events') = Len(events) + Len(new)
      /\ \A k \in 1 .. Len(events) : events'[k] = events[k]
      /\ \A k \in 1 .. Len(events') : k > Len(events) => events'[k] = new[k - Len(events)]
  BY <1>1
<1>3. PICK n \in Nat, d \in Nat, m \in Nat : n = Len(events) /\ d = Len(new) /\ m = Len(events')
  BY <1>1, <1>2
<1>4. PICK log, more, new_ : log = events /\ more = events' /\ new_ = new
  OBVIOUS
<1>5. /\ n \in Nat /\ d \in Nat /\ m \in Nat /\ m = n + d
      /\ \A k \in 1 .. n : more[k] = log[k]
      /\ \A k \in 1 .. m : k > n => more[k] = new_[k - n]
  BY <1>2, <1>3, <1>4
<1>6. ASSUME NEW j \in 1 .. d, Says(new_, j, t, field),
             \A i \in 1 .. d : Says(new_, i, t, field) => i = j
      PROVE  LastSaid(more, t, field, m, start) = new_[j].to
  <2>1. PICK k \in 1 .. m : k = n + j /\ k - n = j /\ k > n
    <3>1. j \in Nat /\ 1 <= j /\ j <= d
      BY <1>5
    <3>2. n + j \in 1 .. m /\ (n + j) - n = j /\ n + j > n
      BY <1>5, <3>1
    <3>3. QED
      BY <3>2
  <2>2. more[k] = new_[j]
    BY <1>5, <2>1
  <2>3. \A i \in 1 .. m : Says(more, i, t, field) => i <= k
    <3>1. ASSUME NEW i \in 1 .. m, Says(more, i, t, field), i > n PROVE i <= k
      <4>1. Says(new_, i - n, t, field) /\ i - n \in 1 .. d
        BY <1>5, <3>1 DEF Says
      <4>2. i - n = j
        BY <1>6, <4>1
      <4>3. QED
        BY <1>5, <2>1, <4>2
    <3>2. ASSUME NEW i \in 1 .. m, ~(i > n) PROVE i <= k
      BY <1>5, <2>1, <3>2
    <3>3. QED
      BY <3>1, <3>2
  <2>4. Says(more, k, t, field)
    BY <1>6, <2>2 DEF Says
  <2>5. LastSaid(more, t, field, m, start) = more[k].to
    BY <1>5, <2>1, <2>3, <2>4, SaidHere
  <2>6. QED
    BY <2>2, <2>5
<1>7. ASSUME \A j \in 1 .. d : ~Says(new_, j, t, field)
      PROVE  LastSaid(more, t, field, m, start) = LastSaid(log, t, field, n, start)
  <2>1. ASSUME NEW k \in 1 .. m, k > n PROVE ~Says(more, k, t, field)
    <3>1. k - n \in 1 .. d
      BY <1>5, <2>1
    <3>2. QED
      BY <1>5, <1>7, <2>1, <3>1 DEF Says
  <2>2. n \in Nat /\ m \in Nat /\ n <= m /\ \A k \in 1 .. n : more[k] = log[k]
    BY <1>5
  <2>3. \A k \in 1 .. m : k > n => ~Says(more, k, t, field)
    BY <2>1
  <2>4. QED
    BY <2>2, <2>3, SaidBefore
<1>8. QED
  BY <1>3, <1>4, <1>6, <1>7

LEMMA PromoteAutonomyKeeps ==
  ASSUME BInv, NEW p \in Procs, PromoteAutonomy(p)
  PROVE  BInv'
<1> DEFINE t  == mem[p].task
           to == mem[p].set["autonomy"]
<1>1. /\ tasks' = [tasks EXCEPT ![t].autonomy = to]
      /\ events' = Append(events, Told(t, "autonomy", to, "promoted", p, mem[p].cmd, mem[p].since))
      /\ Return(p) /\ UNCHANGED <<links, evals, milestones, scopes, blind>>
  BY DEF PromoteAutonomy
<1>2. /\ Typed /\ TablesTyped /\ BoardMatchesTrail /\ Len(events) \in Nat
      /\ mem[p] \in Memories /\ Remembered(p, "promote", mem[p])
  BY ItsMemory DEF PromoteAutonomy, BInv, Typed, TablesTyped
<1>3. /\ to \in Autonomies /\ SpeaksFor(mem[p].cited, t, p, mem[p].since) /\ t \in Ids
      /\ mem[p].since <= Len(events) /\ mem[p].since \in Nat /\ mem[p].cmd \in Nat
  BY <1>2 DEF Remembered, PromotingHolds, SpeaksFor, Memories
<1>4. PICK v : v = Told(t, "autonomy", to, "promoted", p, mem[p].cmd, mem[p].since)
  OBVIOUS
<1>5. /\ v \in EventRows /\ v.task = t /\ v.field = "autonomy" /\ v.to = to /\ v.how = "promoted"
      /\ v.by = p /\ v.since = mem[p].since /\ v.cited = mem[p].cited
  <2>1. t \in Nat /\ to \in Values /\ "autonomy" \in FieldNames
    BY <1>2, <1>3, IdsAre DEF Values, FieldNames
  <2>2. Typed /\ mem[p].cmd \in Nat /\ mem[p].since \in Nat
    BY <1>2, <1>3
  <2> HIDE DEF t, to
  <2>3. QED
    BY <1>4, <2>1, <2>2, CitedIs DEF Told, EventRows, FieldNames
<1>6. t \in Ids /\ tasks[t] \in TaskRows(Projects) /\ tasks \in Seq(TaskRows(Projects))
  BY <1>2, <1>3, IdsAre DEF TablesTyped
<1>7. events' = Append(events, v)
  BY <1>1, <1>4
<1>8. PICK row : row = [tasks[t] EXCEPT !.autonomy = to]
  OBVIOUS
<1>9. /\ row \in TaskRows(Projects) /\ row.autonomy = to /\ row.status = tasks[t].status
      /\ row.deferred = tasks[t].deferred /\ row.milestone = tasks[t].milestone
      /\ row.project = tasks[t].project
  BY <1>3, <1>6, <1>8 DEF TaskRows
<1>10. tasks' = [tasks EXCEPT ![t] = row]
  BY <1>1, <1>8
<1> HIDE DEF t, to
<1>11. /\ tasks' \in Seq(TaskRows(Projects)) /\ DOMAIN tasks' = DOMAIN tasks /\ Ids' = Ids
       /\ tasks'[t] = row /\ \A u \in Ids : u # t => tasks'[u] = tasks[u]
  BY <1>6, <1>9, <1>10 DEF Ids
<1>12. /\ events' \in Seq(EventRows)
       /\ \A k \in DOMAIN events' : events'[k].task \in {0} \union Ids' /\ events'[k].since < k
       /\ Len(events) <= Len(events') /\ \A k \in DOMAIN events : events'[k] = events[k]
       /\ \A k \in DOMAIN events' \ DOMAIN events : events'[k] = v
  <2>1. Ids \subseteq Ids' /\ v.task \in {0} \union Ids' /\ v.since <= Len(events)
    BY <1>3, <1>5, <1>11
  <2>2. QED
    BY <1>2, <1>5, <1>7, <2>1, EventsGrow
<1>13. TablesTyped'
  BY <1>1, <1>2, <1>11, <1>12 DEF TablesTyped, Projects, scopes
<1>14. BoardMatchesTrail'
  <2>1. ASSUME NEW u \in DOMAIN tasks'
        PROVE  /\ tasks'[u].status = LastSaid(events', u, "status", Len(events'), "todo")
               /\ tasks'[u].autonomy = LastSaid(events', u, "autonomy", Len(events'), "hotl")
               /\ tasks'[u].milestone = LastSaid(events', u, "milestone", Len(events'), NoMilestone)
               /\ tasks'[u].deferred = LastSaid(events', u, "deferred", Len(events'), "no")
    <3>1. /\ tasks[u].status = LastSaid(events, u, "status", Len(events), "todo")
          /\ tasks[u].autonomy = LastSaid(events, u, "autonomy", Len(events), "hotl")
          /\ tasks[u].milestone = LastSaid(events, u, "milestone", Len(events), NoMilestone)
          /\ tasks[u].deferred = LastSaid(events, u, "deferred", Len(events), "no")
          /\ u \in Ids
      BY <1>2, <1>11, <2>1, TrailMatches DEF Matches, Ids
    <3>2. \A field, start :
            LastSaid(events', u, field, Len(events'), start) =
              IF v.task = u /\ v.field = field THEN v.to
              ELSE LastSaid(events, u, field, Len(events), start)
      BY <1>2, <1>5, <1>7, OneMoreTold
    <3>3. CASE u = t
      <4>1. tasks'[u] = row
        BY <1>11, <3>3
      <4>2. QED
        BY <1>5, <1>9, <3>1, <3>2, <3>3, <4>1
    <3>4. CASE u # t
      <4>1. tasks'[u] = tasks[u]
        BY <1>11, <3>1, <3>4
      <4>2. QED
        BY <1>5, <3>1, <3>2, <3>4, <4>1
    <3>5. QED
      BY <3>3, <3>4
  <2>2. QED
    BY <2>1, TrailMatches DEF Matches
<1>15. Grown
  <2>1. \A u \in Ids : tasks'[u].project = tasks[u].project
    BY <1>6, <1>9, <1>11
  <2>2. QED
    BY <1>1, <1>11, <1>12, <2>1 DEF Grown, Projects, scopes
<1>16. ASSUME NEW k \in DOMAIN events' \ DOMAIN events PROVE Given(k)'
  <2>1. events'[k] = v
    BY <1>12
  <2>2. PICK e, u, n : e = v.cited /\ u = v.task /\ n = v.since
    OBVIOUS
  <2>3. SpeaksFor(e, u, p, n) /\ n \in Nat /\ n <= Len(events)
    BY <1>3, <1>5, <2>2
  <2>4. SpeaksFor(e, u, p, n)'
    BY <1>2, <1>13, <1>15, <2>3, GrownSpeaks
  <2>5. SpeaksFor(events[k].cited, events[k].task, events[k].by, events[k].since)'
    BY <1>5, <2>1, <2>2, <2>4 DEF SpeaksFor
  <2>6. QED
    BY <1>5, <2>1, <2>5 DEF Given
<1>17. InAnOrder'
  BY <1>1 DEF BInv, InAnOrder
<1>18. QED
  BY <1>1, <1>13, <1>14, <1>15, <1>16, <1>17, LastStep

\* The autonomy a task starts with is one there is, and auto only where it was asked for.
LEMMA StartsWith ==
  ASSUME Typed, NEW asked \in {""} \union Autonomies, NEW project \in {NoProject} \union Projects
  PROVE  /\ StartingAutonomy(asked, project) \in Autonomies
         /\ StartingAutonomy(asked, project) = "auto" => asked = "auto"
<1>1. project # NoProject => projects[project].default \in Autonomies
  <2>1. project # NoProject => projects[project] \in ProjectRows
    BY ProjectsAre
  <2>2. QED
    BY <2>1 DEF ProjectRows
<1>2. "hotl" \in Autonomies
  BY DEF Autonomies
<1>3. QED
  BY <1>1, <1>2 DEF StartingAutonomy

LEMMA AddTaskKeeps ==
  ASSUME BInv, NEW p \in Procs, AddTask(p)
  PROVE  BInv'
<1> DEFINE asked    == mem[p].set["autonomy"]
           project  == mem[p].project
           given    == StartingAutonomy(asked, project)
           refused  == asked = "auto" /\ p \notin Deciders
           u        == Len(tasks) + 1
<1>1. /\ tasks' = IF refused THEN tasks ELSE Append(tasks, NewTask(project, given))
      /\ events' = IF refused THEN events
                   ELSE events \o Created(u, given, p, mem[p].cmd, mem[p].since)
      /\ Return(p) /\ UNCHANGED <<links, evals, milestones, scopes, blind>>
  BY DEF AddTask
<1>2. /\ Typed /\ TablesTyped /\ BoardMatchesTrail /\ Len(events) \in Nat
      /\ mem[p] \in Memories /\ Remembered(p, "insert", mem[p])
  BY ItsMemory DEF AddTask, BInv, Typed, TablesTyped
<1>3. /\ asked \in {""} \union Autonomies /\ project \in {NoProject} \union Projects
      /\ mem[p].since \in Nat /\ mem[p].cmd \in Nat /\ mem[p].since <= Len(events)
  BY <1>2 DEF Remembered, AddingHolds, Memories
<1>4. given \in Autonomies /\ (given = "auto" => asked = "auto")
  BY <1>2, <1>3, StartsWith
<1>5. InAnOrder'
  BY <1>1 DEF BInv, InAnOrder
<1> HIDE DEF asked, project, given
<1>6. CASE refused
  <2>1. tasks' = tasks /\ events' = events
    BY <1>1, <1>6
  <2>2. TablesTyped'
    BY <1>1, <1>2, <2>1 DEF TablesTyped, Ids, Projects, scopes
  <2>3. BoardMatchesTrail'
    BY <1>2, <2>1, SameTrail
  <2>4. Grown
    BY <1>1, <1>2, <2>1 DEF Grown, Ids, Projects, scopes
  <2>5. QED
    BY <1>1, <1>5, <2>1, <2>2, <2>3, <2>4, LastStep
<1>7. CASE ~refused
  <2>1. PICK cmd \in Nat, since \in Nat : cmd = mem[p].cmd /\ since = mem[p].since
    BY <1>3
  <2>2. PICK row : row = NewTask(project, given)
    OBVIOUS
  <2>3. /\ row \in TaskRows(Projects) /\ row.status = "todo" /\ row.autonomy = given
        /\ row.deferred = "no" /\ row.milestone = NoMilestone
    <3>1. "todo" \in TaskStatuses
      BY DEF TaskStatuses
    <3>2. QED
      BY <1>3, <1>4, <2>2, <3>1 DEF NewTask, TaskRows
  <2>4. tasks' = Append(tasks, row) /\ tasks \in Seq(TaskRows(Projects))
    BY <1>1, <1>2, <1>7, <2>2 DEF TablesTyped
  <2>5. /\ u \in Nat /\ Ids' = 1 .. u /\ u \notin Ids /\ Ids \subseteq Ids' /\ u # 0
        /\ tasks' \in Seq(TaskRows(Projects)) /\ tasks'[u] = row
        /\ \A t \in Ids : tasks'[t] = tasks[t]
        /\ \A t \in Ids' : t \in Ids \/ t = u
    BY <2>3, <2>4 DEF Ids
  <2> HIDE DEF u
  <2>6. PICK v : v = Told(u, "status", "todo", "created", p, cmd, since)
    OBVIOUS
  <2>7. PICK w : w = Told(u, "autonomy", given, "created", p, cmd, since)
    OBVIOUS
  <2>8. "todo" \in Values /\ given \in Values /\ "status" \in FieldNames /\ "autonomy" \in FieldNames
    BY <1>4 DEF Values, FieldNames, TaskStatuses
  <2>9. v \in EventRows /\ v.task = u /\ v.field = "status" /\ v.to = "todo" /\ v.since = since
    <3>1. Typed /\ u \in Nat
      BY <1>2, <2>5
    <3>2. QED
      BY <2>1, <2>6, <2>8, <3>1, CitedIs DEF Told, EventRows, FieldNames
  <2>10. /\ w \in EventRows /\ w.task = u /\ w.field = "autonomy" /\ w.to = given /\ w.since = since
         /\ w.how = "created" /\ w.by = p
    <3>1. Typed /\ u \in Nat
      BY <1>2, <2>5
    <3>2. QED
      BY <2>1, <2>7, <2>8, <3>1, CitedIs DEF Told, EventRows, FieldNames
  <2>11. PICK new \in Seq(EventRows) : new = <<v, w>>
    <3>1. <<v, w>> \in Seq(EventRows)
      BY <2>9, <2>10
    <3>2. QED
      BY <3>1
  <2>12. events' = events \o new
    BY <1>1, <1>7, <2>1, <2>6, <2>7, <2>11 DEF Created
  <2>13. /\ new[1] = v /\ new[2] = w /\ 1 \in 1 .. Len(new) /\ 2 \in 1 .. Len(new)
         /\ \A j \in 1 .. Len(new) : j = 1 \/ j = 2
    BY <2>11
  <2>14. TablesTyped /\ new \in Seq(EventRows) /\ events' = events \o new
    BY <1>2, <2>11, <2>12
  <2>15. \A j \in 1 .. Len(new) : new[j].task \in {0} \union Ids' /\ new[j].since <= Len(events)
    <3>1. u \in Ids' /\ since <= Len(events)
      <4>1. u \in Ids'
        BY <2>5
      <4>2. since <= Len(events)
        BY <1>3, <2>1
      <4>3. QED
        BY <4>1, <4>2
    <3>2. QED
      BY <2>9, <2>10, <2>13, <3>1
  <2>16. /\ events' \in Seq(EventRows)
         /\ \A k \in DOMAIN events' : events'[k].task \in {0} \union Ids' /\ events'[k].since < k
         /\ Len(events) <= Len(events') /\ \A k \in DOMAIN events : events'[k] = events[k]
         /\ \A k \in DOMAIN events' \ DOMAIN events :
              \E j \in 1 .. Len(new) : events'[k] = new[j]
    BY <1>2, <2>5, <2>11, <2>12, <2>15, EventsLonger
  <2>17. TablesTyped'
    <3>1. /\ Seq(TaskRows(Projects)) \subseteq Seq(TaskRows(Projects))
          /\ Seq(EvalRows(Ids, Projects)) \subseteq Seq(EvalRows(Ids', Projects))
          /\ LinkRows(Ids) \subseteq LinkRows(Ids')
      <4>1. Projects \subseteq Projects
        OBVIOUS
      <4>2. QED
        BY <2>5, <4>1, RowsStay
    <3>2. /\ Projects' = Projects /\ projects' = projects /\ markers' = markers /\ links' = links
          /\ evals' = evals /\ milestones' = milestones /\ blind' = blind
      BY <1>1 DEF Projects, scopes
    <3>3. evals' \in Seq(EvalRows(Ids', Projects')) /\ links' \subseteq LinkRows(Ids')
      BY <1>2, <3>1, <3>2 DEF TablesTyped
    <3>4. QED
      BY <1>2, <2>5, <2>16, <3>2, <3>3 DEF TablesTyped
  <2>18. BoardMatchesTrail'
    <3>1. ASSUME NEW t \in Ids
          PROVE  /\ tasks'[t].status = LastSaid(events', t, "status", Len(events'), "todo")
                 /\ tasks'[t].autonomy = LastSaid(events', t, "autonomy", Len(events'), "hotl")
                 /\ tasks'[t].milestone = LastSaid(events', t, "milestone", Len(events'), NoMilestone)
                 /\ tasks'[t].deferred = LastSaid(events', t, "deferred", Len(events'), "no")
      <4>1. /\ tasks[t].status = LastSaid(events, t, "status", Len(events), "todo")
            /\ tasks[t].autonomy = LastSaid(events, t, "autonomy", Len(events), "hotl")
            /\ tasks[t].milestone = LastSaid(events, t, "milestone", Len(events), NoMilestone)
            /\ tasks[t].deferred = LastSaid(events, t, "deferred", Len(events), "no")
        BY <1>2, <3>1, TrailMatches DEF Matches, Ids
      <4>2. \A field : \A j \in 1 .. Len(new) : ~Says(new, j, t, field)
        BY <2>5, <2>9, <2>10, <2>13, <3>1 DEF Says
      <4>3. \A field, start : LastSaid(events', t, field, Len(events'), start)
                                = LastSaid(events, t, field, Len(events), start)
        BY <2>14, <4>2, NowSaid
      <4>4. tasks'[t] = tasks[t]
        BY <2>5, <3>1
      <4>5. QED
        BY <4>1, <4>3, <4>4
    <3>2. /\ tasks'[u].status = LastSaid(events', u, "status", Len(events'), "todo")
          /\ tasks'[u].autonomy = LastSaid(events', u, "autonomy", Len(events'), "hotl")
          /\ tasks'[u].milestone = LastSaid(events', u, "milestone", Len(events'), NoMilestone)
          /\ tasks'[u].deferred = LastSaid(events', u, "deferred", Len(events'), "no")
      <4>1. LastSaid(events', u, "status", Len(events'), "todo") = "todo"
        <5>1. Says(new, 1, u, "status") /\ \A i \in 1 .. Len(new) : Says(new, i, u, "status") => i = 1
          BY <2>9, <2>10, <2>13 DEF Says
        <5>2. LastSaid(events', u, "status", Len(events'), "todo") = new[1].to
          BY <2>13, <2>14, <5>1, NowSaid
        <5>3. QED
          BY <2>9, <2>13, <5>2
      <4>2. LastSaid(events', u, "autonomy", Len(events'), "hotl") = given
        <5>1. Says(new, 2, u, "autonomy") /\ \A i \in 1 .. Len(new) : Says(new, i, u, "autonomy") => i = 2
          BY <2>9, <2>10, <2>13 DEF Says
        <5>2. LastSaid(events', u, "autonomy", Len(events'), "hotl") = new[2].to
          BY <2>13, <2>14, <5>1, NowSaid
        <5>3. QED
          BY <2>10, <2>13, <5>2
      <4>3. \A field : \A k \in 1 .. Len(events) : ~Says(events, k, u, field)
        <5>1. \A k \in 1 .. Len(events) : events[k].task # u
          BY <1>2, <2>5 DEF TablesTyped
        <5>2. QED
          BY <5>1 DEF Says
      <4>4. \A field, start : LastSaid(events, u, field, Len(events), start) = start
        BY <1>2, <4>3, SaidNowhere
      <4>5. \A field, start : (\A j \in 1 .. Len(new) : ~Says(new, j, u, field)) =>
              LastSaid(events', u, field, Len(events'), start) = LastSaid(events, u, field, Len(events), start)
        BY <2>14, NowSaid
      <4>6. ASSUME NEW field \in {"milestone", "deferred"}, NEW start
            PROVE  LastSaid(events', u, field, Len(events'), start) = start
        <5>1. \A j \in 1 .. Len(new) : ~Says(new, j, u, field)
          BY <2>9, <2>10, <2>13, <4>6 DEF Says
        <5>2. QED
          BY <4>4, <4>5, <5>1
      <4>7. QED
        BY <2>3, <2>5, <4>1, <4>2, <4>6
    <3>3. QED
      BY <2>5, <3>1, <3>2, TrailMatches DEF Matches, Ids
  <2>19. Grown
    BY <1>1, <2>5, <2>16 DEF Grown, Projects, scopes
  <2>20. ASSUME NEW k \in DOMAIN events' \ DOMAIN events PROVE Given(k)'
    <3>1. events'[k] = v \/ events'[k] = w
      BY <2>13, <2>16
    <3>2. CASE events'[k] = v
      BY <2>9, <3>2, NoAutonomyGiven
    <3>3. CASE events'[k] = w
      <4>1. given = "auto" => p \in Deciders
        BY <1>4, <1>7
      <4>2. QED
        BY <2>10, <3>3, <4>1 DEF Given
    <3>4. QED
      BY <3>1, <3>2, <3>3
  <2>21. QED
    BY <1>1, <1>5, <2>17, <2>18, <2>19, <2>20, LastStep
<1>8. QED
  BY <1>6, <1>7

\* The fields are told once each, in a row.
LEMMA OrderedIs ==
  ASSUME NEW set, DOMAIN set \subseteq Fields
  PROVE  /\ Ordered(set) \in Seq(Fields)
         /\ \A j \in DOMAIN Ordered(set) : Ordered(set)[j] \in DOMAIN set
         /\ \A i, j \in DOMAIN Ordered(set) : Ordered(set)[i] = Ordered(set)[j] => i = j
         /\ \A f \in DOMAIN set : \E j \in DOMAIN Ordered(set) : Ordered(set)[j] = f
<1> DEFINE s == "status" \in DOMAIN set
           a == "autonomy" \in DOMAIN set
           m == "milestone" \in DOMAIN set
<1>1. \A f \in DOMAIN set : f = "status" \/ f = "autonomy" \/ f = "milestone"
  BY DEF Fields
<1>2. CASE s /\ a /\ m
  <2>1. Ordered(set) \in Seq(Fields) /\ Len(Ordered(set)) = 3 /\ Ordered(set)[1] = "status" /\ Ordered(set)[2] = "autonomy" /\ Ordered(set)[3] = "milestone"
    BY <1>2 DEF Ordered, One, Fields
  <2>2. QED
    BY <1>1, <1>2, <2>1 DEF Fields
<1>3. CASE s /\ a /\ ~m
  <2>1. Ordered(set) \in Seq(Fields) /\ Len(Ordered(set)) = 2 /\ Ordered(set)[1] = "status" /\ Ordered(set)[2] = "autonomy"
    BY <1>3 DEF Ordered, One, Fields
  <2>2. QED
    BY <1>1, <1>3, <2>1 DEF Fields
<1>4. CASE s /\ ~a /\ m
  <2>1. Ordered(set) \in Seq(Fields) /\ Len(Ordered(set)) = 2 /\ Ordered(set)[1] = "status" /\ Ordered(set)[2] = "milestone"
    BY <1>4 DEF Ordered, One, Fields
  <2>2. QED
    BY <1>1, <1>4, <2>1 DEF Fields
<1>5. CASE s /\ ~a /\ ~m
  <2>1. Ordered(set) \in Seq(Fields) /\ Len(Ordered(set)) = 1 /\ Ordered(set)[1] = "status"
    BY <1>5 DEF Ordered, One, Fields
  <2>2. QED
    BY <1>1, <1>5, <2>1 DEF Fields
<1>6. CASE ~s /\ a /\ m
  <2>1. Ordered(set) \in Seq(Fields) /\ Len(Ordered(set)) = 2 /\ Ordered(set)[1] = "autonomy" /\ Ordered(set)[2] = "milestone"
    BY <1>6 DEF Ordered, One, Fields
  <2>2. QED
    BY <1>1, <1>6, <2>1 DEF Fields
<1>7. CASE ~s /\ a /\ ~m
  <2>1. Ordered(set) \in Seq(Fields) /\ Len(Ordered(set)) = 1 /\ Ordered(set)[1] = "autonomy"
    BY <1>7 DEF Ordered, One, Fields
  <2>2. QED
    BY <1>1, <1>7, <2>1 DEF Fields
<1>8. CASE ~s /\ ~a /\ m
  <2>1. Ordered(set) \in Seq(Fields) /\ Len(Ordered(set)) = 1 /\ Ordered(set)[1] = "milestone"
    BY <1>8 DEF Ordered, One, Fields
  <2>2. QED
    BY <1>1, <1>8, <2>1 DEF Fields
<1>9. CASE ~s /\ ~a /\ ~m
  <2>1. Ordered(set) = << >>
    BY <1>9 DEF Ordered, One, Fields
  <2>2. QED
    BY <1>1, <1>9, <2>1 DEF Fields
<1>10. QED
  BY <1>2, <1>3, <1>4, <1>5, <1>6, <1>7, <1>8, <1>9

\* A row with some of its fields set.
Changed(row, set) == [f \in DOMAIN row |-> IF f \in DOMAIN set THEN set[f] ELSE row[f]]

LEMMA ChangedIs ==
  ASSUME NEW P, NEW row \in TaskRows(P), NEW set, DOMAIN set \subseteq Fields,
         "status" \in DOMAIN set => set["status"] \in TaskStatuses,
         "autonomy" \in DOMAIN set => set["autonomy"] \in Autonomies,
         "milestone" \in DOMAIN set => set["milestone"] \in Milestones
  PROVE  /\ Changed(row, set) \in TaskRows(P)
         /\ Changed(row, set).project = row.project /\ Changed(row, set).deferred = row.deferred
         /\ Changed(row, set).status = IF "status" \in DOMAIN set THEN set["status"] ELSE row.status
         /\ Changed(row, set).autonomy = IF "autonomy" \in DOMAIN set THEN set["autonomy"] ELSE row.autonomy
         /\ Changed(row, set).milestone = IF "milestone" \in DOMAIN set THEN set["milestone"] ELSE row.milestone
<1>1. /\ DOMAIN row = {"project", "status", "autonomy", "deferred", "milestone"}
      /\ row.project \in {NoProject} \union P /\ row.status \in TaskStatuses
      /\ row.autonomy \in Autonomies /\ row.deferred \in {"yes", "no"}
      /\ row.milestone \in {NoMilestone} \union Milestones
  BY DEF TaskRows
<1>2. "project" \notin DOMAIN set /\ "deferred" \notin DOMAIN set
  BY DEF Fields
<1>3. Changed(row, set) =
        [project |-> row.project,
         status |-> IF "status" \in DOMAIN set THEN set["status"] ELSE row.status,
         autonomy |-> IF "autonomy" \in DOMAIN set THEN set["autonomy"] ELSE row.autonomy,
         deferred |-> row.deferred,
         milestone |-> IF "milestone" \in DOMAIN set THEN set["milestone"] ELSE row.milestone]
  BY <1>1, <1>2 DEF Changed
<1>4. QED
  BY <1>1, <1>3 DEF TaskRows

\* What the transaction makes of an update: what was authorised, or nothing.
LEMMA AppliedIs ==
  ASSUME Typed, NEW p \in Procs, NEW m \in Memories, UpdatingHolds(p, m), NEW row \in TaskRows(Projects),
         NEW set, set = Applied(row, m.set)
  PROVE  /\ DOMAIN set \subseteq Fields
         /\ "status" \in DOMAIN set => set["status"] \in TaskStatuses
         /\ "autonomy" \in DOMAIN set =>
              /\ set["autonomy"] \in Autonomies
              /\ p \notin Deciders =>
                   /\ set["autonomy"] # "auto"
                   /\ AutonomyRank[set["autonomy"]] <= AutonomyRank[AutonomyAt(m.task, m.since)]
         /\ "milestone" \in DOMAIN set => set["milestone"] \in Milestones
<1>1. CASE set = m.set
  BY <1>1 DEF UpdatingHolds
<1>2. CASE set = [f \in {} |-> ""]
  <2>1. DOMAIN set = {}
    BY <1>2
  <2>2. QED
    BY <2>1
<1>3. QED
  BY <1>1, <1>2 DEF Applied

LEMMA UpdateTaskKeeps ==
  ASSUME BInv, NEW p \in Procs, UpdateTask(p)
  PROVE  BInv'
<1>1. PICK m : m = mem[p]
  OBVIOUS
<1>2. PICK set : set = Applied(tasks[m.task], m.set)
  OBVIOUS
<1>3. PICK row : row = Changed(tasks[m.task], set)
  OBVIOUS
<1> DEFINE order == Ordered(set)
           new == [i \in DOMAIN order |-> Told(m.task, order[i], set[order[i]], "set", p, m.cmd, m.since)]
<1>4. /\ Return(p) /\ UNCHANGED <<links, evals, milestones, scopes, blind>>
      /\ tasks' = [tasks EXCEPT ![m.task] = row] /\ events' = events \o new
  BY <1>1, <1>2, <1>3 DEF UpdateTask, Changed
<1>5. /\ Typed /\ TablesTyped /\ BoardMatchesTrail /\ Len(events) \in Nat
      /\ m \in Memories /\ Remembered(p, "update", m)
  <2>1. Typed /\ TablesTyped /\ BoardMatchesTrail /\ Len(events) \in Nat
    BY DEF BInv, Typed, TablesTyped
  <2>2. pc[p] = "update"
    BY DEF UpdateTask
  <2>3. mem[p] \in Memories /\ Remembered(p, pc[p], mem[p])
    BY ItsMemory
  <2>4. m \in Memories /\ Remembered(p, "update", m)
    BY <1>1, <2>3, <2>2
  <2>5. QED
    BY <2>1, <2>4
<1>6. /\ UpdatingHolds(p, m) /\ m.task \in Ids /\ m.since \in Nat /\ m.cmd \in Nat
      /\ m.since <= Len(events)
  BY <1>5 DEF Remembered, UpdatingHolds, Memories
<1>7. m.task \in Nat /\ tasks[m.task] \in TaskRows(Projects) /\ tasks \in Seq(TaskRows(Projects))
  BY <1>5, <1>6, IdsAre DEF TablesTyped
<1>8. /\ DOMAIN set \subseteq Fields
      /\ "status" \in DOMAIN set => set["status"] \in TaskStatuses
      /\ "autonomy" \in DOMAIN set =>
           /\ set["autonomy"] \in Autonomies
           /\ p \notin Deciders =>
                /\ set["autonomy"] # "auto"
                /\ AutonomyRank[set["autonomy"]] <= AutonomyRank[AutonomyAt(m.task, m.since)]
      /\ "milestone" \in DOMAIN set => set["milestone"] \in Milestones
  BY <1>2, <1>5, <1>6, <1>7, AppliedIs
<1>9. /\ row \in TaskRows(Projects)
      /\ row.project = tasks[m.task].project /\ row.deferred = tasks[m.task].deferred
      /\ row.status = IF "status" \in DOMAIN set THEN set["status"] ELSE tasks[m.task].status
      /\ row.autonomy = IF "autonomy" \in DOMAIN set THEN set["autonomy"] ELSE tasks[m.task].autonomy
      /\ row.milestone = IF "milestone" \in DOMAIN set THEN set["milestone"] ELSE tasks[m.task].milestone
  BY <1>3, <1>7, <1>8, ChangedIs
<1>10. /\ tasks' \in Seq(TaskRows(Projects)) /\ DOMAIN tasks' = DOMAIN tasks /\ Ids' = Ids
       /\ tasks'[m.task] = row /\ \A u \in Ids : u # m.task => tasks'[u] = tasks[u]
  BY <1>4, <1>6, <1>7, <1>9 DEF Ids
<1>11. /\ order \in Seq(Fields)
       /\ \A j \in DOMAIN order : order[j] \in DOMAIN set
       /\ \A i, j \in DOMAIN order : order[i] = order[j] => i = j
       /\ \A f \in DOMAIN set : \E j \in DOMAIN order : order[j] = f
  BY <1>8, OrderedIs
<1> HIDE DEF order
<1>12. ASSUME NEW j \in DOMAIN order
       PROVE  /\ new[j] \in EventRows /\ new[j].task = m.task /\ new[j].field = order[j]
              /\ new[j].to = set[order[j]] /\ new[j].how = "set" /\ new[j].by = p
              /\ new[j].since = m.since
  <2>1. PICK f : f = order[j]
    OBVIOUS
  <2>2. f \in DOMAIN set /\ f \in Fields
    BY <1>8, <1>11, <2>1
  <2>3. set[f] \in Values /\ f \in FieldNames
    <3>1. f = "status" \/ f = "autonomy" \/ f = "milestone"
      BY <2>2 DEF Fields
    <3>2. QED
      BY <1>8, <2>2, <3>1 DEF Values, FieldNames
  <2>4. mem[p].cited \in Nat /\ m.task \in Nat /\ m.cmd \in Nat /\ m.since \in Nat
    BY <1>5, <1>6, <1>7, CitedIs
  <2>5. PICK v : v = Told(m.task, f, set[f], "set", p, m.cmd, m.since)
    OBVIOUS
  <2>6. /\ v \in EventRows /\ v.task = m.task /\ v.field = f /\ v.to = set[f] /\ v.how = "set"
        /\ v.by = p /\ v.since = m.since
    BY <2>3, <2>4, <2>5 DEF Told, EventRows, FieldNames
  <2>7. new[j] = v
    BY <2>1, <2>5
  <2>8. QED
    BY <2>1, <2>6, <2>7
<1>13. new \in Seq(EventRows) /\ Len(new) = Len(order) /\ DOMAIN order = 1 .. Len(new)
  <2>1. DOMAIN order = 1 .. Len(order) /\ Len(order) \in Nat
    BY <1>11
  <2>2. new \in [1 .. Len(order) -> EventRows]
    <3>1. DOMAIN new = 1 .. Len(order) /\ \A j \in 1 .. Len(order) : new[j] \in EventRows
      BY <1>12, <2>1
    <3>2. QED
      BY <2>1, <3>1
  <2> HIDE DEF new
  <2>3. QED
    BY <2>1, <2>2
<1> HIDE DEF new
<1>14. TablesTyped /\ new \in Seq(EventRows) /\ events' = events \o new
  BY <1>4, <1>5, <1>13
<1>15. /\ events' \in Seq(EventRows)
       /\ \A k \in DOMAIN events' : events'[k].task \in {0} \union Ids' /\ events'[k].since < k
       /\ Len(events) <= Len(events') /\ \A k \in DOMAIN events : events'[k] = events[k]
       /\ \A k \in DOMAIN events' \ DOMAIN events :
            \E j \in 1 .. Len(new) : events'[k] = new[j]
  <2>1. \A j \in 1 .. Len(new) : new[j].task \in {0} \union Ids' /\ new[j].since <= Len(events)
    BY <1>6, <1>10, <1>12, <1>13
  <2>2. Ids \subseteq Ids'
    BY <1>10
  <2>3. QED
    BY <1>14, <2>1, <2>2, EventsLonger
<1>16. TablesTyped'
  BY <1>4, <1>5, <1>10, <1>15 DEF TablesTyped, Projects, scopes
<1>17. BoardMatchesTrail'
  <2>1. \A t, field, start : (\A j \in 1 .. Len(new) : ~Says(new, j, t, field)) =>
          LastSaid(events', t, field, Len(events'), start) = LastSaid(events, t, field, Len(events), start)
    BY <1>14, NowSaid
  <2>2. ASSUME NEW t, NEW field, NEW start
        PROVE  /\ \A j \in 1 .. Len(new) :
                    (Says(new, j, t, field) /\ \A i \in 1 .. Len(new) : Says(new, i, t, field) => i = j)
                      => LastSaid(events', t, field, Len(events'), start) = new[j].to
               /\ (\A j \in 1 .. Len(new) : ~Says(new, j, t, field)) =>
                    LastSaid(events', t, field, Len(events'), start)
                      = LastSaid(events, t, field, Len(events), start)
    <3>1. TablesTyped /\ new \in Seq(EventRows) /\ events' = events \o new
      BY <1>14
    <3>2. QED
      BY ONLY <3>1, NowSaid
  <2>3. ASSUME NEW field \in DOMAIN set, NEW start
        PROVE  LastSaid(events', m.task, field, Len(events'), start) = set[field]
    <3>1. PICK j \in DOMAIN order : order[j] = field
      BY <1>11
    <3>2. Says(new, j, m.task, field)
      BY <1>12, <3>1 DEF Says
    <3>3. \A i \in 1 .. Len(new) : Says(new, i, m.task, field) => i = j
      BY <1>11, <1>12, <1>13, <3>1 DEF Says
    <3>4. j \in 1 .. Len(new)
      BY <1>13
    <3>5. LastSaid(events', m.task, field, Len(events'), start) = new[j].to
      BY <2>2, <3>2, <3>3, <3>4
    <3>6. QED
      BY <1>12, <3>1, <3>5
  <2>4. ASSUME NEW field, field \notin DOMAIN set, NEW start
        PROVE  LastSaid(events', m.task, field, Len(events'), start)
                 = LastSaid(events, m.task, field, Len(events), start)
    <3>1. \A j \in 1 .. Len(new) : ~Says(new, j, m.task, field)
      BY <1>11, <1>12, <1>13, <2>4 DEF Says
    <3>2. QED
      BY <2>1, <3>1
  <2>5. ASSUME NEW u \in DOMAIN tasks'
        PROVE  /\ tasks'[u].status = LastSaid(events', u, "status", Len(events'), "todo")
               /\ tasks'[u].autonomy = LastSaid(events', u, "autonomy", Len(events'), "hotl")
               /\ tasks'[u].milestone = LastSaid(events', u, "milestone", Len(events'), NoMilestone)
               /\ tasks'[u].deferred = LastSaid(events', u, "deferred", Len(events'), "no")
    <3>1. /\ tasks[u].status = LastSaid(events, u, "status", Len(events), "todo")
          /\ tasks[u].autonomy = LastSaid(events, u, "autonomy", Len(events), "hotl")
          /\ tasks[u].milestone = LastSaid(events, u, "milestone", Len(events), NoMilestone)
          /\ tasks[u].deferred = LastSaid(events, u, "deferred", Len(events), "no")
          /\ u \in Ids
      BY <1>5, <1>10, <2>5, TrailMatches DEF Matches, Ids
    <3>2. CASE u = m.task
      <4>1. tasks'[u] = row
        BY <1>10, <3>2
      <4>2. row.status = LastSaid(events', u, "status", Len(events'), "todo")
        BY <1>9, <2>3, <2>4, <3>1, <3>2
      <4>3. row.autonomy = LastSaid(events', u, "autonomy", Len(events'), "hotl")
        BY <1>9, <2>3, <2>4, <3>1, <3>2
      <4>4. row.milestone = LastSaid(events', u, "milestone", Len(events'), NoMilestone)
        BY <1>9, <2>3, <2>4, <3>1, <3>2
      <4>5. row.deferred = LastSaid(events', u, "deferred", Len(events'), "no")
        <5>1. "deferred" \notin DOMAIN set
          BY <1>8 DEF Fields
        <5>2. QED
          BY <1>9, <2>4, <3>1, <3>2, <5>1
      <4>6. QED
        BY <4>1, <4>2, <4>3, <4>4, <4>5
    <3>3. CASE u # m.task
      <4>1. tasks'[u] = tasks[u]
        BY <1>10, <3>1, <3>3
      <4>2. \A field : \A j \in 1 .. Len(new) : ~Says(new, j, u, field)
        BY <1>12, <1>13, <3>3 DEF Says
      <4>3. \A field, start : LastSaid(events', u, field, Len(events'), start)
                                = LastSaid(events, u, field, Len(events), start)
        BY <2>1, <4>2
      <4>4. QED
        BY <3>1, <4>1, <4>3
    <3>4. QED
      BY <3>2, <3>3
  <2>6. QED
    BY <2>5, TrailMatches DEF Matches
<1>18. Grown
  <2>1. \A u \in Ids : tasks'[u].project = tasks[u].project
    BY <1>7, <1>9, <1>10
  <2>2. QED
    BY <1>4, <1>10, <1>15, <2>1 DEF Grown, Projects, scopes
<1>19. ASSUME NEW k \in DOMAIN events' \ DOMAIN events PROVE Given(k)'
  <2>1. PICK j \in DOMAIN order : events'[k] = new[j]
    BY <1>13, <1>15
  <2>2. CASE order[j] # "autonomy"
    BY <1>12, <2>1, <2>2, NoAutonomyGiven
  <2>3. CASE order[j] = "autonomy"
    <3>1. "autonomy" \in DOMAIN set
      BY <1>11, <2>3
    <3>2. PICK t \in Nat, n \in Nat : t = m.task /\ n = m.since
      BY <1>6, <1>7
    <3>3. AutonomyAt(t, n)' = AutonomyAt(t, n)
      BY <1>5, <1>6, <1>16, <1>18, <3>2, GrownTells
    <3>4. /\ events'[k].field = "autonomy" /\ events'[k].to = set["autonomy"]
          /\ events'[k].how = "set" /\ events'[k].by = p
          /\ events'[k].task = t /\ events'[k].since = n
      BY <1>12, <2>1, <2>3, <3>2
    <3>5. p \notin Deciders =>
            /\ set["autonomy"] # "auto"
            /\ AutonomyRank[set["autonomy"]] <= AutonomyRank[AutonomyAt(t, n)]
      BY <1>8, <3>1, <3>2
    <3>6. AutonomyAt(events[k].task, events[k].since)' = AutonomyAt(t, n)
      BY <3>3, <3>4 DEF AutonomyAt, ToldLast
    <3>7. QED
      BY <3>4, <3>5, <3>6 DEF Given
  <2>4. QED
    BY <2>2, <2>3
<1>20. InAnOrder'
  BY <1>4 DEF BInv, InAnOrder
<1>21. QED
  BY <1>4, <1>16, <1>17, <1>18, <1>19, <1>20, LastStep

-----------------------------------------------------------------------------
(* Every behaviour keeps the invariant.                                    *)

LEMMA BoardStarts ==
  ASSUME BoardInit
  PROVE  BInv
<1>1. /\ used \in Families /\ used.tasks \in Nat /\ used.projects \in Seq(ProjectRows)
      /\ used.tasks > 0 => used.projects # <<>>
      /\ \A i, j \in DOMAIN used.projects : used.projects[i].name = used.projects[j].name => i = j
  BY TaskBoardAssumption DEF BoardInit
<1>2. PICK n \in Nat : n = Len(projects)
  BY <1>1 DEF BoardInit
<1>3. /\ projects \in Seq(ProjectRows) /\ Projects = 1 .. n /\ (used.tasks > 0 => n > 0)
      /\ tasks = Population(used.tasks, projects)
  BY <1>1, <1>2 DEF BoardInit, Projects
<1>4. /\ tasks = [i \in 1 .. used.tasks |-> NewTask(1 + (i % n), "hotl")] /\ Ids = 1 .. used.tasks
  BY <1>2, <1>3 DEF Population, Ids
<1>5. ASSUME NEW i \in 1 .. used.tasks
      PROVE  tasks[i] = NewTask(1 + (i % n), "hotl") /\ tasks[i] \in TaskRows(Projects)
  <2>1. 1 + (i % n) \in Projects
    BY <1>1, <1>3
  <2>2. "todo" \in TaskStatuses /\ "hotl" \in Autonomies
    BY DEF TaskStatuses, Autonomies
  <2>3. QED
    BY <1>4, <2>1, <2>2 DEF NewTask, TaskRows
<1>6. tasks \in Seq(TaskRows(Projects))
  <2>1. PICK h \in Nat : h = used.tasks
    BY <1>1
  <2>2. DOMAIN tasks = 1 .. h /\ \A i \in 1 .. h : tasks[i] \in TaskRows(Projects)
    BY <1>4, <1>5, <2>1
  <2>3. tasks = [i \in 1 .. h |-> tasks[i]]
    BY <1>4, <2>1
  <2>4. tasks \in [1 .. h -> TaskRows(Projects)]
    BY <2>2, <2>3
  <2>5. QED
    BY <2>1, <2>4
<1>7. Len(events) = 0 /\ events = <<>> /\ DOMAIN events = {} /\ events \in Seq(EventRows)
  BY DEF BoardInit
<1>8. TablesTyped
  <2>1. evals \in Seq(EvalRows(Ids, Projects)) /\ links \subseteq LinkRows(Ids)
    BY DEF BoardInit
  <2>2. milestones \in [Milestones -> MilestoneStatuses] /\ blind \in BOOLEAN
    BY DEF BoardInit, MilestoneStatuses
  <2>3. markers \in [Dirs -> {NoName} \union Names]
    BY DEF BoardInit
  <2>4. \A i, j \in Projects : projects[i].name = projects[j].name => i = j
    BY <1>1 DEF BoardInit, Projects
  <2>5. QED
    BY <1>3, <1>6, <1>7, <2>1, <2>2, <2>3, <2>4 DEF TablesTyped
<1>9. Typed
  <2>1. pc \in [Procs -> Points] /\ calls \in Nat
    BY DEF BoardInit, Points
  <2>2. mem \in [Procs -> Memories]
    BY IdleIsTyped DEF BoardInit
  <2>3. QED
    BY <1>1, <1>8, <2>1, <2>2 DEF Typed
<1>10. BoardMatchesTrail
  <2>1. \A t, field, start : LastSaid(events, t, field, Len(events), start) = start
    <3>1. ASSUME NEW t, NEW field, NEW start
          PROVE  LastSaid(events, t, field, Len(events), start) = start
      <4>1. 0 \in Nat /\ \A j \in 1 .. 0 : ~Says(events, j, t, field)
        OBVIOUS
      <4>2. LastSaid(events, t, field, 0, start) = start
        BY <4>1, SaidNowhere
      <4>3. QED
        BY <1>7, <4>2
    <3>2. QED
      BY <3>1
  <2>2. \A t \in Ids : /\ tasks[t].status = "todo" /\ tasks[t].autonomy = "hotl"
                       /\ tasks[t].milestone = NoMilestone /\ tasks[t].deferred = "no"
    BY <1>4, <1>5 DEF NewTask
  <2>3. QED
    BY <2>1, <2>2, TrailMatches DEF Matches, Ids
<1>11. InAnOrder
  <2>1. links = {}
    BY DEF BoardInit
  <2>2. Acyclic({})
    BY DEF Acyclic, Precedes
  <2>3. QED
    BY <2>1, <2>2 DEF InAnOrder
<1>12. AllRemembered
  <2>1. ASSUME NEW p \in Procs, NEW at \in Points, NEW m \in Memories, pc[p] = at, mem[p] = m
        PROVE  Remembered(p, at, m)
    <3>1. at = "idle" /\ m = Idle
      BY <2>1 DEF BoardInit
    <3>2. Remembered(p, "idle", Idle)
      BY <1>8, IdleRemembers
    <3>3. QED
      BY <3>1, <3>2
  <2>2. QED
    BY <2>1 DEF AllRemembered
<1>13. AllGiven
  BY <1>7 DEF AllGiven
<1>14. QED
  BY <1>9, <1>10, <1>11, <1>12, <1>13 DEF BInv

LEMMA BoardStutters ==
  ASSUME BInv, UNCHANGED boardVars
  PROVE  BInv'
<1>1. UNCHANGED <<tasks, links, evals, milestones, projects, markers, events, blind, used, calls, pc, mem>>
  BY DEF boardVars, tables, scopes
<1>2. Typed'
  BY <1>1 DEF BInv, Typed, TablesTyped, Ids, Projects
<1>3. BoardMatchesTrail' /\ InAnOrder'
  BY <1>1, SameTrail DEF BInv, InAnOrder
<1>4. Grown
  <2>1. Len(events) \in Nat
    BY DEF BInv, Typed, TablesTyped
  <2>2. QED
    BY <1>1, <2>1 DEF Grown, Ids, Projects
<1>5. AllRemembered'
  <2>1. ASSUME NEW q \in Procs, NEW at \in Points, NEW m \in Memories, pc'[q] = at, mem'[q] = m
        PROVE  Remembered(q, at, m)'
    <3>1. Remembered(q, at, m)
      BY <1>1, <2>1 DEF BInv, AllRemembered
    <3>2. TablesTyped /\ TablesTyped'
      BY <1>2 DEF BInv, Typed
    <3>3. QED
      BY <1>4, <3>1, <3>2, GrownRemembers
  <2>2. QED
    BY <2>1 DEF AllRemembered
<1>6. AllGiven'
  <2>1. ASSUME NEW k \in DOMAIN events' PROVE Given(k)'
    <3>1. k \in DOMAIN events /\ Given(k)
      BY <1>1 DEF BInv, AllGiven
    <3>2. TablesTyped /\ TablesTyped'
      BY <1>2 DEF BInv, Typed
    <3>3. QED
      BY <1>4, <3>1, <3>2, GrownGives
  <2>2. QED
    BY <2>1 DEF AllGiven
<1>7. QED
  BY <1>2, <1>3, <1>5, <1>6 DEF BInv

LEMMA BoardKeeps ==
  ASSUME BInv, [BoardNext]_boardVars
  PROVE  BInv'
<1>1. CASE UNCHANGED boardVars
  BY <1>1, BoardStutters
<1>2. ASSUME NEW p \in Procs, Step(p) PROVE BInv'
  <2>1. CASE StartAdd(p)
    BY <2>1, StartAddKeeps
  <2>2. CASE ReadMarker(p)
    BY <2>2, ReadMarkerKeeps
  <2>3. CASE ReadNamed(p)
    BY <2>3, ReadNamedKeeps
  <2>4. CASE ReadListed(p)
    BY <2>4, ReadListedKeeps
  <2>5. CASE AddTask(p)
    BY <2>5, AddTaskKeeps
  <2>6. CASE Register(p)
    BY <2>6, RegisterKeeps
  <2>7. CASE StartInit(p)
    BY <2>7, StartInitKeeps
  <2>8. CASE StartUse(p)
    BY <2>8, StartUseKeeps
  <2>9. CASE WriteMarker(p)
    BY <2>9, WriteMarkerKeeps
  <2>10. CASE PlaceMarker(p)
    BY <2>10, PlaceMarkerKeeps
  <2>11. CASE StartUpdate(p)
    BY <2>11, StartUpdateKeeps
  <2>12. CASE UpdateTask(p)
    BY <2>12, UpdateTaskKeeps
  <2>13. CASE DeferTask(p)
    BY <2>13, DeferTaskKeeps
  <2>14. CASE UpdateMilestone(p)
    BY <2>14, UpdateMilestoneKeeps
  <2>15. CASE StartLink(p)
    BY <2>15, StartLinkKeeps
  <2>16. CASE AddLink(p)
    BY <2>16, AddLinkKeeps
  <2>17. CASE AddEval(p)
    BY <2>17, AddEvalKeeps
  <2>18. CASE StartPromote(p)
    BY <2>18, StartPromoteKeeps
  <2>19. CASE PromoteAutonomy(p)
    BY <2>19, PromoteAutonomyKeeps
  <2>20. CASE Crash(p)
    BY <2>20, CrashKeeps
  <2>21. QED
    BY <1>2, <2>1, <2>2, <2>3, <2>4, <2>5, <2>6, <2>7, <2>8, <2>9, <2>10, <2>11, <2>12, <2>13,
       <2>14, <2>15, <2>16, <2>17, <2>18, <2>19, <2>20 DEF Step
<1>3. QED
  BY <1>1, <1>2 DEF BoardNext

LEMMA BoardHolds == BoardSpec => []BInv
<1>1. BoardInit => BInv
  BY BoardStarts
<1>2. BInv /\ [BoardNext]_boardVars => BInv'
  BY BoardKeeps
<1>3. QED
  BY <1>1, <1>2, PTL DEF BoardSpec

-----------------------------------------------------------------------------
(* What follows of it.                                                     *)

LEMMA IdsAreFinite ==
  ASSUME Typed
  PROVE  Ids \in SUBSET Nat /\ IsFiniteSet(Ids)
<1>1. PICK n \in Nat : n = Len(tasks) /\ Ids = 1 .. n
  BY DEF Typed, TablesTyped, Ids
<1>2. IsFiniteSet(1 .. n)
  BY FS_Interval
<1>3. QED
  BY <1>1, <1>2

LEMMA BoardIsTyped ==
  ASSUME BInv
  PROVE  BoardTypeOK
<1>1. \A p \in Procs : mem[p].task \in {0} \union Ids
  BY ItsMemory DEF Remembered
<1>2. QED
  BY <1>1 DEF BInv, Typed, TablesTyped, BoardTypeOK, TaskRows, EvalRows, MilestoneStatuses,
     Points

LEMMA NoneWaitsForItself ==
  ASSUME BInv
  PROVE  CycleNeedsARace
<1> SUFFICES ASSUME ~blind, NEW t \in Ids, NEW u,
                    u \in Prerequisites(links, t), u \in Waiting(links, t, Ids)
             PROVE  FALSE
  BY DEF CycleNeedsARace
<1>1. Acyclic(links) /\ links \in SUBSET LinkRows(Ids)
  BY DEF BInv, InAnOrder, Typed, TablesTyped
<1>2. <<u, t>> \in Precedes(links)
  BY DEF Prerequisites, Precedes
<1>3. ~Leads(links, t, u)
  BY <1>1, <1>2 DEF Acyclic
<1>4. u \in Waiting(links, t, Ids) <=> Leads(links, t, u)
  BY <1>1, IdsAreFinite, WaitingIsLedTo DEF BInv
<1>5. QED
  BY <1>3, <1>4

LEMMA StepMoves ==
  ASSUME NEW q \in Procs, Step(q)
  PROVE  \E to : pc' = [pc EXCEPT ![q] = to]
<1>1. ASSUME NEW call, NEW to, NEW m, Start(q, call, to, m) PROVE \E at : pc' = [pc EXCEPT ![q] = at]
  BY <1>1 DEF Start
<1>2. ASSUME NEW to, NEW m, GoOn(q, to, m) PROVE \E at : pc' = [pc EXCEPT ![q] = at]
  BY <1>2 DEF GoOn
<1>3. ASSUME Return(q) PROVE \E at : pc' = [pc EXCEPT ![q] = at]
  BY <1>3 DEF Return
<1>4. CASE StartAdd(q) \/ Register(q) \/ StartInit(q)
  BY <1>1, <1>4 DEF StartAdd, Register, StartInit, AddProject
<1>5. CASE StartUse(q) \/ StartUpdate(q) \/ StartLink(q) \/ StartPromote(q)
  BY <1>1, <1>5 DEF StartUse, StartUpdate, StartLink, StartPromote
<1>6. CASE PlaceMarker(q) \/ DeferTask(q) \/ UpdateMilestone(q) \/ AddEval(q)
  BY <1>1, <1>6 DEF PlaceMarker, DeferTask, UpdateMilestone, AddEval
<1>7. CASE ReadMarker(q) \/ ReadNamed(q) \/ ReadListed(q)
  BY <1>2, <1>7 DEF ReadMarker, ReadNamed, ReadListed
<1>8. CASE AddTask(q) \/ WriteMarker(q) \/ UpdateTask(q) \/ AddLink(q) \/ PromoteAutonomy(q) \/ Crash(q)
  BY <1>3, <1>8 DEF AddTask, WriteMarker, UpdateTask, AddLink, PromoteAutonomy, Crash
<1>9. QED
  BY <1>4, <1>5, <1>6, <1>7, <1>8 DEF Step

\* In a step in which p goes on it is p's step, and a busy p goes on with what it began.
LEMMA ItsOwnStep ==
  ASSUME BInv, NEW p \in Procs, BoardNext, pc'[p] # pc[p], pc[p] # "idle"
  PROVE  \/ ReadMarker(p) \/ ReadNamed(p) \/ ReadListed(p) \/ AddTask(p) \/ WriteMarker(p)
         \/ UpdateTask(p) \/ AddLink(p) \/ PromoteAutonomy(p) \/ Crash(p)
<1>1. PICK q \in Procs : Step(q)
  BY DEF BoardNext
<1>2. PICK to : pc' = [pc EXCEPT ![q] = to]
  BY <1>1, StepMoves
<1>3. q = p
  BY <1>2 DEF BInv, Typed
<1>4. \A call, to_, m : ~Start(p, call, to_, m)
  BY DEF Start
<1>5. ~StartAdd(p) /\ ~Register(p) /\ ~StartInit(p) /\ ~StartUse(p) /\ ~StartUpdate(p)
  BY DEF StartAdd, Register, StartInit, StartUse, StartUpdate
<1>6. ~StartLink(p) /\ ~StartPromote(p) /\ ~PlaceMarker(p) /\ ~DeferTask(p)
      /\ ~UpdateMilestone(p) /\ ~AddEval(p)
  BY <1>4 DEF StartLink, StartPromote, PlaceMarker, DeferTask, UpdateMilestone, AddEval
<1>7. QED
  BY <1>1, <1>3, <1>5, <1>6 DEF Step

LEMMA LevelsWereGiven ==
  ASSUME BInv
  PROVE  LevelsAreGiven
<1>1. \A k \in DOMAIN events : Given(k)
  BY DEF BInv, AllGiven
<1>2. AutoIsEarned
  BY <1>1 DEF Given, SpeaksFor, AutoIsEarned
<1>3. LoosenedByPeople
  BY <1>1 DEF Given, LoosenedByPeople
<1>4. QED
  BY <1>2, <1>3 DEF LevelsAreGiven

LEMMA NothingOrdered ==
  ASSUME NEW set, DOMAIN set = {}
  PROVE  Ordered(set) = <<>>
BY DEF Ordered, One

LEMMA WholeUpdate ==
  ASSUME BInv, BoardNext, NEW p \in Procs, pc[p] = "update", events' # events, pc'[p] = "idle"
  PROVE  /\ \A f \in DOMAIN mem[p].set : tasks'[mem[p].task][f] = mem[p].set[f]
         /\ tasks'[mem[p].task].status \in
              MayBecome(tasks[mem[p].task].status) \union {tasks[mem[p].task].status}
<1>1. UpdateTask(p)
  <2>1. ~ReadMarker(p) /\ ~ReadNamed(p) /\ ~ReadListed(p) /\ ~AddTask(p) /\ ~WriteMarker(p)
    BY DEF ReadMarker, ReadNamed, ReadListed, AddTask, WriteMarker
  <2>2. ~AddLink(p) /\ ~PromoteAutonomy(p) /\ ~Crash(p)
    BY DEF AddLink, PromoteAutonomy, Crash
  <2>3. QED
    BY <2>1, <2>2, ItsOwnStep
<1>2. PICK m : m = mem[p]
  OBVIOUS
<1>3. m \in Memories /\ UpdatingHolds(p, m) /\ m.task \in Ids /\ DOMAIN m.set \subseteq Fields
  <2>1. mem[p] \in Memories /\ Remembered(p, pc[p], mem[p])
    BY ItsMemory
  <2>2. m \in Memories /\ Remembered(p, "update", m)
    BY <1>2, <2>1
  <2>3. QED
    BY <2>2 DEF Remembered, UpdatingHolds
<1>4. PICK row, t : row = tasks[m.task] /\ t = m.task
  OBVIOUS
<1>5. PICK set : set = Applied(row, m.set)
  OBVIOUS
<1>6. /\ tasks' = [tasks EXCEPT ![t] = Changed(row, set)]
      /\ events' = events \o [i \in DOMAIN Ordered(set) |->
           Told(m.task, Ordered(set)[i], set[Ordered(set)[i]], "set", p, m.cmd, m.since)]
  BY <1>1, <1>2, <1>4, <1>5 DEF UpdateTask, Changed
<1>7. /\ events \in Seq(EventRows) /\ tasks \in Seq(TaskRows(Projects)) /\ t \in DOMAIN tasks
      /\ row \in TaskRows(Projects)
  BY <1>3, <1>4 DEF BInv, Typed, TablesTyped, Ids
<1>8. /\ set = m.set
      /\ "status" \in DOMAIN m.set => m.set["status"] \in MayBecome(row.status)
  <2>1. CASE "status" \in DOMAIN m.set /\ m.set["status"] \notin MayBecome(row.status)
    <3>1. DOMAIN set = {}
      BY <1>5, <2>1 DEF Applied
    <3>2. Ordered(set) = <<>>
      BY <3>1, NothingOrdered
    <3>3. \A v : events \o [i \in DOMAIN <<>> |-> v] = events
      BY <1>7
    <3>4. PICK new : /\ new = [i \in DOMAIN Ordered(set) |->
                                 Told(m.task, Ordered(set)[i], set[Ordered(set)[i]], "set", p, m.cmd, m.since)]
                     /\ events' = events \o new
      BY <1>6
    <3>5. new = <<>>
      BY <3>2, <3>4
    <3>6. events' = events
      BY <1>7, <3>4, <3>5
    <3>7. QED
      BY <3>6
  <2>2. CASE ~("status" \in DOMAIN m.set /\ m.set["status"] \notin MayBecome(row.status))
    BY <1>5, <2>2 DEF Applied
  <2>3. QED
    BY <2>1, <2>2
<1>9. tasks'[t] = Changed(row, m.set)
  BY <1>6, <1>7, <1>8
<1>10. DOMAIN row = {"project", "status", "autonomy", "deferred", "milestone"}
  BY <1>7 DEF TaskRows
<1>11. \A f \in DOMAIN m.set : f \in DOMAIN row
  BY <1>3, <1>10 DEF Fields
<1>12. \A f \in DOMAIN m.set : Changed(row, m.set)[f] = m.set[f]
  BY <1>11 DEF Changed
<1>13. Changed(row, m.set).status = IF "status" \in DOMAIN m.set THEN m.set["status"] ELSE row.status
  BY <1>10 DEF Changed
<1>14. Changed(row, m.set).status \in MayBecome(row.status) \union {row.status}
  BY <1>8, <1>13
<1>15. QED
  BY <1>2, <1>4, <1>9, <1>12, <1>14

LEMMA MeantProject ==
  ASSUME BInv, NEW p \in Procs, pc[p] = "insert"
  PROVE  Meant(mem[p])
<1>1. Remembered(p, pc[p], mem[p])
  BY ItsMemory
<1>2. QED
  BY <1>1 DEF Remembered

LEMMA MarkedDirectory ==
  ASSUME BInv, BoardNext, NEW p \in Procs, pc[p] = "write", pc'[p] = "idle", markers' # markers,
         NEW d \in mem[p].at
  PROVE  ResolvedProject(projects', markers', d) = mem[p].project
<1>1. WriteMarker(p)
  <2>1. ~ReadMarker(p) /\ ~ReadNamed(p) /\ ~ReadListed(p) /\ ~AddTask(p) /\ ~UpdateTask(p)
    BY DEF ReadMarker, ReadNamed, ReadListed, AddTask, UpdateTask
  <2>2. ~AddLink(p) /\ ~PromoteAutonomy(p) /\ ~Crash(p)
    BY DEF AddLink, PromoteAutonomy, Crash, tables, scopes
  <2>3. QED
    BY <2>1, <2>2, ItsOwnStep
<1>2. PICK i, at : i = mem[p].project /\ at = mem[p].at
  OBVIOUS
<1>3. i \in Projects /\ (\A x, y \in at : x = y) /\ (\A x \in at : MayMark(projects[i], x)) /\ at \in SUBSET Dirs
  <2>1. mem[p] \in Memories /\ Remembered(p, pc[p], mem[p])
    BY ItsMemory
  <2>2. WritingHolds(mem[p])
    BY <2>1 DEF Remembered
  <2>3. QED
    BY <1>2, <2>1, <2>2 DEF WritingHolds, Memories
<1>4. PICK x \in at : markers' = [markers EXCEPT ![x] = projects[i].name]
  BY <1>1, <1>2 DEF WriteMarker
<1>5. x = d /\ d \in at /\ d \in Dirs
  BY <1>2, <1>3, <1>4
<1>6. /\ markers \in [Dirs -> {NoName} \union Names] /\ projects \in Seq(ProjectRows)
      /\ \A a, b \in DOMAIN projects : projects[a].name = projects[b].name => a = b
      /\ projects' = projects
  BY <1>1 DEF BInv, Typed, TablesTyped, Projects, WriteMarker
<1>7. projects[i].name \in Names
  <2>1. projects[i] \in ProjectRows
    BY <1>3, <1>6 DEF Projects
  <2>2. QED
    BY <2>1 DEF ProjectRows
<1>8. /\ markers' \in [Dirs -> {NoName} \union Names] /\ markers'[d] = projects[i].name
      /\ MayMark(projects[i], d) /\ i \in DOMAIN projects
  BY <1>3, <1>4, <1>5, <1>6, <1>7 DEF Projects
<1>9. ResolvedProject(projects, markers', d) = i
  BY <1>5, <1>6, <1>8, MarkerSpeaks
<1>10. QED
  BY <1>2, <1>6, <1>9

\* However commands of several processes interleave, a task's row is what the
\* last events about it say, and unless two of them linked at once no task
\* waits, through however many others, for itself (task.go, deps.go).
THEOREM BoardIsInOrder == BoardSpec => []BoardInOrder
<1>1. BInv => BoardInOrder
  BY BoardIsTyped, NoneWaitsForItself DEF BInv, BoardInOrder
<1>2. QED
  BY <1>1, BoardHolds, PTL

\* Whatever was done since, and by whom, every auto in the trail was a person's
\* word or earned by the newest eval of its task's own project, and nobody a
\* person's word was asked of loosened a task (eval.go, task.go).
THEOREM LevelsAreGivenAlways == BoardSpec => []LevelsAreGiven
<1>1. BInv => LevelsAreGiven
  BY LevelsWereGiven
<1>2. QED
  BY <1>1, BoardHolds, PTL

\* The fields of one update change together or not at all, whatever changed
\* between what the command read and its transaction (task.go, UpdateTask).
THEOREM UpdatesAreWholeAlways == BoardSpec => UpdatesAreWhole
<1> DEFINE Whole == \A p \in Procs :
             (pc[p] = "update" /\ events' # events /\ pc'[p] = "idle") =>
               LET m == mem[p] IN
               /\ \A f \in DOMAIN m.set : tasks'[m.task][f] = m.set[f]
               /\ tasks'[m.task].status \in MayBecome(tasks[m.task].status) \union {tasks[m.task].status}
<1>1. BInv /\ [BoardNext]_boardVars => [Whole]_boardVars
  BY WholeUpdate
<1>2. QED
  BY <1>1, BoardHolds, PTL DEF BoardSpec, UpdatesAreWhole

\* Wherever a command runs, and whatever is registered and marked meanwhile, what
\* is added lands in a project somebody could have meant, and a marker written
\* speaks for the project it names (project.go, cmd/project.go).
THEOREM DirectoriesMeanProjectsAlways == BoardSpec => DirectoriesMeanProjects
<1>1. BInv /\ BoardNext => TaskWhereItBelongs
  <2> SUFFICES ASSUME BInv, BoardNext PROVE TaskWhereItBelongs
    OBVIOUS
  <2>1. QED
    BY MeantProject DEF Meant, TaskWhereItBelongs
<1>2. BInv /\ BoardNext => FoundHoweverReached
  <2> SUFFICES ASSUME BInv, BoardNext PROVE FoundHoweverReached
    OBVIOUS
  <2>1. QED
    BY MeantProject DEF Meant, FoundHoweverReached
<1>3. BInv /\ BoardNext => MarkerHolds
  BY MarkedDirectory DEF MarkerHolds
<1>4. BInv /\ [BoardNext]_boardVars => [TaskWhereItBelongs /\ FoundHoweverReached /\ MarkerHolds]_boardVars
  BY <1>1, <1>2, <1>3
<1>5. QED
  BY <1>4, BoardHolds, PTL DEF BoardSpec, DirectoriesMeanProjects

=============================================================================
