-------------------------- MODULE AtomicCompletion --------------------------
(***************************************************************************)
(* What completing a task promises, with no process, fingerprint or retry  *)
(* in sight: one task's row and its two append-only logs, every operation  *)
(* one atomic step, and `done` reached only through a gate that holds at   *)
(* that instant, or through an override recorded with it.  The row says    *)
(* when it was written in whole seconds: of its levels alone the gate may  *)
(* be asked as they were earlier in the second they were last written in.  *)
(*                                                                         *)
(* Completion.tla is the detailed specification that implements this one.  *)
(* This one is small enough to check over rich logs, so the properties of  *)
(* the gate's rules themselves are stated here.                            *)
(***************************************************************************)
EXTENDS Gate

CONSTANTS
  Trees,          \* fingerprints the working tree can have
  SameSecond,     \* two writes of a row can fall in one second of its clock
  TaskRisks, TaskAutonomies, RecordKinds, UsedStatuses,   \* the data a model ranges over
  Room(_, _)      \* bound: whether logs of so many checks and approvals may grow

ASSUME DataAssumption == /\ TaskRisks \subseteq Risks
                         /\ TaskAutonomies \subseteq Autonomies
                         /\ RecordKinds \subseteq CheckKinds
                         /\ {"todo", "done"} \subseteq UsedStatuses
                         /\ UsedStatuses \subseteq TaskStatuses
                         /\ Trees \intersect {NoTree, TreeUnavailable} = {}
ASSUME BoundAssumption == /\ SameSecond \in BOOLEAN
                          /\ \A n, m \in 0..9 : Room(n, m) \in BOOLEAN

VARIABLES
  status, risk, autonomy,   \* the task's row
  lately,                   \* the levels it has had in the second it was last written in
  checks, approvals,        \* its rows in the two append-only tables
  roled                     \* its project has a can_approve role

vars == <<status, risk, autonomy, lately, checks, approvals, roled>>

TypeOK ==
  /\ status \in UsedStatuses
  /\ risk \in TaskRisks
  /\ autonomy \in TaskAutonomies
  /\ lately \subseteq TaskRisks \X TaskAutonomies
  /\ checks \in Seq(CheckRecords(Trees))
  /\ approvals \in Seq(ApprovalRecords(Trees))
  /\ roled \in BOOLEAN

Init ==
  /\ status = "todo"
  /\ risk \in TaskRisks
  /\ autonomy \in TaskAutonomies
  /\ lately = {<<risk, autonomy>>}
  /\ checks = <<>>
  /\ approvals = <<>>
  /\ roled = FALSE

-----------------------------------------------------------------------------
(* A runner check is of a runnable kind.  The gate reads who recorded a    *)
(* row only if it was typed, so a runner row has one value of `by`.        *)
Recordable(c) ==
  /\ c.kind \in RecordKinds
  /\ c.source = "runner" => c.kind \in RunnableKinds /\ c.by = "agent"

RecordCheck ==
  /\ Room(Len(checks), Len(approvals))
  /\ \E c \in CheckRecords(Trees) : Recordable(c) /\ checks' = Append(checks, c)
  /\ UNCHANGED <<status, risk, autonomy, lately, approvals, roled>>

\* RecordApproval: a review decision, or an approval of kind override, of which
\* the gate reads nothing and one value stands for all.  A rejection has no tree.
Decidable(a) ==
  /\ a.decision \in {"approved", "rejected"}
  /\ a.tree # TreeUnavailable
  /\ a.decision = "rejected" => a.kind = "code_review" /\ a.tree = NoTree
  /\ a.kind = "override" => a.role = "none" /\ a.tree = NoTree

RecordDecision ==
  /\ Room(Len(checks), Len(approvals))
  /\ \E a \in ApprovalRecords(Trees) : Decidable(a) /\ approvals' = Append(approvals, a)
  /\ UNCHANGED <<status, risk, autonomy, lately, checks, roled>>

\* A write of the row falls in a new second, or in that of the last one.
Touch == \/ lately' = {<<risk', autonomy'>>}
         \/ SameSecond /\ lately' = lately \union {<<risk', autonomy'>>}

SetLevels ==
  /\ \/ risk' \in TaskRisks /\ UNCHANGED autonomy
     \/ autonomy' \in TaskAutonomies /\ UNCHANGED risk
  /\ Touch
  /\ UNCHANGED <<status, checks, approvals, roled>>

SetStatus ==
  /\ \E to \in (UsedStatuses \intersect MayBecome(status)) \ {"done"} : status' = to
  /\ UNCHANGED <<risk, autonomy, checks, approvals, roled>>
  /\ Touch

AddApprovingRole ==
  /\ roled' = TRUE
  /\ UNCHANGED <<status, risk, autonomy, lately, checks, approvals>>

GateHolds(current) == GateOK(risk, autonomy, checks, approvals, roled, current)

\* What the gate answers of levels the row has had in the present second.
HoldsFor(levels, current) == GateOK(levels[1], levels[2], checks, approvals, roled, current)

Complete ==
  /\ "done" \in MayBecome(status)
  /\ \E current \in Trees \union {TreeUnavailable}, levels \in lately : HoldsFor(levels, current)
  /\ status' = "done"
  /\ UNCHANGED <<risk, autonomy, checks, approvals, roled>>
  /\ Touch

\* Mutant: a forced completion writes a decision the column does not know.
OverrideRecord_Forced(current) ==
  [kind |-> "override", decision |-> "forced", role |-> "none", tree |-> current]

OverrideRecord(current) ==
  [kind |-> "override", decision |-> "overridden", role |-> "none", tree |-> current]

Override ==
  /\ "done" \in MayBecome(status)
  /\ Room(Len(checks), Len(approvals))
  /\ \E current \in Trees \union {TreeUnavailable}, levels \in lately :
       /\ ~HoldsFor(levels, current)
       /\ approvals' = Append(approvals, OverrideRecord(current))
  /\ status' = "done"
  /\ UNCHANGED <<risk, autonomy, checks, roled>>
  /\ Touch

Next == \/ RecordCheck \/ RecordDecision \/ SetLevels \/ SetStatus
        \/ AddApprovingRole \/ Complete \/ Override

Spec == Init /\ [][Next]_vars

-----------------------------------------------------------------------------
(* Properties of the rules.                                                *)

Currents == Trees \union {NoTree, TreeUnavailable}

\* A task finished without an override, and at high or critical risk throughout
\* the second its row was last written in, has at that moment, for one and the
\* same tree: a passing test run by acline that no later test row supersedes, no
\* runnable kind whose last row is a hand-typed pass, no kind failing, no scan
\* skipped, no runner pass about other or unknown code, and as last review
\* decision an approval of that code (docs/ARCHITECTURE.md, "The completion
\* gate", rules 1 to 3).
Last(log, i, at) == i \in at /\ \A j \in at : j <= i
HighRiskCompletion ==
  LET finished == status # "done" /\ status' = "done" /\ approvals' = approvals
      last(i)  == Last(checks, i, KindAt(checks, checks[i].kind))
  IN  (finished /\ \A levels \in lately : HighRisk(levels[1])) =>
        \E tree \in Trees :
          /\ \E i \in DOMAIN checks : /\ last(i)
                                      /\ checks[i].kind = "test"
                                      /\ checks[i].status = "pass"
                                      /\ checks[i].source = "runner"
                                      /\ checks[i].tree = tree
          /\ \A i \in DOMAIN checks : last(i) =>
               /\ checks[i].status # "fail"
               /\ checks[i].kind \in {"sast", "sca"} => checks[i].status = "pass"
               /\ (checks[i].status = "pass" /\ checks[i].kind \in RunnableKinds) =>
                    checks[i].source = "runner" /\ checks[i].tree = tree
          /\ \E i \in DOMAIN approvals : /\ Last(approvals, i, ReviewAt(approvals))
                                         /\ approvals[i].decision = "approved"
                                         /\ approvals[i].tree \in {tree, NoTree}
                                         /\ roled => approvals[i].role = "approver"
HighRiskCompletionRules == [][HighRiskCompletion]_vars

\* Raising the risk or tightening the autonomy of a task never opens its gate
\* (task.go, ErrAgentCannotLoosenTask: both are always allowed because of it).
TighteningNeverOpens ==
  \A current \in Currents : \A r \in TaskRisks : \A a \in TaskAutonomies :
    (/\ RiskRank[r] >= RiskRank[risk]
     /\ AutonomyRank[a] <= AutonomyRank[autonomy]
     /\ GateOK(r, a, checks, approvals, roled, current))
      => GateHolds(current)

\* A rejection, a failing result or an approving role added to the project can
\* only make the gate stricter (approval.go, RecordApproval; gate.go,
\* ErrAgentCannotRecordHumanReview): they are open to everyone for that reason.
Stricter == \A current \in Currents : GateHolds(current)' => GateHolds(current)
RefusalsNeverOpen ==
  [][(\/ Len(approvals') > Len(approvals) /\ approvals'[Len(approvals')].decision = "rejected"
      \/ Len(checks') > Len(checks) /\ checks'[Len(checks')].status = "fail"
      \/ roled' # roled) => Stricter]_vars

\* No log that only an agent wrote, and no hand-typed pass of an agent on top
\* of any log, satisfies the gate for a kind acline can run: an agent cannot
\* vouch for its own work (docs/THREAT_MODEL.md, "at any risk an agent's typed
\* pass never counts").
AgentTypedPassNeverOpens ==
  \A current \in Currents : \A k \in RunnableKinds :
    LET at == KindAt(checks, k) IN
    (at # {} /\ Newest(checks, at).status = "pass"
             /\ Newest(checks, at).source = "manual"
             /\ Newest(checks, at).by = "agent") => ~GateHolds(current)

=============================================================================
