-------------------------------- MODULE Gate --------------------------------
(***************************************************************************)
(* The completion gate of internal/store/gate.go: what a task's recorded   *)
(* checks and approvals must show before `acline task done` may finish it. *)
(*                                                                         *)
(* Pure operators, no state.  A log is the sequence of a task's rows of    *)
(* one append-only table in id order, as ListChecks and ListApprovals      *)
(* return it.  Of a blocker only its presence is kept, not its wording,    *)
(* and warnings, which block nothing, are left out.                        *)
(***************************************************************************)
EXTENDS Integers, Sequences

Risks         == {"low", "medium", "high", "critical"}
Autonomies    == {"hitl", "hotl", "auto"}
RiskRank      == [r \in Risks |-> CASE r = "low" -> 0 [] r = "medium" -> 1
                                    [] r = "high" -> 2 [] OTHER -> 3]
AutonomyRank  == [a \in Autonomies |-> CASE a = "hitl" -> 0 [] a = "hotl" -> 1
                                         [] OTHER -> 2]

CheckKinds    == {"test", "sast", "sca", "lint", "human_review", "eval"}
RunnableKinds == {"test", "lint", "sast", "sca"}
CheckStatuses == {"pass", "fail", "skipped"}
CheckSources  == {"runner", "manual"}
ActorTypes    == {"human", "agent"}

\* A tree_hash column that is NULL, and the caller that knows no directory.
NoTree          == "no tree"
\* The directory is known but could not be fingerprinted.
TreeUnavailable == "unavailable"

CheckRecords(trees) ==
  [kind : CheckKinds, status : CheckStatuses, source : CheckSources,
   by : ActorTypes, tree : trees \union {NoTree}]

\* role: what approvalSatisfiesRole can tell of role_id.  NULL and a role that
\* may not approve are one value, "none"; a can_approve role is "approver".
ApprovalRecords(trees) ==
  [kind : {"code_review", "override"}, decision : {"approved", "rejected", "overridden"},
   role : {"none", "approver"}, tree : trees \union {NoTree, TreeUnavailable}]

HighRisk(risk)     == risk \in {"high", "critical"}
TreeKnown(current) == current \notin {NoTree, TreeUnavailable}

-----------------------------------------------------------------------------
(* Reading a log: the newest row of a selection decides.                   *)

\* Mutant: the first row of a kind stands, a later one never supersedes it.
Newest_First(log, at) == log[CHOOSE i \in at : \A j \in at : i <= j]

Newest(log, at) == log[CHOOSE i \in at : \A j \in at : j <= i]

KindAt(checks, kind) == {i \in DOMAIN checks : checks[i].kind = kind}

RunnerAt(checks, kind) == {i \in KindAt(checks, kind) : checks[i].source = "runner"}

ReviewAt(approvals) ==
  {i \in DOMAIN approvals : /\ approvals[i].kind = "code_review"
                            /\ approvals[i].decision \in {"approved", "rejected"}}

\* One row per kind that has any: a repaired run supersedes an earlier failure.
LatestChecks(checks) ==
  {Newest(checks, KindAt(checks, kind)) :
     kind \in {k \in CheckKinds : KindAt(checks, k) # {}}}

-----------------------------------------------------------------------------
(* evaluateChecks, evaluateEvidenceProvenance, evaluateApproval            *)

\* Mutant: one kind that does not fail hides the failing ones.
Failing_All(latest) == latest # {} /\ \A c \in latest : c.status = "fail"

Failing(latest) == \E c \in latest : c.status = "fail"

CheckBlockers(risk, checks) ==
  LET latest == LatestChecks(checks) IN
  {b \in {"no verification", "failing", "all skipped", "scan skipped"} :
     \/ b = "no verification" /\ latest = {}
     \/ b = "failing"         /\ Failing(latest)
     \/ b = "all skipped"     /\ latest # {} /\ \A c \in latest : c.status = "skipped"
     \/ b = "scan skipped"    /\ HighRisk(risk)
                              /\ \E c \in latest : /\ c.kind \in {"sast", "sca"}
                                                   /\ c.status = "skipped"}

\* Mutant: an agent's typed pass is evidence below high risk.
Weightless_HighRiskOnly(risk, c) == c.kind \in RunnableKinds /\ HighRisk(risk)

\* A typed pass that is no evidence: of a kind acline can run, at high risk or
\* typed by an agent.
Weightless(risk, c) == c.kind \in RunnableKinds /\ (HighRisk(risk) \/ c.by = "agent")

ProvenanceBlockers(risk, checks, current) ==
  LET latest     == LatestChecks(checks)
      passes     == {c \in latest : c.status = "pass"}
      ran        == {c \in passes : c.source = "runner"}
      typed      == {c \in passes \ ran : Weightless(risk, c)}
      observed(k) == RunnerAt(checks, k)
      differs(c) == TreeKnown(current) /\ c.tree # NoTree /\ c.tree # current
      unbound(c) == TreeKnown(current) /\ c.tree = NoTree
      testRan    == \E c \in latest : c.kind = "test" /\ c.status # "skipped"
  IN
  {b \in {"typed over failure", "typed pass", "tree unavailable", "acline ran nothing",
          "tests not run", "stale", "unbound"} :
     \/ b = "typed over failure" /\ \E c \in typed : /\ observed(c.kind) # {}
                                                     /\ Newest(checks, observed(c.kind)).status = "fail"
     \/ b = "typed pass"         /\ typed # {}
     \/ /\ HighRisk(risk)
        /\ \/ b = "tree unavailable"   /\ current = TreeUnavailable /\ ran # {}
           \/ b = "acline ran nothing" /\ passes # {} /\ ran = {}
           \/ b = "tests not run"      /\ ran # {} /\ ~testRan
           \/ b = "stale"              /\ \E c \in ran : differs(c)
           \/ b = "unbound"            /\ \E c \in ran : unbound(c)}

\* Mutant: the autonomy levels read the wrong way round.
NeedsPerson_Auto(risk, autonomy) == autonomy = "auto" \/ HighRisk(risk)

NeedsPerson(risk, autonomy) == autonomy = "hitl" \/ HighRisk(risk)

\* The blockers only a person can clear.  roled: the task's project has a
\* can_approve role of its own (hasApprovingRole).
PersonBlockers(risk, autonomy, approvals, roled, current) ==
  LET at       == ReviewAt(approvals)
      approved == at # {} /\ Newest(approvals, at).decision = "approved"
      stale    == LET given == Newest(approvals, at).tree IN
                  approved /\ given # NoTree /\ TreeKnown(current) /\ given # current
  IN
  {b \in {"approval required", "approval stale", "approver role missing"} :
     /\ NeedsPerson(risk, autonomy)
     /\ \/ b = "approval required"     /\ ~approved
        \/ b = "approval stale"        /\ stale
        \/ b = "approver role missing" /\ approved /\ ~stale
                                       /\ roled /\ Newest(approvals, at).role # "approver"}

AgentBlockers(risk, checks, current) ==
  CheckBlockers(risk, checks) \union ProvenanceBlockers(risk, checks, current)

\* GateResult.OK: no blocker of either kind.
GateOK(risk, autonomy, checks, approvals, roled, current) ==
  /\ AgentBlockers(risk, checks, current) = {}
  /\ PersonBlockers(risk, autonomy, approvals, roled, current) = {}

-----------------------------------------------------------------------------
(* taskTransitions of internal/store/transition.go                         *)

TaskStatuses == {"backlog", "todo", "in_progress", "blocked", "review", "done", "cancelled"}

MayBecome(from) ==
  CASE from = "done"      -> {"todo", "in_progress", "blocked", "review"}
    [] from = "cancelled" -> {"backlog", "todo"}
    [] OTHER              -> TaskStatuses

=============================================================================
