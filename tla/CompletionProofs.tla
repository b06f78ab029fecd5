-------------------------- MODULE CompletionProofs --------------------------
(***************************************************************************)
(* Theorems of Completion, for every set of processes, trees and data:     *)
(* its types, who vouches, that it implements AtomicCompletion, and what   *)
(* evidence an unforced completion rests on.                               *)
(***************************************************************************)
EXTENDS Completion, TLAPS

-----------------------------------------------------------------------------
(* Type correctness.                                                       *)

\* A step of one process leaves every other process's memory as it was.
LEMMA GotoFits ==
  ASSUME NEW p \in Procs, NEW from, NEW to, NEW m,
         TypeOK, Goto(p, from, to, m), Fits(to, m)
  PROVE  /\ DOMAIN pc' = Procs /\ DOMAIN mem' = Procs
         /\ \A q \in Procs : Fits(pc'[q], mem'[q])
         /\ calls' \in Nat
BY DEF TypeOK, Goto

LEMMA StartFits ==
  ASSUME NEW p \in Procs, NEW call, NEW to, NEW m,
         TypeOK, Start(p, call, to, m), Fits(to, m)
  PROVE  /\ DOMAIN pc' = Procs /\ DOMAIN mem' = Procs
         /\ \A q \in Procs : Fits(pc'[q], mem'[q])
         /\ calls' \in Nat
BY DEF TypeOK, Start

LEMMA ReturnFits ==
  ASSUME NEW p \in Procs, NEW from, TypeOK, Return(p, from)
  PROVE  /\ DOMAIN pc' = Procs /\ DOMAIN mem' = Procs
         /\ \A q \in Procs : Fits(pc'[q], mem'[q])
         /\ calls' \in Nat
<1>1. Fits("idle", Nothing)
  BY DEF Fits
<1>2. QED
  BY <1>1, GotoFits DEF Return

\* The part of TypeOK about what the processes share.
SharedTypeOK ==
  /\ status \in UsedStatuses
  /\ risk \in TaskRisks
  /\ autonomy \in TaskAutonomies
  /\ stamp \in Nat
  /\ lately \subseteq TaskRisks \X TaskAutonomies /\ <<risk, autonomy>> \in lately
  /\ checks \in Seq(CheckRecords(Trees))
  /\ approvals \in Seq(ApprovalRecords(Trees))
  /\ runs \in Seq(RunRecords)
  /\ vouchers \in Seq(Procs)
  /\ approvers \in Nat
  /\ token \in BOOLEAN
  /\ tree \in Trees

LEMMA ReadingKeepsTypes == SharedTypeOK /\ Reading => SharedTypeOK'
BY DEF SharedTypeOK, Reading, row, logs, env

LEMMA InputsType == TypeOK => Inputs \in InputRecords
BY DEF TypeOK, Inputs, InputRecords

\* What a process holds in each operation.
LEMMA MemOf ==
  ASSUME TypeOK, NEW p \in Procs
  PROVE  /\ pc[p] \in CompletePhases => mem[p] \in CompleteMem
         /\ pc[p] \in CheckPhases => mem[p] \in CheckMem
         /\ pc[p] \in ApprovePhases => mem[p] \in ApproveMem
         /\ pc[p] \in LevelPhases => mem[p] \in LevelMem
BY DEF TypeOK, Fits, CompletePhases, CheckPhases, ApprovePhases, LevelPhases

PrivateTypeOK ==
  /\ DOMAIN pc = Procs /\ DOMAIN mem = Procs
  /\ \A q \in Procs : Fits(pc[q], mem[q])
  /\ calls \in Nat

\* The steps of a completion: each fits its phase.
LEMMA CompleteTypes ==
  ASSUME TypeOK, NEW p \in Procs, Complete(p)
  PROVE  TypeOK'
<1> SUFFICES SharedTypeOK' /\ PrivateTypeOK'
  BY DEF TypeOK, SharedTypeOK, PrivateTypeOK
<1>t. SharedTypeOK
  BY DEF TypeOK, SharedTypeOK
<1>i. Inputs \in InputRecords
  BY InputsType
<1>m. pc[p] \in CompletePhases => mem[p] \in CompleteMem
  BY MemOf
<1> USE DEF PrivateTypeOK
<1>1. CASE StartComplete(p)
  <2> DEFINE m(force, hash) ==
        [op |-> "complete", force |-> force,
         current |-> IF hash = NoTree THEN TreeUnavailable ELSE hash,
         attempt |-> 1, before |-> Inputs, risk |-> risk, autonomy |-> autonomy,
         checks |-> <<>>, approvals |-> <<>>, override |-> FALSE]
  <2>1. PICK force \in BOOLEAN, hash \in Hashes :
          Start(p, "complete", "attempt", m(force, hash))
    BY <1>1 DEF StartComplete
  <2>2. (IF hash = NoTree THEN TreeUnavailable ELSE hash) \in Trees \union {TreeUnavailable}
    BY <1>t DEF Hashes, SharedTypeOK
  <2>3. m(force, hash) \in CompleteMem
    BY <2>2, <1>i, <1>t DEF CompleteMem, SharedTypeOK, MaxAttempts
  <2>4. Fits("attempt", m(force, hash))
    BY <2>3 DEF Fits, CompletePhases
  <2> HIDE DEF m
  <2>5. PrivateTypeOK'
    BY <2>1, <2>4, StartFits
  <2>6. QED
    BY <2>5, <1>1, <1>t, ReadingKeepsTypes DEF StartComplete
<1>2. CASE BeginAttempt(p)
  <2>1. pc[p] = "attempt" => Fits("fingerprint", mem[p])
    BY <1>m DEF Fits, CompletePhases
  <2>2. PrivateTypeOK'
    BY <1>2, <2>1, GotoFits, ReturnFits DEF BeginAttempt, Goto
  <2>3. QED
    BY <2>2, <1>2, <1>t, ReadingKeepsTypes DEF BeginAttempt
<1>3. CASE TakeFingerprint(p)
  <2>1. pc[p] = "fingerprint" => Fits("readTask", [mem[p] EXCEPT !.before = Inputs])
    BY <1>m, <1>i DEF Fits, CompletePhases, CompleteMem
  <2>2. PrivateTypeOK'
    BY <1>3, <2>1, GotoFits DEF TakeFingerprint, Goto
  <2>3. QED
    BY <2>2, <1>3, <1>t, ReadingKeepsTypes DEF TakeFingerprint
<1>4. CASE ReadTask(p)
  <2>1. pc[p] = "readTask" =>
          Fits("readChecks", [mem[p] EXCEPT !.risk = risk, !.autonomy = autonomy])
    BY <1>m, <1>t DEF Fits, CompletePhases, CompleteMem, SharedTypeOK
  <2>2. PrivateTypeOK'
    BY <1>4, <2>1, GotoFits DEF ReadTask, Goto
  <2>3. QED
    BY <2>2, <1>4, <1>t, ReadingKeepsTypes DEF ReadTask
<1>5. CASE ReadChecks(p)
  <2>1. pc[p] = "readChecks" => Fits("readApprovals", [mem[p] EXCEPT !.checks = checks])
    BY <1>m, <1>t DEF Fits, CompletePhases, CompleteMem, SharedTypeOK
  <2>2. PrivateTypeOK'
    BY <1>5, <2>1, GotoFits DEF ReadChecks, Goto
  <2>3. QED
    BY <2>2, <1>5, <1>t, ReadingKeepsTypes DEF ReadChecks
<1>6. CASE ReadApprovals(p)
  <2>1. pc[p] = "readApprovals" => Fits("judge", [mem[p] EXCEPT !.approvals = approvals])
    BY <1>m, <1>t DEF Fits, CompletePhases, CompleteMem, SharedTypeOK
  <2>2. PrivateTypeOK'
    BY <1>6, <2>1, GotoFits DEF ReadApprovals, Goto
  <2>3. QED
    BY <2>2, <1>6, <1>t, ReadingKeepsTypes DEF ReadApprovals
<1>7. CASE Judge(p)
  <2>1. pc[p] = "judge" => /\ Fits("commit", [mem[p] EXCEPT !.override = FALSE])
                           /\ Fits("authorizeOverride", mem[p])
    BY <1>m DEF Fits, CompletePhases, CompleteMem
  <2>2. PrivateTypeOK'
    BY <1>7, <2>1, GotoFits, ReturnFits DEF Judge
  <2>3. QED
    BY <2>2, <1>7, <1>t, ReadingKeepsTypes DEF Judge
<1>8. CASE AuthorizeOverride(p)
  <2>1. pc[p] = "authorizeOverride" => Fits("commit", [mem[p] EXCEPT !.override = TRUE])
    BY <1>m DEF Fits, CompletePhases, CompleteMem
  <2>2. PrivateTypeOK'
    BY <1>8, <2>1, GotoFits, ReturnFits DEF AuthorizeOverride, Goto
  <2>3. QED
    BY <2>2, <1>8, <1>t, ReadingKeepsTypes DEF AuthorizeOverride
<1>9. CASE CommitDone(p)
  <2>1. PrivateTypeOK'
    BY <1>9, ReturnFits DEF CommitDone
  <2>2. mem[p] \in CompleteMem
    BY <1>9, <1>m DEF CommitDone, Return, Goto, CompletePhases
  <2>3. OverrideRecord(mem[p].current) \in ApprovalRecords(Trees)
    BY <2>2 DEF CompleteMem, OverrideRecord, ApprovalRecords
  <2>4. approvals' \in Seq(ApprovalRecords(Trees)) /\ vouchers' \in Seq(Procs)
    <3>1. CASE mem[p].override = TRUE
      <4>1. /\ approvals' = Append(approvals, OverrideRecord(mem[p].current))
            /\ vouchers' = Append(vouchers, p)
        BY <3>1, <1>9 DEF CommitDone
      <4>2. QED
        BY <4>1, <1>t, <2>3 DEF SharedTypeOK
    <3>2. CASE mem[p].override = FALSE
      BY <3>2, <1>9, <1>t DEF CommitDone, SharedTypeOK
    <3>3. QED
      BY <3>1, <3>2, <2>2 DEF CompleteMem
  <2>5. SharedTypeOK'
    BY <1>9, <1>t, <2>4, DataAssumption DEF CommitDone, SharedTypeOK, Touch, env
  <2>6. QED
    BY <2>1, <2>5
<1>10. CASE CommitRefused(p)
  BY <1>10, <1>t, ReturnFits, ReadingKeepsTypes DEF CommitRefused
<1>11. CASE Retry(p)
  <2>0. mem[p] \in CompleteMem
    BY <1>11, <1>m DEF Retry, CompletePhases
  <2>1. mem[p].attempt < MaxAttempts =>
          Fits("attempt", [mem[p] EXCEPT !.attempt = @ + 1, !.override = FALSE])
    <3>1. mem[p].attempt < MaxAttempts => mem[p].attempt + 1 \in 1..MaxAttempts
      BY <2>0 DEF CompleteMem, MaxAttempts
    <3>2. QED
      BY <2>0, <3>1 DEF Fits, CompletePhases, CompleteMem
  <2>2. PrivateTypeOK'
    BY <1>11, <2>1, GotoFits, ReturnFits DEF Retry
  <2>3. QED
    BY <2>2, <1>11, <1>t, ReadingKeepsTypes DEF Retry
<1>12. QED
  BY <1>1, <1>2, <1>3, <1>4, <1>5, <1>6, <1>7, <1>8, <1>9, <1>10, <1>11 DEF Complete

\* Recording checks.
LEMMA VerifyTypes ==
  ASSUME TypeOK, NEW p \in Procs, Verify(p)
  PROVE  TypeOK'
<1> SUFFICES SharedTypeOK' /\ PrivateTypeOK'
  BY DEF TypeOK, SharedTypeOK, PrivateTypeOK
<1>t. SharedTypeOK
  BY DEF TypeOK, SharedTypeOK
<1>m. pc[p] \in CheckPhases => mem[p] \in CheckMem
  BY MemOf
<1>h. Hashes \subseteq Trees \union {NoTree}
  BY <1>t DEF Hashes, SharedTypeOK
<1> USE DEF PrivateTypeOK
<1>1. CASE StartRun(p)
  <2> DEFINE m(kind, adhoc) ==
        [op |-> "check", kind |-> kind, run |-> [tree |-> tree, adhoc |-> adhoc],
         check |-> [kind |-> kind, status |-> "skipped", source |-> "runner",
                    by |-> "agent", tree |-> NoTree]]
  <2>1. PICK kind \in RecordKinds \intersect RunnableKinds, adhoc \in BOOLEAN :
          Start(p, IF adhoc THEN "adhoc" ELSE "run", "running", m(kind, adhoc))
    BY <1>1 DEF StartRun
  <2>2. m(kind, adhoc) \in CheckMem
    BY <1>t, DataAssumption
       DEF CheckMem, SharedTypeOK, RunRecords, CheckRecords, CheckStatuses, CheckSources,
           ActorTypes
  <2>3. Fits("running", m(kind, adhoc))
    BY <2>2 DEF Fits, CheckPhases
  <2> HIDE DEF m
  <2>4. PrivateTypeOK'
    BY <2>1, <2>3, StartFits
  <2>5. QED
    BY <2>4, <1>1, <1>t, ReadingKeepsTypes DEF StartRun
<1>2. CASE FinishRun(p)
  <2> DEFINE m(result, hash) == [mem[p] EXCEPT !.check.status = result, !.check.tree = hash]
  <2>1. PICK result \in RecordStatuses, hash \in Hashes :
          Goto(p, "running", IF mem[p].run.adhoc THEN "authorizeCheck" ELSE "recordCheck",
               m(result, hash))
    BY <1>2 DEF FinishRun
  <2>2. mem[p] \in CheckMem
    BY <2>1, <1>m DEF Goto, CheckPhases
  <2>3. m(result, hash) \in CheckMem
    BY <2>2, <1>h, DataAssumption DEF CheckMem, CheckRecords
  <2>4. \A to \in CheckPhases : Fits(to, m(result, hash))
    BY <2>3 DEF Fits
  <2> HIDE DEF m
  <2>5. PrivateTypeOK'
    BY <2>1, <2>4, GotoFits DEF CheckPhases
  <2>6. QED
    BY <2>5, <1>2, <1>t, ReadingKeepsTypes DEF FinishRun
<1>3. CASE CancelRun(p)
  BY <1>3, <1>t, ReturnFits, ReadingKeepsTypes DEF CancelRun
<1>4. CASE StartType(p)
  <2> DEFINE m(kind, result, hash) ==
        [op |-> "check", kind |-> kind, run |-> [tree |-> tree, adhoc |-> FALSE],
         check |-> [kind |-> kind, status |-> result, source |-> "manual",
                    by |-> ActorType(p), tree |-> hash]]
  <2>1. PICK kind \in RecordKinds, result \in RecordStatuses, hash \in Hashes :
          Start(p, "type",
                IF kind = "human_review" /\ result # "fail" THEN "authorizeCheck"
                                                            ELSE "recordCheck",
                m(kind, result, hash))
    BY <1>4 DEF StartType
  <2>2. m(kind, result, hash) \in CheckMem
    BY <1>t, <1>h, DataAssumption
       DEF CheckMem, SharedTypeOK, RunRecords, CheckRecords, CheckSources, ActorTypes, ActorType
  <2>3. \A to \in CheckPhases : Fits(to, m(kind, result, hash))
    BY <2>2 DEF Fits
  <2> HIDE DEF m
  <2>4. PrivateTypeOK'
    BY <2>1, <2>3, StartFits DEF CheckPhases
  <2>5. QED
    BY <2>4, <1>4, <1>t, ReadingKeepsTypes DEF StartType
<1>5. CASE AuthorizeCheck(p)
  <2>1. pc[p] = "authorizeCheck" => Fits("recordCheck", mem[p])
    BY <1>m DEF Fits, CheckPhases
  <2>2. PrivateTypeOK'
    BY <1>5, <2>1, GotoFits, ReturnFits DEF AuthorizeCheck, Goto
  <2>3. QED
    BY <2>2, <1>5, <1>t, ReadingKeepsTypes DEF AuthorizeCheck
<1>6. CASE RecordCheck(p)
  <2>1. PrivateTypeOK'
    BY <1>6, ReturnFits DEF RecordCheck
  <2>2. mem[p].check \in CheckRecords(Trees) /\ mem[p].run \in RunRecords
    BY <1>6, <1>m DEF RecordCheck, Return, Goto, CheckPhases, CheckMem
  <2>3. SharedTypeOK'
    BY <1>6, <1>t, <2>2 DEF RecordCheck, SharedTypeOK, row, env
  <2>4. QED
    BY <2>1, <2>3
<1>7. QED
  BY <1>1, <1>2, <1>3, <1>4, <1>5, <1>6 DEF Verify

\* Reviewing.
LEMMA ReviewTypes ==
  ASSUME TypeOK, NEW p \in Procs, Review(p)
  PROVE  TypeOK'
<1> SUFFICES SharedTypeOK' /\ PrivateTypeOK'
  BY DEF TypeOK, SharedTypeOK, PrivateTypeOK
<1>t. SharedTypeOK
  BY DEF TypeOK, SharedTypeOK
<1>m. pc[p] \in ApprovePhases => mem[p] \in ApproveMem
  BY MemOf
<1> USE DEF PrivateTypeOK
<1>1. CASE StartApprove(p)
  <2> DEFINE m(role, hash) ==
        [op |-> "approve", approval |-> [kind |-> "code_review", decision |-> "approved",
                                         role |-> role, tree |-> hash]]
  <2>1. PICK role \in {"none", "approver"}, hash \in Hashes :
          Start(p, "approve", "authorizeApproval", m(role, hash))
    BY <1>1 DEF StartApprove
  <2>2. hash \in Trees \union {NoTree}
    BY <1>t DEF Hashes, SharedTypeOK
  <2>3. m(role, hash) \in ApproveMem
    BY <2>2 DEF ApproveMem, ApprovalRecords
  <2>4. Fits("authorizeApproval", m(role, hash))
    BY <2>3 DEF Fits, ApprovePhases
  <2> HIDE DEF m
  <2>5. PrivateTypeOK'
    BY <2>1, <2>4, StartFits
  <2>6. QED
    BY <2>5, <1>1, <1>t, ReadingKeepsTypes DEF StartApprove
<1>2. CASE AuthorizeApproval(p)
  <2>1. pc[p] = "authorizeApproval" => Fits("recordApproval", mem[p])
    BY <1>m DEF Fits, ApprovePhases
  <2>2. PrivateTypeOK'
    BY <1>2, <2>1, GotoFits, ReturnFits DEF AuthorizeApproval, Goto
  <2>3. QED
    BY <2>2, <1>2, <1>t, ReadingKeepsTypes DEF AuthorizeApproval
<1>3. CASE RecordApproval(p)
  <2>1. PrivateTypeOK'
    BY <1>3, ReturnFits DEF RecordApproval
  <2>2. mem[p].approval \in ApprovalRecords(Trees)
    BY <1>3, <1>m DEF RecordApproval, Return, Goto, ApprovePhases, ApproveMem
  <2>3. SharedTypeOK'
    BY <1>3, <1>t, <2>2 DEF RecordApproval, SharedTypeOK, row, env
  <2>4. QED
    BY <2>1, <2>3
<1>4. CASE Reject(p)
  <2>1. Fits("idle", Nothing)
    BY DEF Fits
  <2>2. PrivateTypeOK'
    BY <1>4, <2>1, StartFits DEF Reject
  <2>3. PICK role \in {"none", "approver"} :
          approvals' = Append(approvals, [kind |-> "code_review", decision |-> "rejected",
                                          role |-> role, tree |-> NoTree])
    BY <1>4 DEF Reject
  <2>4. [kind |-> "code_review", decision |-> "rejected", role |-> role, tree |-> NoTree]
          \in ApprovalRecords(Trees)
    BY DEF ApprovalRecords
  <2>5. SharedTypeOK'
    BY <1>4, <1>t, <2>3, <2>4 DEF Reject, SharedTypeOK, row, env
  <2>6. QED
    BY <2>2, <2>5
<1>5. QED
  BY <1>1, <1>2, <1>3, <1>4 DEF Review

\* Changing the row.
LEMMA ChangeTypes ==
  ASSUME TypeOK, NEW p \in Procs, Change(p)
  PROVE  TypeOK'
<1> SUFFICES SharedTypeOK' /\ PrivateTypeOK'
  BY DEF TypeOK, SharedTypeOK, PrivateTypeOK
<1>t. SharedTypeOK
  BY DEF TypeOK, SharedTypeOK
<1>m. pc[p] \in LevelPhases => mem[p] \in LevelMem
  BY MemOf
<1> USE DEF PrivateTypeOK
<1>1. CASE StartLevel(p)
  <2> DEFINE m(column, to) == [op |-> "level", column |-> column, to |-> to]
  <2>1. PICK column \in {"risk", "autonomy"} :
          \E to \in (IF column = "risk" THEN TaskRisks \ {risk} ELSE TaskAutonomies \ {autonomy}) :
            Start(p, "level", IF Loosens(column, to) THEN "authorizeLevel" ELSE "writeLevel",
                  m(column, to))
    BY <1>1 DEF StartLevel
  <2>2. PICK to \in (IF column = "risk" THEN TaskRisks \ {risk} ELSE TaskAutonomies \ {autonomy}) :
            Start(p, "level", IF Loosens(column, to) THEN "authorizeLevel" ELSE "writeLevel",
                  m(column, to))
    BY <2>1
  <2>3. m(column, to) \in LevelMem
    BY <2>2 DEF LevelMem
  <2>4. \A at \in LevelPhases : Fits(at, m(column, to))
    BY <2>3 DEF Fits
  <2> HIDE DEF m
  <2>5. PrivateTypeOK'
    BY <2>2, <2>4, StartFits DEF LevelPhases
  <2>6. QED
    BY <2>5, <1>1, <1>t, ReadingKeepsTypes DEF StartLevel
<1>2. CASE AuthorizeLevel(p)
  <2>1. pc[p] = "authorizeLevel" => Fits("writeLevel", mem[p])
    BY <1>m DEF Fits, LevelPhases
  <2>2. PrivateTypeOK'
    BY <1>2, <2>1, GotoFits, ReturnFits DEF AuthorizeLevel, Goto
  <2>3. QED
    BY <2>2, <1>2, <1>t, ReadingKeepsTypes DEF AuthorizeLevel
<1>3. CASE WriteLevel(p)
  <2>1. PrivateTypeOK'
    BY <1>3, ReturnFits DEF WriteLevel
  <2>2. mem[p] \in LevelMem
    BY <1>3, <1>m DEF WriteLevel, Return, Goto, LevelPhases
  <2>3. SharedTypeOK'
    BY <1>3, <1>t, <2>2 DEF WriteLevel, SharedTypeOK, Touch, LevelMem, logs, env
  <2>4. QED
    BY <2>1, <2>3
<1>4. CASE SetStatus(p)
  <2>1. Fits("idle", Nothing)
    BY DEF Fits
  <2>2. PrivateTypeOK'
    BY <1>4, <2>1, StartFits DEF SetStatus
  <2>3. SharedTypeOK'
    BY <1>4, <1>t DEF SetStatus, Touch, SharedTypeOK, logs, env
  <2>4. QED
    BY <2>2, <2>3
<1>5. QED
  BY <1>1, <1>2, <1>3, <1>4 DEF Change

THEOREM TypeCorrect == Spec => []TypeOK
<1>1. Init => TypeOK
  BY DataAssumption DEF Init, TypeOK, Fits
<1>2. TypeOK /\ [Next]_vars => TypeOK'
  <2> SUFFICES ASSUME TypeOK, [Next]_vars PROVE TypeOK'
    OBVIOUS
  <2>1. CASE UNCHANGED vars
    BY <2>1 DEF TypeOK, vars, row, logs, env
  <2>2. CASE EditTree \/ AddApprovingRole \/ ToggleToken
    <3>1. CASE EditTree \/ AddApprovingRole
      <4>1. UNCHANGED <<row, logs, token, pc, mem>>
        BY <3>1 DEF EditTree, AddApprovingRole
      <4>2. tree' \in Trees /\ approvers' \in Nat /\ calls' \in Nat
        BY <3>1 DEF EditTree, AddApprovingRole, TypeOK
      <4>3. QED
        BY <4>1, <4>2 DEF TypeOK, row, logs
    <3>2. CASE ToggleToken
      <4>1. token' \in BOOLEAN
        BY <3>2 DEF ToggleToken
      <4>2. QED
        BY <3>2, <4>1 DEF TypeOK, ToggleToken, row, logs
    <3>3. QED
      BY <2>2, <3>1, <3>2
  <2>3. CASE Rest
    BY <2>1, <2>3 DEF Rest
  <2>4. ASSUME NEW p \in Procs, Step(p) PROVE TypeOK'
    <3>1. CASE Crash(p)
      <4>1. SharedTypeOK'
        BY <3>1, ReadingKeepsTypes DEF Crash, TypeOK, SharedTypeOK
      <4>2. PrivateTypeOK'
        BY <3>1, ReturnFits DEF Crash, PrivateTypeOK
      <4>3. QED
        BY <4>1, <4>2 DEF TypeOK, SharedTypeOK, PrivateTypeOK
    <3>2. QED
      BY <2>4, <3>1, CompleteTypes, VerifyTypes, ReviewTypes, ChangeTypes DEF Step
  <2>5. QED
    BY <2>1, <2>2, <2>3, <2>4 DEF Next
<1>3. QED
  BY <1>1, <1>2, PTL DEF Spec

-----------------------------------------------------------------------------
(* Only people vouch.  Authorization is a step of its own, and the token    *)
(* may be enabled or disabled before the write it allows: what the write    *)
(* relies on is that the process is one that could be authorized at all.    *)

LEMMA AuthorizedPerson == \A p \in Procs : Authorized(p) => Person(p)
BY DEF Authorized, Person

WillVouch(to, m) == to = "recordApproval" \/ (to = "commit" /\ m.override)

\* A step that moves one process and writes no approval.
LEMMA GotoVouch ==
  ASSUME TypeOK, VouchInv, NEW p \in Procs, NEW from, NEW to, NEW m,
         Goto(p, from, to, m), WillVouch(to, m) => Person(p)
  PROVE  \A q \in Procs : MayVouch(q)' => Person(q)
BY DEF TypeOK, VouchInv, Goto, WillVouch, MayVouch

LEMMA ReadingVouch ==
  ASSUME TypeOK, VouchInv, NEW p \in Procs, NEW from, NEW to, NEW m,
         Goto(p, from, to, m), WillVouch(to, m) => Person(p),
         UNCHANGED <<approvals, vouchers>>
  PROVE  VouchInv'
<1>1. \A q \in Procs : MayVouch(q)' => Person(q)
  BY GotoVouch
<1>2. QED
  BY <1>1 DEF VouchInv, OnlyPeopleVouch, Person

LEMMA StartVouch ==
  ASSUME TypeOK, VouchInv, NEW p \in Procs, NEW call, NEW to, NEW m,
         Start(p, call, to, m), ~WillVouch(to, m),
         UNCHANGED <<approvals, vouchers>>
  PROVE  VouchInv'
<1>1. \A q \in Procs : MayVouch(q)' => Person(q)
  BY DEF TypeOK, VouchInv, Start, WillVouch, MayVouch
<1>2. QED
  BY <1>1 DEF VouchInv, OnlyPeopleVouch, Person

\* A step that appends a decision of p, who is a person unless it is a rejection.
LEMMA AppendVouch ==
  ASSUME TypeOK, VouchInv, NEW p \in Procs, NEW a,
         a.decision \in {"approved", "overridden"} => Person(p),
         approvals' = Append(approvals, a), vouchers' = Append(vouchers, p)
  PROVE  Len(vouchers') = Len(approvals') /\ OnlyPeopleVouch'
<1>1. /\ approvals \in Seq(ApprovalRecords(Trees)) /\ vouchers \in Seq(Procs)
      /\ Len(vouchers) = Len(approvals)
  BY DEF TypeOK, VouchInv
<1>2. Len(vouchers') = Len(approvals')
  BY <1>1
<1>3. ASSUME NEW i \in DOMAIN approvals', approvals'[i].decision \in {"approved", "overridden"}
      PROVE  Person(vouchers'[i])
  <2>1. CASE i = Len(approvals) + 1
    <3>1. vouchers'[i] = p
      BY <1>1, <2>1
    <3>2. approvals'[i] = a
      BY <1>1, <2>1
    <3>3. QED
      BY <3>1, <3>2, <1>3
  <2>2. CASE i \in DOMAIN approvals
    <3>1. approvals'[i] = approvals[i] /\ vouchers'[i] = vouchers[i]
      BY <1>1, <2>2
    <3>2. QED
      BY <3>1, <2>2, <1>3 DEF VouchInv, OnlyPeopleVouch
  <2>3. QED
    BY <1>1, <2>1, <2>2
<1>4. QED
  BY <1>2, <1>3 DEF OnlyPeopleVouch, Person

THEOREM PeopleVouch == Spec => []OnlyPeopleVouch
<1>1. Init => VouchInv
  BY DEF Init, VouchInv, OnlyPeopleVouch, MayVouch
<1>2. TypeOK /\ VouchInv /\ [Next]_vars => VouchInv'
  <2> SUFFICES ASSUME TypeOK, VouchInv, [Next]_vars PROVE VouchInv'
    OBVIOUS
  <2>1. CASE UNCHANGED vars \/ Rest
    BY <2>1 DEF VouchInv, OnlyPeopleVouch, MayVouch, Person, Rest, vars, logs
  <2>2. CASE EditTree \/ AddApprovingRole \/ ToggleToken
    BY <2>2 DEF VouchInv, OnlyPeopleVouch, MayVouch, Person, EditTree, AddApprovingRole,
                ToggleToken, logs
  <2>3. ASSUME NEW p \in Procs, Complete(p) PROVE VouchInv'
    <3>m. pc[p] \in CompletePhases => mem[p] \in CompleteMem
      BY MemOf
    <3>1. CASE StartComplete(p)
      BY <3>1, StartVouch DEF StartComplete, WillVouch, Reading, logs
    <3>2. CASE BeginAttempt(p) \/ TakeFingerprint(p) \/ ReadTask(p) \/ ReadChecks(p)
               \/ ReadApprovals(p)
      BY <3>2, ReadingVouch DEF BeginAttempt, TakeFingerprint, ReadTask, ReadChecks,
                                ReadApprovals, Return, WillVouch, Reading, logs
    <3>3. CASE Judge(p)
      <4>1. ~WillVouch("commit", [mem[p] EXCEPT !.override = FALSE])
        BY <3>3, <3>m DEF Judge, CompletePhases, CompleteMem, WillVouch
      <4>2. QED
        BY <3>3, <4>1, ReadingVouch DEF Judge, Return, WillVouch, Reading, logs
    <3>4. CASE AuthorizeOverride(p)
      BY <3>4, ReadingVouch, AuthorizedPerson
         DEF AuthorizeOverride, Return, WillVouch, Reading, logs
    <3>5. CASE CommitDone(p)
      <4>0. mem[p].override \in BOOLEAN /\ pc[p] = "commit"
        BY <3>5, <3>m DEF CommitDone, Return, Goto, CompletePhases, CompleteMem
      <4>1. CASE mem[p].override = TRUE
        <5>1. Person(p)
          BY <4>0, <4>1 DEF VouchInv, MayVouch
        <5>2. Len(vouchers') = Len(approvals') /\ OnlyPeopleVouch'
          BY <3>5, <4>1, <5>1, AppendVouch DEF CommitDone
        <5>3. \A q \in Procs : MayVouch(q)' => Person(q)
          BY <3>5, GotoVouch DEF CommitDone, Return, WillVouch
        <5>4. QED
          BY <5>2, <5>3 DEF VouchInv, Person
      <4>2. CASE mem[p].override = FALSE
        BY <3>5, <4>2, ReadingVouch DEF CommitDone, Return, WillVouch
      <4>3. QED
        BY <4>0, <4>1, <4>2
    <3>6. CASE CommitRefused(p)
      BY <3>6, ReadingVouch DEF CommitRefused, Return, WillVouch, Reading, logs
    <3>7. CASE Retry(p)
      BY <3>7, ReadingVouch DEF Retry, Return, WillVouch, Reading, logs
    <3>8. QED
      BY <2>3, <3>1, <3>2, <3>3, <3>4, <3>5, <3>6, <3>7 DEF Complete
  <2>4. ASSUME NEW p \in Procs, Verify(p) PROVE VouchInv'
    <3>1. CASE StartRun(p) \/ StartType(p)
      <4>1. CASE StartRun(p)
        BY <4>1, StartVouch DEF StartRun, WillVouch, Reading, logs
      <4>2. CASE StartType(p)
        BY <4>2, StartVouch DEF StartType, WillVouch, Reading, logs
      <4>3. QED
        BY <3>1, <4>1, <4>2
    <3>2. CASE FinishRun(p) \/ CancelRun(p) \/ AuthorizeCheck(p) \/ RecordCheck(p)
      BY <3>2, ReadingVouch DEF FinishRun, CancelRun, AuthorizeCheck, RecordCheck, Return,
                                WillVouch, Reading, logs
    <3>3. QED
      BY <2>4, <3>1, <3>2 DEF Verify
  <2>5. ASSUME NEW p \in Procs, Review(p) PROVE VouchInv'
    <3>1. CASE StartApprove(p)
      BY <3>1, StartVouch DEF StartApprove, WillVouch, Reading, logs
    <3>2. CASE AuthorizeApproval(p)
      BY <3>2, ReadingVouch, AuthorizedPerson
         DEF AuthorizeApproval, MayApprove, Return, WillVouch, Reading, logs
    <3>3. CASE RecordApproval(p)
      <4>1. Person(p)
        BY <3>3 DEF RecordApproval, Return, Goto, VouchInv, MayVouch
      <4>2. Len(vouchers') = Len(approvals') /\ OnlyPeopleVouch'
        BY <3>3, <4>1, AppendVouch DEF RecordApproval
      <4>3. \A q \in Procs : MayVouch(q)' => Person(q)
        BY <3>3, GotoVouch DEF RecordApproval, Return, WillVouch
      <4>4. QED
        BY <4>2, <4>3 DEF VouchInv, Person
    <3>4. CASE Reject(p)
      <4>1. Len(vouchers') = Len(approvals') /\ OnlyPeopleVouch'
        BY <3>4, AppendVouch DEF Reject
      <4>2. \A q \in Procs : MayVouch(q)' => Person(q)
        BY <3>4 DEF Reject, Start, TypeOK, VouchInv, MayVouch
      <4>3. QED
        BY <4>1, <4>2 DEF VouchInv, Person
    <3>5. QED
      BY <2>5, <3>1, <3>2, <3>3, <3>4 DEF Review
  <2>6. ASSUME NEW p \in Procs, Change(p) PROVE VouchInv'
    <3>1. CASE StartLevel(p)
      BY <3>1, StartVouch DEF StartLevel, WillVouch, Reading, logs
    <3>2. CASE AuthorizeLevel(p) \/ WriteLevel(p)
      BY <3>2, ReadingVouch DEF AuthorizeLevel, WriteLevel, Return, WillVouch, Reading, logs
    <3>3. CASE SetStatus(p)
      BY <3>3, StartVouch DEF SetStatus, WillVouch, logs
    <3>4. QED
      BY <2>6, <3>1, <3>2, <3>3 DEF Change
  <2>7. ASSUME NEW p \in Procs, Crash(p) PROVE VouchInv'
    BY <2>7, ReadingVouch DEF Crash, Return, WillVouch, Reading, logs
  <2>8. QED
    BY <2>1, <2>2, <2>3, <2>4, <2>5, <2>6, <2>7 DEF Next, Step
<1>3. VouchInv => OnlyPeopleVouch
  BY DEF VouchInv
<1>4. QED
  BY <1>1, <1>2, <1>3, TypeCorrect, PTL DEF Spec

-----------------------------------------------------------------------------
(* The inputs of a gate only grow.                                         *)

Grow(i, j) ==
  /\ i.checks <= j.checks /\ i.approvals <= j.approvals
  /\ i.stamp <= j.stamp /\ i.approvers <= j.approvers

\* A log that kept its length kept its contents, and while the row keeps its
\* stamp no levels it has had under it are forgotten.
Grown ==
  /\ Grow(Inputs, Inputs')
  /\ stamp = stamp' => lately \subseteq lately'
  /\ Len(checks) = Len(checks') => checks' = checks
  /\ Len(approvals) = Len(approvals') => approvals' = approvals

LEMMA GrownTouch ==
  ASSUME TypeOK, Touch, UNCHANGED <<checks, approvals, approvers>>, TypeOK'
  PROVE  Grown
<1>1. stamp \in Nat /\ stamp' \in Nat /\ Len(checks) \in Nat /\ Len(approvals) \in Nat
      /\ approvers \in Nat
  BY DEF TypeOK
<1>2. stamp <= stamp' /\ (stamp' = stamp => lately \subseteq lately')
  BY <1>1 DEF Touch
<1>3. QED
  BY <1>1, <1>2 DEF Grown, Grow, Inputs

LEMMA GrownSame ==
  ASSUME TypeOK, UNCHANGED <<row, checks, approvals, approvers>>
  PROVE  Grown
<1>1. stamp \in Nat /\ Len(checks) \in Nat /\ Len(approvals) \in Nat /\ approvers \in Nat
  BY DEF TypeOK
<1>2. QED
  BY <1>1 DEF Grown, Grow, Inputs, row

LEMMA NextGrows == TypeOK /\ [Next]_vars /\ TypeOK' => Grown
<1> SUFFICES ASSUME TypeOK, TypeOK', [Next]_vars PROVE Grown
  OBVIOUS
<1>t. stamp \in Nat /\ Len(checks) \in Nat /\ Len(approvals) \in Nat /\ approvers \in Nat
  BY DEF TypeOK
<1>s. checks \in Seq(CheckRecords(Trees)) /\ approvals \in Seq(ApprovalRecords(Trees))
  BY DEF TypeOK
<1>1. CASE UNCHANGED vars \/ Rest \/ EditTree \/ ToggleToken
  BY <1>1, GrownSame DEF vars, row, logs, env, Rest, EditTree, ToggleToken
<1>2. CASE AddApprovingRole
  BY <1>2, <1>t DEF AddApprovingRole, Grown, Grow, Inputs, row, logs
<1>3. ASSUME Reading PROVE Grown
  BY <1>3, GrownSame DEF Reading, row, logs, env
<1>4. ASSUME NEW p \in Procs, Complete(p) PROVE Grown
  <2>1. CASE CommitDone(p)
    <3>1. stamp' \in Nat /\ stamp <= stamp' /\ (stamp' = stamp => lately \subseteq lately')
      BY <2>1, <1>t DEF CommitDone, Touch
    <3>2. approvals' = approvals
          \/ Len(approvals') = Len(approvals) + 1
      BY <2>1, <1>s DEF CommitDone
    <3>3. checks' = checks /\ approvers' = approvers
      BY <2>1 DEF CommitDone, env
    <3>4. QED
      BY <3>1, <3>2, <3>3, <1>t DEF Grown, Grow, Inputs
  <2>2. QED
    BY <1>3, <1>4, <2>1 DEF Complete, StartComplete, BeginAttempt, TakeFingerprint, ReadTask,
       ReadChecks, ReadApprovals, Judge, AuthorizeOverride, CommitRefused, Retry
<1>5. ASSUME NEW p \in Procs, Verify(p) PROVE Grown
  <2>1. CASE RecordCheck(p)
    <3>1. Len(checks') = Len(checks) + 1
      BY <2>1, <1>s DEF RecordCheck
    <3>2. UNCHANGED <<status, risk, autonomy, stamp, lately, approvals, approvers>>
      BY <2>1 DEF RecordCheck, row, env
    <3>3. QED
      BY <3>1, <3>2, <1>t DEF Grown, Grow, Inputs
  <2>2. QED
    BY <1>3, <1>5, <2>1 DEF Verify, StartRun, FinishRun, CancelRun, StartType, AuthorizeCheck
<1>6. ASSUME NEW p \in Procs, Review(p) PROVE Grown
  <2>1. CASE RecordApproval(p) \/ Reject(p)
    <3>1. Len(approvals') = Len(approvals) + 1
      BY <2>1, <1>s DEF RecordApproval, Reject
    <3>2. UNCHANGED <<status, risk, autonomy, stamp, lately, checks, approvers>>
      BY <2>1 DEF RecordApproval, Reject, row, env
    <3>3. QED
      BY <3>1, <3>2, <1>t DEF Grown, Grow, Inputs
  <2>2. QED
    BY <1>3, <1>6, <2>1 DEF Review, StartApprove, AuthorizeApproval
<1>7. ASSUME NEW p \in Procs, Change(p) PROVE Grown
  <2>1. CASE WriteLevel(p) \/ SetStatus(p)
    BY <2>1, GrownTouch DEF WriteLevel, SetStatus, logs, env
  <2>2. QED
    BY <1>3, <1>7, <2>1 DEF Change, StartLevel, AuthorizeLevel
<1>8. ASSUME NEW p \in Procs, Crash(p) PROVE Grown
  BY <1>8, <1>3 DEF Crash
<1>9. QED
  BY <1>1, <1>2, <1>4, <1>5, <1>6, <1>7, <1>8 DEF Next, Step

-----------------------------------------------------------------------------
(* What a process knows stays true while it does not move.                 *)

LEMMA KnowsGrows ==
  ASSUME NEW at, NEW m \in CompleteMem, NEW i \in InputRecords, NEW j \in InputRecords,
         NEW had, NEW cs, NEW as, NEW had2, NEW cs2, NEW as2,
         Knows(at, m, i, had, cs, as), Grow(i, j),
         i.stamp = j.stamp => had \subseteq had2,
         i.checks = j.checks => cs2 = cs,
         i.approvals = j.approvals => as2 = as
  PROVE  Knows(at, m, j, had2, cs2, as2)
<1> DEFINE b == m.before
<1>1. b \in InputRecords
  BY DEF CompleteMem
<1>2. /\ b.checks \in Nat /\ b.approvals \in Nat /\ b.stamp \in Nat /\ b.approvers \in Nat
      /\ i.checks \in Nat /\ i.approvals \in Nat /\ i.stamp \in Nat /\ i.approvers \in Nat
      /\ j.checks \in Nat /\ j.approvals \in Nat /\ j.stamp \in Nat /\ j.approvers \in Nat
  BY <1>1 DEF InputRecords
<1>3. /\ b.checks = j.checks => i.checks = j.checks /\ b.checks = i.checks
      /\ b.approvals = j.approvals => i.approvals = j.approvals /\ b.approvals = i.approvals
      /\ b.stamp = j.stamp => i.stamp = j.stamp /\ b.stamp = i.stamp
      /\ b.approvers = j.approvers => i.approvers = j.approvers /\ b.approvers = i.approvers
  BY <1>2 DEF Knows, Grow
<1>4. /\ b.checks <= j.checks /\ b.approvals <= j.approvals
      /\ b.stamp <= j.stamp /\ b.approvers <= j.approvers
  BY <1>2 DEF Knows, Grow
<1>5. QED
  BY <1>3, <1>4 DEF Knows, Grow

\* The other processes know what they knew, so a step is about the one it moves.
LEMMA OneMoves ==
  ASSUME TypeOK, TypeOK', FingerprintInv, Grown, NEW p \in Procs,
         \A q \in Procs \ {p} : pc'[q] = pc[q] /\ mem'[q] = mem[q],
         pc'[p] \in Fingerprinted =>
           Knows(pc'[p], mem'[p], Inputs', lately', checks', approvals')
  PROVE  FingerprintInv'
<1> SUFFICES ASSUME NEW q \in Procs, pc'[q] \in Fingerprinted
             PROVE  Knows(pc'[q], mem'[q], Inputs', lately', checks', approvals')
  BY DEF FingerprintInv
<1>1. CASE q = p
  BY <1>1
<1>2. CASE q # p
  <2>1. pc'[q] = pc[q] /\ mem'[q] = mem[q]
    BY <1>2
  <2>2. mem[q] \in CompleteMem
    BY <2>1, MemOf DEF Fingerprinted
  <2>3. Inputs \in InputRecords
    BY InputsType
  <2>4. Inputs' \in InputRecords
    BY DEF TypeOK, Inputs, InputRecords
  <2>5. Knows(pc[q], mem[q], Inputs, lately, checks, approvals)
    BY <2>1 DEF FingerprintInv
  <2>6. /\ Grow(Inputs, Inputs')
        /\ Inputs.stamp = Inputs'.stamp => lately \subseteq lately'
        /\ Inputs.checks = Inputs'.checks => checks' = checks
        /\ Inputs.approvals = Inputs'.approvals => approvals' = approvals
    BY DEF Grown, Inputs
  <2>7. Knows(pc[q], mem[q], Inputs', lately', checks', approvals')
    BY <2>2, <2>3, <2>4, <2>5, <2>6, KnowsGrows
  <2>8. QED
    BY <2>1, <2>7
<1>3. QED
  BY <1>1, <1>2

LEMMA GotoKnows ==
  ASSUME TypeOK, TypeOK', FingerprintInv, Grown, NEW p \in Procs, NEW from, NEW to, NEW m,
         Goto(p, from, to, m),
         to \in Fingerprinted => Knows(to, m, Inputs', lately', checks', approvals')
  PROVE  FingerprintInv'
<1>1. /\ pc'[p] = to /\ mem'[p] = m
      /\ \A q \in Procs \ {p} : pc'[q] = pc[q] /\ mem'[q] = mem[q]
  BY DEF Goto, TypeOK
<1>2. QED
  BY <1>1, OneMoves

LEMMA StartKnows ==
  ASSUME TypeOK, TypeOK', FingerprintInv, Grown, NEW p \in Procs, NEW call, NEW to, NEW m,
         Start(p, call, to, m), to \notin Fingerprinted
  PROVE  FingerprintInv'
<1>1. /\ pc'[p] = to
      /\ \A q \in Procs \ {p} : pc'[q] = pc[q] /\ mem'[q] = mem[q]
  BY DEF Start, TypeOK
<1>2. QED
  BY <1>1, OneMoves

LEMMA StayKnows ==
  ASSUME TypeOK, TypeOK', FingerprintInv, Grown, UNCHANGED <<pc, mem>>
  PROVE  FingerprintInv'
<1> SUFFICES ASSUME NEW q \in Procs, pc[q] \in Fingerprinted
             PROVE  Knows(pc[q], mem[q], Inputs', lately', checks', approvals')
  BY DEF FingerprintInv
<1>2. mem[q] \in CompleteMem
  BY MemOf DEF Fingerprinted
<1>3. Inputs \in InputRecords
  BY InputsType
<1>4. Inputs' \in InputRecords
  BY DEF TypeOK, Inputs, InputRecords
<1>5. Knows(pc[q], mem[q], Inputs, lately, checks, approvals)
  BY DEF FingerprintInv
<1>6. /\ Grow(Inputs, Inputs')
      /\ Inputs.stamp = Inputs'.stamp => lately \subseteq lately'
      /\ Inputs.checks = Inputs'.checks => checks' = checks
      /\ Inputs.approvals = Inputs'.approvals => approvals' = approvals
  BY DEF Grown, Inputs
<1>7. QED
  BY <1>2, <1>3, <1>4, <1>5, <1>6, KnowsGrows

LEMMA ReadingSame ==
  Reading => Inputs' = Inputs /\ lately' = lately /\ checks' = checks /\ approvals' = approvals
BY DEF Reading, row, logs, env, Inputs

\* What a process learns in each step of a completion.
LEMMA CompleteKnows ==
  ASSUME TypeOK, TypeOK', FingerprintInv, Grown, NEW p \in Procs, Complete(p)
  PROVE  FingerprintInv'
<1>k. pc[p] \in Fingerprinted => Knows(pc[p], mem[p], Inputs, lately, checks, approvals)
  BY DEF FingerprintInv
<1>m. pc[p] \in CompletePhases => mem[p] \in CompleteMem
  BY MemOf
<1>i. Inputs \in InputRecords
  BY InputsType
<1>f. Fingerprinted = {"readTask", "readChecks", "readApprovals", "judge",
                       "authorizeOverride", "commit"}
  BY DEF Fingerprinted, CompletePhases
<1>1. CASE StartComplete(p)
  BY <1>1, <1>f, StartKnows DEF StartComplete
<1>2. CASE BeginAttempt(p)
  BY <1>2, <1>f, GotoKnows DEF BeginAttempt, Return
<1>3. CASE TakeFingerprint(p)
  <2> DEFINE m == [mem[p] EXCEPT !.before = Inputs]
  <2>0. mem[p] \in CompleteMem
    BY <1>3, <1>m DEF TakeFingerprint, Goto, CompletePhases
  <2>1. m.before = Inputs
    BY <2>0 DEF CompleteMem
  <2>2. Knows("readTask", m, Inputs, lately, checks, approvals)
    BY <2>1, <1>i DEF Knows, InputRecords
  <2> HIDE DEF m
  <2>3. QED
    BY <1>3, <2>2, ReadingSame, GotoKnows DEF TakeFingerprint, m
<1>4. CASE ReadTask(p)
  <2> DEFINE m == [mem[p] EXCEPT !.risk = risk, !.autonomy = autonomy]
  <2>0. mem[p] \in CompleteMem /\ pc[p] = "readTask"
    BY <1>4, <1>m DEF ReadTask, Goto, CompletePhases
  <2>1. m.before = mem[p].before /\ <<m.risk, m.autonomy>> \in lately
    BY <2>0 DEF CompleteMem, TypeOK
  <2>2. Knows("readChecks", m, Inputs, lately, checks, approvals)
    BY <2>0, <2>1, <1>k, <1>f DEF Knows
  <2> HIDE DEF m
  <2>3. QED
    BY <1>4, <2>2, ReadingSame, GotoKnows DEF ReadTask, m
<1>5. CASE ReadChecks(p)
  <2> DEFINE m == [mem[p] EXCEPT !.checks = checks]
  <2>0. mem[p] \in CompleteMem /\ pc[p] = "readChecks"
    BY <1>5, <1>m DEF ReadChecks, Goto, CompletePhases
  <2>1. /\ m.before = mem[p].before /\ m.risk = mem[p].risk /\ m.autonomy = mem[p].autonomy
        /\ m.checks = checks
    BY <2>0 DEF CompleteMem
  <2>2. Knows("readApprovals", m, Inputs, lately, checks, approvals)
    BY <2>0, <2>1, <1>k, <1>f DEF Knows
  <2> HIDE DEF m
  <2>3. QED
    BY <1>5, <2>2, ReadingSame, GotoKnows DEF ReadChecks, m
<1>6. CASE ReadApprovals(p)
  <2> DEFINE m == [mem[p] EXCEPT !.approvals = approvals]
  <2>0. mem[p] \in CompleteMem /\ pc[p] = "readApprovals"
    BY <1>6, <1>m DEF ReadApprovals, Goto, CompletePhases
  <2>1. /\ m.before = mem[p].before /\ m.risk = mem[p].risk /\ m.autonomy = mem[p].autonomy
        /\ m.checks = mem[p].checks /\ m.approvals = approvals
    BY <2>0 DEF CompleteMem
  <2>2. Knows("judge", m, Inputs, lately, checks, approvals)
    BY <2>0, <2>1, <1>k, <1>f DEF Knows
  <2> HIDE DEF m
  <2>3. QED
    BY <1>6, <2>2, ReadingSame, GotoKnows DEF ReadApprovals, m
<1>7. CASE Judge(p)
  <2> DEFINE m == [mem[p] EXCEPT !.override = FALSE]
  <2>0. mem[p] \in CompleteMem /\ pc[p] = "judge"
    BY <1>7, <1>m DEF Judge, CompletePhases
  <2>1. /\ m.before = mem[p].before /\ m.risk = mem[p].risk /\ m.autonomy = mem[p].autonomy
        /\ m.checks = mem[p].checks /\ m.approvals = mem[p].approvals
        /\ m.current = mem[p].current /\ m.override = FALSE
    BY <2>0 DEF CompleteMem
  <2>2. \A roled : Verdict(m, roled) = Verdict(mem[p], roled)
    BY <2>1 DEF Verdict
  <2> HIDE DEF m
  <2>i. Inputs.approvers = approvers
    BY DEF Inputs
  <2>3. CASE Verdict(mem[p], approvers > 0) /\ Goto(p, "judge", "commit", m)
    <3>1. Knows("commit", m, Inputs, lately, checks, approvals)
      BY <2>0, <2>1, <2>2, <2>3, <2>i, <1>k, <1>f DEF Knows
    <3>2. QED
      BY <1>7, <2>3, <3>1, ReadingSame, GotoKnows DEF Judge
  <2>4. CASE ~Verdict(mem[p], approvers > 0) /\ Goto(p, "judge", "authorizeOverride", mem[p])
    <3>1. Knows("authorizeOverride", mem[p], Inputs, lately, checks, approvals)
      BY <2>0, <2>4, <2>i, <1>k, <1>f DEF Knows
    <3>2. QED
      BY <1>7, <2>4, <3>1, ReadingSame, GotoKnows DEF Judge
  <2>5. CASE Return(p, "judge")
    BY <2>5, <1>f, GotoKnows DEF Return
  <2>6. QED
    BY <1>7, <2>3, <2>4, <2>5 DEF Judge, m
<1>8. CASE AuthorizeOverride(p)
  <2> DEFINE m == [mem[p] EXCEPT !.override = TRUE]
  <2>0. mem[p] \in CompleteMem /\ pc[p] = "authorizeOverride"
    BY <1>8, <1>m DEF AuthorizeOverride, Return, Goto, CompletePhases
  <2>1. /\ m.before = mem[p].before /\ m.risk = mem[p].risk /\ m.autonomy = mem[p].autonomy
        /\ m.checks = mem[p].checks /\ m.approvals = mem[p].approvals
        /\ m.current = mem[p].current /\ m.override = TRUE
    BY <2>0 DEF CompleteMem
  <2>2. \A roled : Verdict(m, roled) = Verdict(mem[p], roled)
    BY <2>1 DEF Verdict
  <2> HIDE DEF m
  <2>3. Knows("commit", m, Inputs, lately, checks, approvals)
    BY <2>0, <2>1, <2>2, <1>k, <1>f DEF Knows
  <2>4. QED
    BY <1>8, <2>3, <1>f, ReadingSame, GotoKnows DEF AuthorizeOverride, Return, m
<1>9. CASE CommitDone(p) \/ CommitRefused(p)
  BY <1>9, <1>f, GotoKnows DEF CommitDone, CommitRefused, Return
<1>10. CASE Retry(p)
  BY <1>10, <1>f, GotoKnows DEF Retry, Return
<1>11. QED
  BY <1>1, <1>2, <1>3, <1>4, <1>5, <1>6, <1>7, <1>8, <1>9, <1>10 DEF Complete

LEMMA Fingerprints == Spec => []FingerprintInv
<1>1. Init => FingerprintInv
  BY DEF Init, FingerprintInv, Fingerprinted, CompletePhases
<1>2. TypeOK /\ TypeOK' /\ FingerprintInv /\ [Next]_vars => FingerprintInv'
  <2> SUFFICES ASSUME TypeOK, TypeOK', FingerprintInv, [Next]_vars PROVE FingerprintInv'
    OBVIOUS
  <2>g. Grown
    BY NextGrows
  <2>f. {"idle", "running", "authorizeCheck", "recordCheck", "authorizeApproval",
         "recordApproval", "authorizeLevel", "writeLevel"} \intersect Fingerprinted = {}
    BY DEF Fingerprinted, CompletePhases
  <2>1. CASE UNCHANGED vars \/ Rest \/ EditTree \/ ToggleToken \/ AddApprovingRole
    BY <2>1, <2>g, StayKnows DEF vars, Rest, EditTree, ToggleToken, AddApprovingRole
  <2>2. ASSUME NEW p \in Procs, Complete(p) PROVE FingerprintInv'
    BY <2>2, <2>g, CompleteKnows
  <2>3. ASSUME NEW p \in Procs, NEW from, NEW to, NEW m, Goto(p, from, to, m),
               to \notin Fingerprinted
        PROVE  FingerprintInv'
    BY <2>3, <2>g, GotoKnows
  <2>4. ASSUME NEW p \in Procs, NEW call, NEW to, NEW m, Start(p, call, to, m),
               to \notin Fingerprinted
        PROVE  FingerprintInv'
    BY <2>4, <2>g, StartKnows
  <2>5. ASSUME NEW p \in Procs, Verify(p) PROVE FingerprintInv'
    BY <2>5, <2>3, <2>4, <2>f DEF Verify, StartRun, FinishRun, CancelRun, StartType,
       AuthorizeCheck, RecordCheck, Return
  <2>6. ASSUME NEW p \in Procs, Review(p) PROVE FingerprintInv'
    BY <2>6, <2>3, <2>4, <2>f DEF Review, StartApprove, AuthorizeApproval, RecordApproval,
       Reject, Return
  <2>7. ASSUME NEW p \in Procs, Change(p) PROVE FingerprintInv'
    BY <2>7, <2>3, <2>4, <2>f DEF Change, StartLevel, AuthorizeLevel, WriteLevel, SetStatus,
       Return
  <2>8. ASSUME NEW p \in Procs, Crash(p) PROVE FingerprintInv'
    BY <2>8, <2>3, <2>f DEF Crash, Return
  <2>9. QED
    BY <2>1, <2>2, <2>5, <2>6, <2>7, <2>8 DEF Next, Step
<1>3. QED
  BY <1>1, <1>2, TypeCorrect, PTL DEF Spec

-----------------------------------------------------------------------------
(* A process holds only rows that the abstract operations may append.      *)

HoldsInv ==
  \A p \in Procs :
    /\ pc[p] \in CheckPhases => Atomic!Recordable(mem[p].check)
    /\ pc[p] \in ApprovePhases => Atomic!Decidable(mem[p].approval)

Holdable(at, m) == /\ at \in CheckPhases => Atomic!Recordable(m.check)
                   /\ at \in ApprovePhases => Atomic!Decidable(m.approval)

LEMMA GotoHolds ==
  ASSUME TypeOK, HoldsInv, NEW p \in Procs, NEW from, NEW to, NEW m,
         Goto(p, from, to, m), Holdable(to, m)
  PROVE  HoldsInv'
BY DEF TypeOK, HoldsInv, Goto, Holdable, Atomic!Recordable, Atomic!Decidable

LEMMA StartHolds ==
  ASSUME TypeOK, HoldsInv, NEW p \in Procs, NEW call, NEW to, NEW m,
         Start(p, call, to, m), Holdable(to, m)
  PROVE  HoldsInv'
BY DEF TypeOK, HoldsInv, Start, Holdable, Atomic!Recordable, Atomic!Decidable

LEMMA OnlyAppendableRows == Spec => []HoldsInv
<1>1. Init => HoldsInv
  BY DEF Init, HoldsInv, CheckPhases, ApprovePhases
<1>2. TypeOK /\ HoldsInv /\ [Next]_vars => HoldsInv'
  <2> SUFFICES ASSUME TypeOK, HoldsInv, [Next]_vars PROVE HoldsInv'
    OBVIOUS
  <2>o. \A at, m : at \notin CheckPhases \union ApprovePhases => Holdable(at, m)
    BY DEF Holdable
  <2>f. \A at \in CompletePhases \union LevelPhases \union {"idle"} :
          at \notin CheckPhases \union ApprovePhases
    BY DEF CompletePhases, LevelPhases, CheckPhases, ApprovePhases
  <2>1. CASE UNCHANGED vars \/ Rest \/ EditTree \/ ToggleToken \/ AddApprovingRole
    BY <2>1 DEF vars, Rest, EditTree, ToggleToken, AddApprovingRole, HoldsInv,
       Atomic!Recordable, Atomic!Decidable
  <2>3. ASSUME NEW p \in Procs, NEW from, NEW to, NEW m, Goto(p, from, to, m),
               to \in CompletePhases \union LevelPhases \union {"idle"}
        PROVE  HoldsInv'
    BY <2>3, <2>o, <2>f, GotoHolds
  <2>4. ASSUME NEW p \in Procs, NEW call, NEW to, NEW m, Start(p, call, to, m),
               to \in CompletePhases \union LevelPhases \union {"idle"}
        PROVE  HoldsInv'
    BY <2>4, <2>o, <2>f, StartHolds
  <2>r. ASSUME NEW p \in Procs, NEW from, Return(p, from) PROVE HoldsInv'
    BY <2>r, <2>3 DEF Return
  <2>5. ASSUME NEW p \in Procs, Complete(p) PROVE HoldsInv'
    <3> USE DEF CompletePhases
    <3>1. CASE StartComplete(p)
      BY <3>1, <2>4 DEF StartComplete
    <3>2. CASE BeginAttempt(p) \/ TakeFingerprint(p) \/ ReadTask(p) \/ ReadChecks(p)
               \/ ReadApprovals(p)
      BY <3>2, <2>3, <2>r DEF BeginAttempt, TakeFingerprint, ReadTask, ReadChecks, ReadApprovals
    <3>3. CASE Judge(p) \/ AuthorizeOverride(p)
      BY <3>3, <2>3, <2>r DEF Judge, AuthorizeOverride
    <3>4. CASE CommitDone(p) \/ CommitRefused(p) \/ Retry(p)
      BY <3>4, <2>3, <2>r DEF CommitDone, CommitRefused, Retry
    <3>5. QED
      BY <2>5, <3>1, <3>2, <3>3, <3>4 DEF Complete
  <2>6. ASSUME NEW p \in Procs, Verify(p) PROVE HoldsInv'
    <3>h. pc[p] \in CheckPhases => mem[p] \in CheckMem /\ Atomic!Recordable(mem[p].check)
      BY MemOf DEF HoldsInv
    <3>1. CASE StartRun(p)
      <4> DEFINE m(kind, adhoc) ==
            [op |-> "check", kind |-> kind, run |-> [tree |-> tree, adhoc |-> adhoc],
             check |-> [kind |-> kind, status |-> "skipped", source |-> "runner",
                        by |-> "agent", tree |-> NoTree]]
      <4>1. PICK kind \in RecordKinds \intersect RunnableKinds, adhoc \in BOOLEAN :
              Start(p, IF adhoc THEN "adhoc" ELSE "run", "running", m(kind, adhoc))
        BY <3>1 DEF StartRun
      <4>2. Holdable("running", m(kind, adhoc))
        BY DEF Holdable, Atomic!Recordable, CheckPhases, ApprovePhases, RunnableKinds,
               Atomic!RunnableKinds
      <4> HIDE DEF m
      <4>3. QED
        BY <4>1, <4>2, StartHolds
    <3>2. CASE FinishRun(p)
      <4> DEFINE m(result, hash) == [mem[p] EXCEPT !.check.status = result, !.check.tree = hash]
      <4>1. PICK result \in RecordStatuses, hash \in Hashes :
              Goto(p, "running", IF mem[p].run.adhoc THEN "authorizeCheck" ELSE "recordCheck",
                   m(result, hash))
        BY <3>2 DEF FinishRun
      <4>2. mem[p] \in CheckMem /\ Atomic!Recordable(mem[p].check)
        BY <4>1, <3>h DEF Goto, CheckPhases
      <4>3. /\ m(result, hash).check.kind = mem[p].check.kind
            /\ m(result, hash).check.source = mem[p].check.source
            /\ m(result, hash).check.by = mem[p].check.by
        BY <4>2 DEF CheckMem, CheckRecords
      <4> HIDE DEF m
      <4>4. \A to \in CheckPhases : Holdable(to, m(result, hash))
        BY <4>2, <4>3 DEF Holdable, Atomic!Recordable, CheckPhases, ApprovePhases
      <4>5. QED
        BY <4>1, <4>4, GotoHolds DEF CheckPhases
    <3>3. CASE StartType(p)
      <4> DEFINE m(kind, result, hash) ==
            [op |-> "check", kind |-> kind, run |-> [tree |-> tree, adhoc |-> FALSE],
             check |-> [kind |-> kind, status |-> result, source |-> "manual",
                        by |-> ActorType(p), tree |-> hash]]
      <4>1. PICK kind \in RecordKinds, result \in RecordStatuses, hash \in Hashes :
              Start(p, "type",
                    IF kind = "human_review" /\ result # "fail" THEN "authorizeCheck"
                                                                ELSE "recordCheck",
                    m(kind, result, hash))
        BY <3>3 DEF StartType
      <4>2. \A to \in CheckPhases : Holdable(to, m(kind, result, hash))
        BY DEF Holdable, Atomic!Recordable, CheckPhases, ApprovePhases
      <4> HIDE DEF m
      <4>3. QED
        BY <4>1, <4>2, StartHolds DEF CheckPhases
    <3>4. CASE AuthorizeCheck(p)
      <4>1. pc[p] = "authorizeCheck" => Holdable("recordCheck", mem[p])
        BY <3>h DEF Holdable, CheckPhases, ApprovePhases
      <4>2. QED
        BY <3>4, <4>1, <2>r, GotoHolds DEF AuthorizeCheck, Goto
    <3>5. CASE CancelRun(p) \/ RecordCheck(p)
      BY <3>5, <2>r DEF CancelRun, RecordCheck
    <3>6. QED
      BY <2>6, <3>1, <3>2, <3>3, <3>4, <3>5 DEF Verify
  <2>7. ASSUME NEW p \in Procs, Review(p) PROVE HoldsInv'
    <3>1. CASE StartApprove(p)
      <4> DEFINE m(role, hash) ==
            [op |-> "approve", approval |-> [kind |-> "code_review", decision |-> "approved",
                                             role |-> role, tree |-> hash]]
      <4>1. PICK role \in {"none", "approver"}, hash \in Hashes :
              Start(p, "approve", "authorizeApproval", m(role, hash))
        BY <3>1 DEF StartApprove
      <4>2. hash # Atomic!TreeUnavailable
        BY DataAssumption DEF Hashes, TypeOK, NoTree, TreeUnavailable, Atomic!TreeUnavailable
      <4>3. Holdable("authorizeApproval", m(role, hash))
        BY <4>2 DEF Holdable, Atomic!Decidable, CheckPhases, ApprovePhases
      <4> HIDE DEF m
      <4>4. QED
        BY <4>1, <4>3, StartHolds
    <3>2. CASE AuthorizeApproval(p)
      <4>1. pc[p] = "authorizeApproval" => Holdable("recordApproval", mem[p])
        BY DEF HoldsInv, Holdable, CheckPhases, ApprovePhases
      <4>2. QED
        BY <3>2, <4>1, <2>r, GotoHolds DEF AuthorizeApproval, Goto
    <3>3. CASE RecordApproval(p) \/ Reject(p)
      BY <3>3, <2>r, <2>4 DEF RecordApproval, Reject
    <3>4. QED
      BY <2>7, <3>1, <3>2, <3>3 DEF Review
  <2>8. ASSUME NEW p \in Procs, Change(p) PROVE HoldsInv'
    BY <2>8, <2>3, <2>4, <2>r DEF Change, StartLevel, AuthorizeLevel, WriteLevel, SetStatus,
       LevelPhases
  <2>9. ASSUME NEW p \in Procs, Crash(p) PROVE HoldsInv'
    BY <2>9, <2>r DEF Crash
  <2>10. QED
    BY <2>1, <2>5, <2>6, <2>7, <2>8, <2>9 DEF Next, Step
<1>3. QED
  BY <1>1, <1>2, TypeCorrect, PTL DEF Spec

-----------------------------------------------------------------------------
(* Every step is a step of AtomicCompletion or changes nothing it knows.   *)

\* The gate of the abstract specification is the gate.
LEMMA SameGate ==
  ASSUME NEW r, NEW a, NEW cs, NEW as, NEW ro, NEW cu
  PROVE  Atomic!GateOK(r, a, cs, as, ro, cu) = GateOK(r, a, cs, as, ro, cu)
BY Zenon DEF Newest, Atomic!Newest, KindAt, Atomic!KindAt, RunnerAt, Atomic!RunnerAt,
             ReviewAt, Atomic!ReviewAt, LatestChecks, Atomic!LatestChecks,
             CheckBlockers, Atomic!CheckBlockers,
             ProvenanceBlockers, Atomic!ProvenanceBlockers,
             PersonBlockers, Atomic!PersonBlockers, Failing, Atomic!Failing,
             HighRisk, Atomic!HighRisk, Weightless, Atomic!Weightless,
             TreeKnown, Atomic!TreeKnown, NoTree, Atomic!NoTree,
             TreeUnavailable, Atomic!TreeUnavailable, RunnableKinds, Atomic!RunnableKinds,
             CheckKinds, Atomic!CheckKinds, NeedsPerson, Atomic!NeedsPerson,
             AgentBlockers, Atomic!AgentBlockers, GateOK, Atomic!GateOK

\* What the transaction of a completion relies on.
LEMMA CommitVerdict ==
  ASSUME TypeOK, FingerprintInv, NEW p \in Procs, CommitDone(p)
  PROVE  /\ mem[p] \in CompleteMem
         /\ <<mem[p].risk, mem[p].autonomy>> \in lately
         /\ mem[p].override <=>
              ~GateOK(mem[p].risk, mem[p].autonomy, checks, approvals, approvers > 0,
                      mem[p].current)
<1>1. pc[p] = "commit" /\ Inputs = mem[p].before
  BY DEF CommitDone, Return, Goto, SameInputs
<1>2. mem[p] \in CompleteMem
  BY <1>1, MemOf DEF CompletePhases
<1>3. Knows("commit", mem[p], Inputs, lately, checks, approvals)
  BY <1>1 DEF FingerprintInv, Fingerprinted, CompletePhases
<1>4. /\ <<mem[p].risk, mem[p].autonomy>> \in lately
      /\ mem[p].checks = checks /\ mem[p].approvals = approvals
      /\ mem[p].override <=> ~Verdict(mem[p], approvers > 0)
  BY <1>1, <1>3 DEF Knows, Inputs
<1>5. QED
  BY <1>2, <1>4 DEF Verdict

LEMMA SameRecords ==
  /\ Atomic!CheckRecords(Trees) = CheckRecords(Trees)
  /\ Atomic!ApprovalRecords(Trees) = ApprovalRecords(Trees)
BY DEF CheckRecords, Atomic!CheckRecords, ApprovalRecords, Atomic!ApprovalRecords,
       CheckKinds, Atomic!CheckKinds, CheckStatuses, Atomic!CheckStatuses,
       CheckSources, Atomic!CheckSources, ActorTypes, Atomic!ActorTypes,
       NoTree, Atomic!NoTree, TreeUnavailable, Atomic!TreeUnavailable

\* A step that changes nothing AtomicCompletion knows, nor how many roles there are.
LEMMA Stutters ==
  ASSUME UNCHANGED <<status, risk, autonomy, lately, checks, approvals, approvers>>
  PROVE  UNCHANGED Atomic!vars
BY DEF Atomic!vars

LEMMA CommitRefines ==
  ASSUME TypeOK, FingerprintInv, NEW p \in Procs, CommitDone(p)
  PROVE  Atomic!Complete \/ Atomic!Override
<1> DEFINE m == mem[p]
           levels == <<m.risk, m.autonomy>>
<1>1. /\ m.override \in BOOLEAN /\ m.current \in Trees \union {TreeUnavailable}
      /\ levels \in lately
      /\ m.override <=>
           ~GateOK(m.risk, m.autonomy, checks, approvals, approvers > 0, m.current)
  BY CommitVerdict DEF CompleteMem
<1>2. m.override <=> ~Atomic!HoldsFor(levels, m.current)
  BY <1>1, SameGate DEF Atomic!HoldsFor
<1>3. "done" \in Atomic!MayBecome(status)
  BY DEF CommitDone, MayBecome, Atomic!MayBecome, TaskStatuses, Atomic!TaskStatuses
<1>4. m.current \in Trees \union {Atomic!TreeUnavailable}
  BY <1>1 DEF TreeUnavailable, Atomic!TreeUnavailable
<1>5. status' = "done" /\ UNCHANGED <<risk, autonomy, checks, approvers>>
  BY DEF CommitDone, env
<1>6. (approvers > 0)' = (approvers > 0)
  BY <1>5
<1>t. Atomic!Touch
  BY DEF CommitDone, Touch, Atomic!Touch
<1>7. CASE m.override = FALSE
  <2>1. approvals' = approvals
    BY <1>7 DEF CommitDone
  <2>2. Atomic!HoldsFor(levels, m.current)
    BY <1>2, <1>7
  <2>l. levels \in lately
    BY <1>1
  <2> HIDE DEF m, levels
  <2>3. QED
    BY <1>3, <1>4, <1>5, <1>6, <1>t, <2>1, <2>2, <2>l DEF Atomic!Complete
<1>8. CASE m.override = TRUE
  <2>1. approvals' = Append(approvals, OverrideRecord(m.current))
    BY <1>8 DEF CommitDone
  <2>2. ~Atomic!HoldsFor(levels, m.current)
    BY <1>2, <1>8
  <2>l. levels \in lately
    BY <1>1
  <2> HIDE DEF m, levels
  <2>3. approvals' = Append(approvals, Atomic!OverrideRecord(m.current))
    BY <2>1 DEF OverrideRecord, Atomic!OverrideRecord
  <2>4. QED
    BY <1>3, <1>4, <1>5, <1>6, <1>t, <2>2, <2>3, <2>l DEF Atomic!Override, Unbounded
<1>9. QED
  BY <1>1, <1>7, <1>8

LEMMA StepRefines ==
  ASSUME TypeOK, FingerprintInv, HoldsInv, [Next]_vars
  PROVE  [Atomic!Next]_Atomic!vars
<1>r. ASSUME Reading PROVE UNCHANGED Atomic!vars
  BY <1>r, Stutters DEF Reading, row, logs, env
<1>1. CASE UNCHANGED vars \/ Rest \/ EditTree \/ ToggleToken
  BY <1>1, Stutters DEF vars, row, logs, env, Rest, EditTree, ToggleToken
<1>2. CASE AddApprovingRole
  <2>1. (approvers > 0)' = TRUE
    BY <1>2 DEF AddApprovingRole, TypeOK
  <2>2. QED
    BY <1>2, <2>1 DEF AddApprovingRole, Atomic!Next, Atomic!AddApprovingRole, row, logs
<1>3. ASSUME NEW p \in Procs, Complete(p) PROVE [Atomic!Next]_Atomic!vars
  <2>1. CASE CommitDone(p)
    BY <2>1, CommitRefines DEF Atomic!Next
  <2>2. QED
    BY <1>r, <1>3, <2>1 DEF Complete, StartComplete, BeginAttempt, TakeFingerprint, ReadTask,
       ReadChecks, ReadApprovals, Judge, AuthorizeOverride, CommitRefused, Retry
<1>4. ASSUME NEW p \in Procs, Verify(p) PROVE [Atomic!Next]_Atomic!vars
  <2>1. CASE RecordCheck(p)
    <3>1. pc[p] \in CheckPhases
      BY <2>1 DEF RecordCheck, Return, Goto, CheckPhases
    <3>2. mem[p].check \in Atomic!CheckRecords(Trees) /\ Atomic!Recordable(mem[p].check)
      BY <3>1, MemOf, SameRecords DEF HoldsInv, CheckMem
    <3>3. /\ checks' = Append(checks, mem[p].check)
          /\ UNCHANGED <<status, risk, autonomy, lately, approvals, approvers>>
      BY <2>1 DEF RecordCheck, row, env
    <3>4. Atomic!RecordCheck
      BY <3>2, <3>3 DEF Atomic!RecordCheck, Unbounded
    <3>5. QED
      BY <3>4 DEF Atomic!Next
  <2>2. QED
    BY <1>r, <1>4, <2>1 DEF Verify, StartRun, FinishRun, CancelRun, StartType, AuthorizeCheck
<1>5. ASSUME NEW p \in Procs, Review(p) PROVE [Atomic!Next]_Atomic!vars
  <2>1. CASE RecordApproval(p)
    <3>1. pc[p] \in ApprovePhases
      BY <2>1 DEF RecordApproval, Return, Goto, ApprovePhases
    <3>2. mem[p].approval \in Atomic!ApprovalRecords(Trees) /\ Atomic!Decidable(mem[p].approval)
      BY <3>1, MemOf, SameRecords DEF HoldsInv, ApproveMem
    <3>3. /\ approvals' = Append(approvals, mem[p].approval)
          /\ UNCHANGED <<status, risk, autonomy, lately, checks, approvers>>
      BY <2>1 DEF RecordApproval, row, env
    <3>4. Atomic!RecordDecision
      BY <3>2, <3>3 DEF Atomic!RecordDecision, Unbounded
    <3>5. QED
      BY <3>4 DEF Atomic!Next
  <2>2. CASE Reject(p)
    <3> DEFINE a(role) == [kind |-> "code_review", decision |-> "rejected",
                           role |-> role, tree |-> NoTree]
    <3>1. PICK role \in {"none", "approver"} : approvals' = Append(approvals, a(role))
      BY <2>2 DEF Reject
    <3>2. a(role) \in Atomic!ApprovalRecords(Trees)
      BY SameRecords DEF ApprovalRecords
    <3>3. Atomic!Decidable(a(role))
      BY DEF Atomic!Decidable, NoTree, Atomic!NoTree, Atomic!TreeUnavailable
    <3> HIDE DEF a
    <3>4. UNCHANGED <<status, risk, autonomy, lately, checks, approvers>>
      BY <2>2 DEF Reject, row, env
    <3>5. Atomic!RecordDecision
      BY <3>1, <3>2, <3>3, <3>4 DEF Atomic!RecordDecision, Unbounded
    <3>6. QED
      BY <3>5 DEF Atomic!Next
  <2>3. QED
    BY <1>r, <1>5, <2>1, <2>2 DEF Review, StartApprove, AuthorizeApproval
<1>6. ASSUME NEW p \in Procs, Change(p) PROVE [Atomic!Next]_Atomic!vars
  <2>1. CASE WriteLevel(p)
    <3>1. mem[p] \in LevelMem
      BY <2>1, MemOf DEF WriteLevel, Return, Goto, LevelPhases
    <3>2. UNCHANGED <<status, checks, approvals, approvers>>
      BY <2>1 DEF WriteLevel, logs, env
    <3>3. \/ risk' \in TaskRisks /\ autonomy' = autonomy
          \/ autonomy' \in TaskAutonomies /\ risk' = risk
      BY <2>1, <3>1 DEF WriteLevel, LevelMem
    <3>4. Atomic!SetLevels
      BY <2>1, <3>2, <3>3 DEF WriteLevel, Touch, Atomic!Touch, Atomic!SetLevels
    <3>5. QED
      BY <3>4 DEF Atomic!Next
  <2>2. CASE SetStatus(p)
    <3>1. UNCHANGED <<risk, autonomy, checks, approvals, approvers>>
      BY <2>2 DEF SetStatus, logs, env
    <3>2. Atomic!SetStatus
      BY <2>2, <3>1 DEF SetStatus, Touch, Atomic!Touch, Atomic!SetStatus, MayBecome, Atomic!MayBecome, TaskStatuses,
         Atomic!TaskStatuses
    <3>3. QED
      BY <3>2 DEF Atomic!Next
  <2>3. QED
    BY <1>r, <1>6, <2>1, <2>2 DEF Change, StartLevel, AuthorizeLevel
<1>7. ASSUME NEW p \in Procs, Crash(p) PROVE [Atomic!Next]_Atomic!vars
  BY <1>r, <1>7 DEF Crash
<1>8. QED
  BY <1>1, <1>2, <1>3, <1>4, <1>5, <1>6, <1>7 DEF Next, Step

\* Completing a task, and all that its gate reads, is as if every operation were
\* one atomic step, but for levels the row has had within one second of its clock.
THEOREM Refinement == Spec => ImplementsAtomic
<1>1. Init => Atomic!Init
  BY DEF Init, Atomic!Init
<1>2. TypeOK /\ FingerprintInv /\ HoldsInv /\ [Next]_vars => [Atomic!Next]_Atomic!vars
  BY StepRefines
<1>3. QED
  BY <1>1, <1>2, TypeCorrect, Fingerprints, OnlyAppendableRows, PTL
     DEF Spec, ImplementsAtomic, Atomic!Spec

-----------------------------------------------------------------------------
(* What an unforced completion rests on.                                   *)

LEMMA FinishesByCommit ==
  ASSUME TypeOK, Next, Finishes, ~Forced
  PROVE  \E p \in Procs : CommitDone(p) /\ mem[p] \in CompleteMem /\ mem[p].override = FALSE
<1>1. status' # status
  BY DEF Finishes
<1>2. Reading => status' = status
  BY DEF Reading, row
<1>3. PICK p \in Procs : Step(p)
  BY <1>1 DEF Next, EditTree, AddApprovingRole, ToggleToken, Rest, vars, row
<1>4. ~Verify(p) /\ ~Review(p) /\ ~Crash(p)
  BY <1>1, <1>2 DEF Verify, StartRun, FinishRun, CancelRun, StartType, AuthorizeCheck,
     RecordCheck, Review, StartApprove, AuthorizeApproval, RecordApproval, Reject, Crash, row
<1>5. ~Change(p)
  BY <1>1, <1>2 DEF Change, StartLevel, AuthorizeLevel, WriteLevel, SetStatus, Finishes
<1>6. CommitDone(p)
  BY <1>1, <1>2, <1>3, <1>4, <1>5 DEF Step, Complete, StartComplete, BeginAttempt,
     TakeFingerprint, ReadTask, ReadChecks, ReadApprovals, Judge, AuthorizeOverride,
     CommitRefused, Retry
<1>7. mem[p] \in CompleteMem
  BY <1>6, MemOf DEF CommitDone, Return, Goto, CompletePhases
<1>8. ASSUME mem[p].override = TRUE PROVE FALSE
  <2>1. Len(approvals') = Len(approvals) + 1
    BY <1>6, <1>8 DEF CommitDone, TypeOK
  <2>2. Len(approvals) \in Nat /\ approvals' = approvals
    BY DEF TypeOK, Forced
  <2>3. QED
    BY <2>1, <2>2
<1>9. QED
  BY <1>6, <1>7, <1>8 DEF CompleteMem

\* Low risk, and a tree nobody knows, ask the least of the checks.
LEMMA LowAsksLeast ==
  ASSUME NEW r, NEW cs, NEW cu, AgentBlockers(r, cs, cu) = {}
  PROVE  AgentBlockers("low", cs, NoTree) = {}
<1>1. CheckBlockers(r, cs) = {} /\ ProvenanceBlockers(r, cs, cu) = {}
  BY DEF AgentBlockers
<1>2. CheckBlockers("low", cs) = {}
  BY <1>1 DEF CheckBlockers, HighRisk
<1>3. ProvenanceBlockers("low", cs, NoTree) = {}
  <2>1. \A c : Weightless("low", c) => Weightless(r, c)
    BY DEF Weightless, HighRisk
  <2>2. QED
    BY <1>1, <2>1 DEF ProvenanceBlockers, HighRisk
<1>4. QED
  BY <1>2, <1>3 DEF AgentBlockers

\* An unforced completion never rests on checks that a later row superseded: no
\* kind's last result is a failure, one is a pass, and no runnable kind's last
\* pass was typed by an agent; whatever the clock does (complete.go, gateInputs).
EvidenceIsCurrent ==
  [][(Finishes /\ ~Forced) => AgentBlockers("low", checks, NoTree) = {}]_vars

THEOREM CurrentEvidence == Spec => EvidenceIsCurrent
<1>1. TypeOK /\ FingerprintInv /\ [Next]_vars =>
        [(Finishes /\ ~Forced) => AgentBlockers("low", checks, NoTree) = {}]_vars
  <2> SUFFICES ASSUME TypeOK, FingerprintInv, Next, Finishes, ~Forced
               PROVE  AgentBlockers("low", checks, NoTree) = {}
    OBVIOUS
  <2>1. PICK p \in Procs : CommitDone(p) /\ mem[p] \in CompleteMem /\ mem[p].override = FALSE
    BY FinishesByCommit
  <2>2. pc[p] = "commit" /\ Inputs = mem[p].before
    BY <2>1 DEF CommitDone, Return, Goto, SameInputs
  <2>3. Knows("commit", mem[p], Inputs, lately, checks, approvals)
    BY <2>2 DEF FingerprintInv, Fingerprinted, CompletePhases
  <2>4. mem[p].checks = checks /\ Verdict(mem[p], approvers > 0)
    BY <2>1, <2>2, <2>3 DEF Knows, Inputs
  <2>5. AgentBlockers(mem[p].risk, checks, mem[p].current) = {}
    BY <2>4 DEF Verdict, GateOK
  <2>6. QED
    BY <2>5, LowAsksLeast
<1>2. QED
  BY <1>1, TypeCorrect, Fingerprints, PTL DEF Spec, EvidenceIsCurrent
=============================================================================
