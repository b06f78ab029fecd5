----------------------------- MODULE Completion -----------------------------
(***************************************************************************)
(* Completing a task while other processes work on it: CompleteTask and    *)
(* every operation that changes what its gate reads                        *)
(* (internal/store/complete.go, gate.go, approval.go, task.go and the use  *)
(* cases of internal/app that call them).                                  *)
(*                                                                         *)
(* Each `acline` invocation is a process with its own connection to one    *)
(* SQLite file.  A transaction is one step; a read outside a transaction   *)
(* is a step of its own, so other processes act between two reads, and     *)
(* between a read and the transaction that relies on it.  A process may be *)
(* killed before any step.                                                 *)
(***************************************************************************)
EXTENDS Gate

CONSTANTS
  Procs,          \* the processes
  Agents,         \* those whose actor type is agent; the others are people
  Holders,        \* those that present the approval token
  Trees,          \* fingerprints the working tree can have
  SameSecond,     \* two writes of a row can fall in one second of its clock
  TaskRisks, TaskAutonomies, RecordKinds, RecordStatuses, UsedStatuses,   \* data
  Scenarios       \* bounds: who gives which commands, how many in one behaviour, on
                  \* what data, and whether the tree can be too large or unreadable

Calls == {"complete", "run", "adhoc", "type", "approve", "reject", "level", "status",
          "role", "token", "edit"}

ASSUME ProcsAssumption == Agents \subseteq Procs /\ Holders \subseteq Procs
ASSUME DataAssumption == /\ TaskRisks \subseteq Risks
                         /\ TaskAutonomies \subseteq Autonomies
                         /\ RecordKinds \subseteq CheckKinds
                         /\ RecordStatuses \subseteq CheckStatuses
                         /\ {"todo", "done"} \subseteq UsedStatuses
                         /\ UsedStatuses \subseteq TaskStatuses
                         /\ Trees \intersect {NoTree, TreeUnavailable} = {}
ASSUME BoundAssumption ==
  /\ SameSecond \in BOOLEAN
  /\ \A s \in Scenarios : /\ s.calls \in [Procs -> SUBSET Calls]
                         /\ s.max \in Nat
                         /\ s.mayFail \in BOOLEAN
                         /\ s.risks \subseteq TaskRisks /\ s.kinds \subseteq RecordKinds

VARIABLES
  status, risk, autonomy,   \* the task's row
  stamp,                    \* its updated_at, a timestamp of whole seconds
  checks, approvals,        \* its rows in the append-only tables, in id order
  approvers,                \* how many can_approve roles its project has
  token,                    \* an approval token is enabled
  tree,                     \* what hashing the task's directory gives now
  pc, mem,                  \* each process: where it is, what it has read
  scenario,                 \* the bounds of this behaviour
  calls,                    \* commands given so far
  runs, vouchers,           \* history: how each check was run, who gave each approval
  lately                    \* history: the levels the row has had under its present stamp

row  == <<status, risk, autonomy, stamp, lately>>
logs == <<checks, runs, approvals, vouchers>>
env  == <<approvers, token, tree, scenario>>
vars == <<row, logs, env, pc, mem, calls>>

-----------------------------------------------------------------------------
(* What a process remembers between two steps.                             *)

MaxAttempts == 3
Nothing     == [op |-> "none"]

ActorType(p)  == IF p \in Agents THEN "agent" ELSE "human"
\* authorize and requirePerson of auth.go
Authorized(p) == IF token THEN p \in Holders ELSE p \notin Agents
\* A process that could have been authorized, with or without a token enabled.
Person(p)     == p \in Holders \/ p \notin Agents

Hashes == {tree} \union (IF scenario.mayFail THEN {NoTree} ELSE {})

\* gateInputs
Inputs == [checks |-> Len(checks), approvals |-> Len(approvals), stamp |-> stamp,
           status |-> status, risk |-> risk, autonomy |-> autonomy,
           approvers |-> approvers]

InputRecords ==
  [checks : Nat, approvals : Nat, stamp : Nat, status : UsedStatuses, risk : TaskRisks,
   autonomy : TaskAutonomies, approvers : Nat]

CompleteMem ==
  [op : {"complete"}, force : BOOLEAN, current : Trees \union {TreeUnavailable},
   attempt : 1..MaxAttempts, before : InputRecords, risk : TaskRisks,
   autonomy : TaskAutonomies, checks : Seq(CheckRecords(Trees)),
   approvals : Seq(ApprovalRecords(Trees)), override : BOOLEAN]
RunRecords  == [tree : Trees, adhoc : BOOLEAN]
CheckMem    == [op : {"check"}, kind : CheckKinds, run : RunRecords, check : CheckRecords(Trees)]
ApproveMem  == [op : {"approve"}, approval : ApprovalRecords(Trees)]
LevelMem    == [op : {"level"}, column : {"risk"}, to : TaskRisks]
               \union [op : {"level"}, column : {"autonomy"}, to : TaskAutonomies]

CompletePhases == {"attempt", "fingerprint", "readTask", "readChecks", "readApprovals",
                   "judge", "authorizeOverride", "commit"}
CheckPhases    == {"running", "authorizeCheck", "recordCheck"}
ApprovePhases  == {"authorizeApproval", "recordApproval"}
LevelPhases    == {"authorizeLevel", "writeLevel"}

Fits(at, m) ==
  \/ at = "idle" /\ m = Nothing
  \/ at \in CompletePhases /\ m \in CompleteMem
  \/ at \in CheckPhases /\ m \in CheckMem
  \/ at \in ApprovePhases /\ m \in ApproveMem
  \/ at \in LevelPhases /\ m \in LevelMem

TypeOK ==
  /\ status \in UsedStatuses
  /\ risk \in TaskRisks
  /\ autonomy \in TaskAutonomies
  /\ stamp \in Nat
  /\ lately \subseteq TaskRisks \X TaskAutonomies /\ <<risk, autonomy>> \in lately
  /\ checks \in Seq(CheckRecords(Trees))
  /\ approvals \in Seq(ApprovalRecords(Trees))
  /\ runs \in Seq(RunRecords)
  /\ vouchers \in Seq(Procs)
  /\ approvers \in Nat
  /\ token \in BOOLEAN
  /\ tree \in Trees
  /\ calls \in Nat
  /\ DOMAIN pc = Procs /\ DOMAIN mem = Procs
  /\ \A p \in Procs : Fits(pc[p], mem[p])

Init ==
  /\ scenario \in Scenarios
  /\ status = "todo"
  /\ risk \in TaskRisks \intersect scenario.risks
  /\ autonomy \in TaskAutonomies
  /\ stamp = 0
  /\ lately = {<<risk, autonomy>>}
  /\ checks = <<>> /\ runs = <<>>
  /\ approvals = <<>> /\ vouchers = <<>>
  /\ approvers = 0
  /\ token \in BOOLEAN
  /\ tree \in Trees
  /\ pc = [p \in Procs |-> "idle"]
  /\ mem = [p \in Procs |-> Nothing]
  /\ calls = 0

-----------------------------------------------------------------------------
(* Steps of a process.                                                     *)

Start(p, call, to, m) ==
  /\ pc[p] = "idle"
  /\ call \in scenario.calls[p]
  /\ calls < scenario.max
  /\ calls' = calls + 1
  /\ pc' = [pc EXCEPT ![p] = to]
  /\ mem' = [mem EXCEPT ![p] = m]

Goto(p, from, to, m) ==
  /\ pc[p] = from
  /\ pc' = [pc EXCEPT ![p] = to]
  /\ mem' = [mem EXCEPT ![p] = m]
  /\ UNCHANGED calls

Return(p, from) == Goto(p, from, "idle", Nothing)

Reading == UNCHANGED <<row, logs, env>>

\* A write of the row stamps updated_at with the second it happens in.
Touch ==
  \/ stamp' = stamp + 1 /\ lately' = {<<risk', autonomy'>>}
  \/ SameSecond /\ stamp' = stamp /\ lately' = lately \union {<<risk', autonomy'>>}

-----------------------------------------------------------------------------
(* app.CompleteTask, CompleteTaskForTree, tryComplete.                     *)

\* GateTree: the fingerprint is taken once, before the first attempt.
StartComplete(p) ==
  /\ \E force \in BOOLEAN, hash \in Hashes :
       Start(p, "complete", "attempt",
             [op |-> "complete", force |-> force,
              current |-> IF hash = NoTree THEN TreeUnavailable ELSE hash,
              attempt |-> 1, before |-> Inputs, risk |-> risk, autonomy |-> autonomy,
              checks |-> <<>>, approvals |-> <<>>, override |-> FALSE])
  /\ Reading

\* The early refusal, outside the transaction, of a task that cannot be done.
BeginAttempt(p) ==
  /\ \/ "done" \in MayBecome(status) /\ Goto(p, "attempt", "fingerprint", mem[p])
     \/ "done" \notin MayBecome(status) /\ Return(p, "attempt")
  /\ Reading

TakeFingerprint(p) ==
  /\ Goto(p, "fingerprint", "readTask", [mem[p] EXCEPT !.before = Inputs])
  /\ Reading

ReadTask(p) ==
  /\ Goto(p, "readTask", "readChecks", [mem[p] EXCEPT !.risk = risk, !.autonomy = autonomy])
  /\ Reading

ReadChecks(p) ==
  /\ Goto(p, "readChecks", "readApprovals", [mem[p] EXCEPT !.checks = checks])
  /\ Reading

ReadApprovals(p) ==
  /\ Goto(p, "readApprovals", "judge", [mem[p] EXCEPT !.approvals = approvals])
  /\ Reading

\* What the process concludes from what it read, and from the roles it reads last.
Verdict(m, roled) == GateOK(m.risk, m.autonomy, m.checks, m.approvals, roled, m.current)

Judge(p) ==
  /\ pc[p] = "judge"
  /\ LET ok == Verdict(mem[p], approvers > 0) IN
     \/ ok /\ Goto(p, "judge", "commit", [mem[p] EXCEPT !.override = FALSE])
     \/ ~ok /\ mem[p].force /\ Goto(p, "judge", "authorizeOverride", mem[p])
     \/ ~ok /\ ~mem[p].force /\ Return(p, "judge")
  /\ Reading


AuthorizeOverride(p) ==
  /\ \/ Authorized(p) /\ Goto(p, "authorizeOverride", "commit", [mem[p] EXCEPT !.override = TRUE])
     \/ ~Authorized(p) /\ Return(p, "authorizeOverride")
  /\ Reading

\* Mutant: a check recorded meanwhile goes unseen.
SameInputs_NoChecks(before) == [Inputs EXCEPT !.checks = before.checks] = before

\* Mutant: the task's own row is not compared.
SameInputs_NoRow(before) ==
  /\ Len(checks) = before.checks /\ Len(approvals) = before.approvals
  /\ approvers = before.approvers

SameInputs(before) == Inputs = before

\* Mutant: a forced completion writes a decision the column does not know.
OverrideRecord_Forced(current) ==
  [kind |-> "override", decision |-> "forced", role |-> "none", tree |-> current]

OverrideRecord(current) ==
  [kind |-> "override", decision |-> "overridden", role |-> "none", tree |-> current]

\* The transaction, when the gate's inputs are still those fingerprinted.
CommitDone(p) ==
  /\ Return(p, "commit")
  /\ SameInputs(mem[p].before)
  /\ "done" \in MayBecome(status)
  /\ status' = "done" /\ UNCHANGED <<risk, autonomy>>
  /\ Touch
  /\ IF mem[p].override
       THEN /\ approvals' = Append(approvals, OverrideRecord(mem[p].current))
            /\ vouchers' = Append(vouchers, p)
       ELSE UNCHANGED <<approvals, vouchers>>
  /\ UNCHANGED <<checks, runs, env>>

\* Rolled back: the status moved to one that cannot be done.
CommitRefused(p) ==
  /\ Return(p, "commit")
  /\ SameInputs(mem[p].before)
  /\ "done" \notin MayBecome(status)
  /\ Reading

Retry(p) ==
  /\ pc[p] = "commit"
  /\ ~SameInputs(mem[p].before)
  /\ \/ /\ mem[p].attempt < MaxAttempts
        /\ Goto(p, "commit", "attempt", [mem[p] EXCEPT !.attempt = @ + 1, !.override = FALSE])
     \/ mem[p].attempt = MaxAttempts /\ Return(p, "commit")
  /\ Reading

Complete(p) ==
  \/ StartComplete(p) \/ BeginAttempt(p) \/ TakeFingerprint(p) \/ ReadTask(p)
  \/ ReadChecks(p) \/ ReadApprovals(p) \/ Judge(p) \/ AuthorizeOverride(p)
  \/ CommitDone(p) \/ CommitRefused(p) \/ Retry(p)

-----------------------------------------------------------------------------
(* app.RunCheck, app.RecordCheck and AddCheckWithMeta.                     *)

\* The tool starts on the tree as it is.  --cmd is authorized before it runs.
\* Who runs it is recorded but read of typed rows only: `by` has one value here.
StartRun(p) ==
  /\ \E kind \in RecordKinds \intersect scenario.kinds \intersect RunnableKinds, adhoc \in BOOLEAN :
       /\ adhoc => Authorized(p)
       /\ Start(p, IF adhoc THEN "adhoc" ELSE "run", "running",
                [op |-> "check", kind |-> kind, run |-> [tree |-> tree, adhoc |-> adhoc],
                 check |-> [kind |-> kind, status |-> "skipped", source |-> "runner",
                            by |-> "agent", tree |-> NoTree]])
  /\ Reading

\* The tool exits, and only then is the directory fingerprinted.
FinishRun(p) ==
  /\ \E result \in RecordStatuses, hash \in Hashes :
       Goto(p, "running", IF mem[p].run.adhoc THEN "authorizeCheck" ELSE "recordCheck",
            [mem[p] EXCEPT !.check.status = result, !.check.tree = hash])
  /\ Reading

\* A cancelled run records nothing.
CancelRun(p) == Return(p, "running") /\ Reading

\* A result typed by hand, tied to the tree as it is.
StartType(p) ==
  /\ \E kind \in RecordKinds \intersect scenario.kinds, result \in RecordStatuses, hash \in Hashes :
       Start(p, "type",
             IF kind = "human_review" /\ result # "fail" THEN "authorizeCheck" ELSE "recordCheck",
             [op |-> "check", kind |-> kind, run |-> [tree |-> tree, adhoc |-> FALSE],
              check |-> [kind |-> kind, status |-> result, source |-> "manual",
                         by |-> ActorType(p), tree |-> hash]])
  /\ Reading

AuthorizeCheck(p) ==
  /\ \/ Authorized(p) /\ Goto(p, "authorizeCheck", "recordCheck", mem[p])
     \/ ~Authorized(p) /\ Return(p, "authorizeCheck")
  /\ Reading

RecordCheck(p) ==
  /\ Return(p, "recordCheck")
  /\ checks' = Append(checks, mem[p].check)
  /\ runs' = Append(runs, mem[p].run)
  /\ UNCHANGED <<row, approvals, vouchers, env>>

Verify(p) == \/ StartRun(p) \/ FinishRun(p) \/ CancelRun(p)
             \/ StartType(p) \/ AuthorizeCheck(p) \/ RecordCheck(p)

-----------------------------------------------------------------------------
(* app.Approve, app.Reject and RecordApproval.                             *)

StartApprove(p) ==
  /\ \E role \in {"none", "approver"}, hash \in Hashes :
       Start(p, "approve", "authorizeApproval",
             [op |-> "approve", approval |-> [kind |-> "code_review", decision |-> "approved",
                                              role |-> role, tree |-> hash]])
  /\ Reading

\* Mutant: the agent who names a person passes for one.
MayApprove_Anyone(p) == TRUE
MayApprove(p) == Authorized(p)

AuthorizeApproval(p) ==
  /\ \/ MayApprove(p) /\ Goto(p, "authorizeApproval", "recordApproval", mem[p])
     \/ ~MayApprove(p) /\ Return(p, "authorizeApproval")
  /\ Reading

RecordApproval(p) ==
  /\ Return(p, "recordApproval")
  /\ approvals' = Append(approvals, mem[p].approval)
  /\ vouchers' = Append(vouchers, p)
  /\ UNCHANGED <<row, checks, runs, env>>

\* Open to everyone, and tied to no tree.
Reject(p) ==
  /\ \E role \in {"none", "approver"} :
       approvals' = Append(approvals, [kind |-> "code_review", decision |-> "rejected",
                                       role |-> role, tree |-> NoTree])
  /\ vouchers' = Append(vouchers, p)
  /\ Start(p, "reject", "idle", Nothing)
  /\ UNCHANGED <<row, checks, runs, env>>

Review(p) == StartApprove(p) \/ AuthorizeApproval(p) \/ RecordApproval(p) \/ Reject(p)

-----------------------------------------------------------------------------
(* setTaskLevel and SetTaskStatusWithReason.                               *)

Loosens(column, to) ==
  IF column = "risk" THEN RiskRank[to] < RiskRank[risk]
                     ELSE AutonomyRank[to] > AutonomyRank[autonomy]

\* GetTask: loosening is judged on the row as it is read here.
StartLevel(p) ==
  /\ \E column \in {"risk", "autonomy"} :
     \E to \in (IF column = "risk" THEN TaskRisks \ {risk} ELSE TaskAutonomies \ {autonomy}) :
       Start(p, "level", IF Loosens(column, to) THEN "authorizeLevel" ELSE "writeLevel",
             [op |-> "level", column |-> column, to |-> to])
  /\ Reading

AuthorizeLevel(p) ==
  /\ \/ Authorized(p) /\ Goto(p, "authorizeLevel", "writeLevel", mem[p])
     \/ ~Authorized(p) /\ Return(p, "authorizeLevel")
  /\ Reading

WriteLevel(p) ==
  /\ Return(p, "writeLevel")
  /\ IF mem[p].column = "risk" THEN risk' = mem[p].to /\ UNCHANGED autonomy
                               ELSE autonomy' = mem[p].to /\ UNCHANGED risk
  /\ Touch
  /\ UNCHANGED <<status, logs, env>>

SetStatus(p) ==
  /\ \E to \in (UsedStatuses \intersect MayBecome(status)) \ {"done"} : status' = to
  /\ UNCHANGED <<risk, autonomy>>
  /\ Touch
  /\ Start(p, "status", "idle", Nothing)
  /\ UNCHANGED <<logs, env>>

Change(p) == StartLevel(p) \/ AuthorizeLevel(p) \/ WriteLevel(p) \/ SetStatus(p)

-----------------------------------------------------------------------------
(* What happens around the processes.                                      *)

\* Killed: what it had not committed is lost, what it had read is forgotten.
Crash(p) ==
  /\ pc[p] # "idle"
  /\ Return(p, pc[p])
  /\ Reading

Used(call) == \E p \in Procs : call \in scenario.calls[p]

EditTree ==
  /\ Used("edit")
  /\ tree' \in Trees \ {tree}
  /\ UNCHANGED <<row, logs, approvers, token, scenario, pc, mem, calls>>

\* role add --can-approve: roles are never changed or removed.
AddApprovingRole ==
  /\ Used("role")
  /\ calls < scenario.max
  /\ calls' = calls + 1
  /\ approvers' = approvers + 1
  /\ UNCHANGED <<row, logs, token, tree, scenario, pc, mem>>

ToggleToken ==
  /\ Used("token")
  /\ calls < scenario.max
  /\ calls' = calls + 1
  /\ token' = ~token
  /\ UNCHANGED <<row, logs, approvers, tree, scenario, pc, mem>>

\* The scenario's calls are used up and every process has returned.
Rest ==
  /\ calls = scenario.max
  /\ \A p \in Procs : pc[p] = "idle"
  /\ UNCHANGED vars

Step(p) == Complete(p) \/ Verify(p) \/ Review(p) \/ Change(p) \/ Crash(p)

Next == EditTree \/ AddApprovingRole \/ ToggleToken \/ Rest \/ \E p \in Procs : Step(p)

Spec == Init /\ [][Next]_vars

-----------------------------------------------------------------------------
(* Properties.                                                             *)

\* Completing is atomic but for the seconds of the row's clock: every step of
\* every process is a step of AtomicCompletion, or changes nothing it knows.  In
\* particular `done` is entered only by a step at which the gate holds for the
\* checks, approvals and roles as they are at that instant and for levels the task
\* has had in the second its row was last written in, or with an override recorded
\* when for such levels it does not (complete.go, CompleteTask).
Unbounded(n, m) == TRUE
Atomic == INSTANCE AtomicCompletion WITH roled <- approvers > 0, Room <- Unbounded
ImplementsAtomic == Atomic!Spec

Finishes == status # "done" /\ status' = "done"
Forced   == approvals' # approvals

\* What the comment of gateInputs promises ("ids, counts and timestamps are enough
\* to see a change"): an unforced completion happens through a gate that holds for
\* the task as it is.  It fails where two level changes share a second.
DoneThroughTheGate ==
  [][(Finishes /\ ~Forced) =>
       \E current \in Trees \union {TreeUnavailable} :
         GateOK(risk, autonomy, checks, approvals, approvers > 0, current)]_vars

\* No interleaving of authorization, token changes and writes lets an agent
\* without the token approve a task or override its gate.
OnlyPeopleVouch ==
  \A i \in DOMAIN approvals :
    approvals[i].decision \in {"approved", "overridden"} => Person(vouchers[i])

-----------------------------------------------------------------------------
(* Why they hold.                                                          *)

\* Whoever is about to vouch was authorized, at whatever moment it was.
MayVouch(p) == pc[p] = "recordApproval" \/ (pc[p] = "commit" /\ mem[p].override)
VouchInv ==
  /\ Len(vouchers) = Len(approvals)
  /\ OnlyPeopleVouch
  /\ \A p \in Procs : MayVouch(p) => Person(p)

\* What a process at `at` that holds m knows of the inputs as they are now, and
\* of the levels had lately and the logs cs and as: the inputs it fingerprinted have
\* only grown since, and while a part of them is what it was, so is what the process
\* read of that part.
\* From its stamp the row is known only to have had the levels that were read.
Knows(at, m, now, had, cs, as) ==
  LET b == m.before IN
  /\ b.checks <= now.checks /\ b.approvals <= now.approvals
  /\ b.stamp <= now.stamp /\ b.approvers <= now.approvers
  /\ (at # "readTask" /\ b.stamp = now.stamp) => <<m.risk, m.autonomy>> \in had
  /\ (at \notin {"readTask", "readChecks"} /\ b.checks = now.checks) => m.checks = cs
  /\ (at \in {"judge", "authorizeOverride", "commit"} /\ b.approvals = now.approvals) =>
       m.approvals = as
  /\ (at = "authorizeOverride" /\ b.approvers = now.approvers) =>
       ~Verdict(m, now.approvers > 0)
  /\ (at = "commit" /\ b.approvers = now.approvers) =>
       (m.override <=> ~Verdict(m, now.approvers > 0))

Fingerprinted == CompletePhases \ {"attempt", "fingerprint"}
FingerprintInv ==
  \A p \in Procs :
    pc[p] \in Fingerprinted => Knows(pc[p], mem[p], Inputs, lately, checks, approvals)

=============================================================================
