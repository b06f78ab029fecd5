-------------------------------- MODULE Plans --------------------------------
(***************************************************************************)
(* From an approved spec to tasks: proposing, revising, editing, approving *)
(* and rejecting plans (internal/store/plan.go) while the specs change.    *)
(*                                                                         *)
(* A plan's status never returns to draft, so the checks made before a     *)
(* transaction that it is one refuse nothing the transaction would not,    *)
(* and are left out.  What is read of the spec is a step of its own.       *)
(***************************************************************************)
EXTENDS SpecRows, Sequences, FiniteSets

CONSTANTS
  Procs,          \* the processes
  Agents,         \* those whose actor type is agent; the others are people
  Deciders,       \* those requirePerson lets through
  Refs,           \* names a plan's items can have
  Wordings,       \* what an item can say: title, risk, autonomy, size, milestone
  UsedCalls,      \* the commands the model's processes give
  MaxCalls        \* bound: commands given, and changes of specs, in one behaviour

Calls == {"propose", "revise", "edit", "approve", "reject", "spec"}

ASSUME PlansAssumption == /\ Deciders \subseteq Procs /\ Agents \subseteq Procs
                          /\ UsedCalls \subseteq Calls
                          /\ MaxCalls \in Nat

VARIABLES
  plans,                    \* the plans table, each with its items, in id order
  created,                  \* the tasks each approval created, in order
  pc, mem,                  \* each process: where it is, what it has read
  calls                     \* commands given so far

vars == <<specVars, plans, created, pc, mem, calls>>

-----------------------------------------------------------------------------
(* What a plan may propose: normalizeAndValidate.                          *)

\* Items wait for each other through depends_on and parents, here one relation.
Acyclic(needs) ==
  \A R \in SUBSET Refs : R # {} => \E i \in R : \A j \in R : <<i, j>> \notin needs

\* Named items, at least one, with dependencies among them.
ValidInputs ==
  UNION {[items : [R -> Wordings], needs : {n \in SUBSET (R \X R) : Acyclic(n)}] :
           R \in (SUBSET Refs) \ {{}}}

PlanStatuses == {"draft", "approved", "rejected", "superseded"}

\* Mutant: a plan starts in a status no transition knows.
PlanRecord_Proposed(s, specVersion, version, in) ==
  [spec |-> s, specVersion |-> specVersion, version |-> version, status |-> "proposed",
   items |-> in.items, dropped |-> {}, needs |-> in.needs]

PlanRecord(s, specVersion, version, in) ==
  [spec |-> s, specVersion |-> specVersion, version |-> version, status |-> "draft",
   items |-> in.items, dropped |-> {}, needs |-> in.needs]

Kept(plan) == DOMAIN plan.items \ plan.dropped

\* The tasks approving a plan creates, by the item each comes from: dropped
\* items are skipped, and with them the links to them.
TasksOf(plan) ==
  [r \in Kept(plan) |-> [wording |-> plan.items[r],
                         needs   |-> {d \in Kept(plan) : <<r, d>> \in plan.needs}]]

-----------------------------------------------------------------------------
\* Items and dependencies as rows of their own tables hold them.
Items == UNION {[R -> Wordings] : R \in (SUBSET Refs) \ {{}}}
PlanRecords ==
  [spec : Specs, specVersion : Nat, version : Nat, status : PlanStatuses,
   items : Items, dropped : SUBSET Refs, needs : SUBSET (Refs \X Refs)]
Tasks == UNION {[R -> [wording : Wordings, needs : SUBSET Refs]] : R \in SUBSET Refs}

Nothing    == [op |-> "none"]
ProposeMem == [op : {"propose"}, spec : Specs, specVersion : Nat, in : ValidInputs]
ReviseMem  == [op : {"revise"}, plan : DOMAIN plans, specVersion : Nat, in : ValidInputs]
ApproveMem == [op : {"approve"}, plan : DOMAIN plans]

TypeOK ==
  /\ RowsTypeOK
  /\ plans \in Seq(PlanRecords)
  /\ created \in Seq([plan : DOMAIN plans, tasks : Tasks, of : Versions])
  /\ DOMAIN pc = Procs /\ DOMAIN mem = Procs
  /\ \A p \in Procs : \/ pc[p] = "idle" /\ mem[p] = Nothing
                      \/ pc[p] = "propose" /\ mem[p] \in ProposeMem
                      \/ pc[p] = "revise" /\ mem[p] \in ReviseMem
                      \/ pc[p] = "approve" /\ mem[p] \in ApproveMem
  /\ calls \in Nat

Init ==
  /\ SpecInit
  /\ plans = <<>>
  /\ created = <<>>
  /\ pc = [p \in Procs |-> "idle"]
  /\ mem = [p \in Procs |-> Nothing]
  /\ calls = 0

Call(call) ==
  /\ call \in UsedCalls
  /\ calls < MaxCalls
  /\ calls' = calls + 1

Start(p, call, to, m) ==
  /\ pc[p] = "idle"
  /\ Call(call)
  /\ pc' = [pc EXCEPT ![p] = to]
  /\ mem' = [mem EXCEPT ![p] = m]

Return(p, from) ==
  /\ pc[p] = from
  /\ pc' = [pc EXCEPT ![p] = "idle"]
  /\ mem' = [mem EXCEPT ![p] = Nothing]
  /\ UNCHANGED calls

Reading == UNCHANGED <<specVars, plans, created>>

Of(s)     == {i \in DOMAIN plans : plans[i].spec = s}
Drafts(s) == {i \in Of(s) : plans[i].status = "draft"}

-----------------------------------------------------------------------------
(* ProposePlan and RevisePlan.                                             *)

\* approvedSpec: only an approved spec can be planned, as it is read here.
StartPropose(p) ==
  /\ \E s \in Specs, in \in ValidInputs :
       /\ row[s].status = "approved"
       /\ Start(p, "propose", "propose",
                [op |-> "propose", spec |-> s, specVersion |-> row[s].version, in |-> in])
  /\ Reading

\* Mutants: numbered by how many there are still in play; drafts not looked for
\* under the write lock.
NextVersion_Open(s) ==
  1 + Cardinality({i \in Of(s) : plans[i].status \in {"draft", "approved"}})
MayPropose_Read(s) == TRUE

NextVersion(s) ==
  IF Of(s) = {} THEN 1
  ELSE 1 + CHOOSE v \in {plans[i].version : i \in Of(s)} : \A i \in Of(s) : plans[i].version <= v

MayPropose(s) == Drafts(s) = {}

CommitPropose(p) ==
  LET m == mem[p] IN
  /\ Return(p, "propose")
  /\ IF MayPropose(m.spec)
       THEN plans' = Append(plans, PlanRecord(m.spec, m.specVersion, NextVersion(m.spec), m.in))
       ELSE UNCHANGED plans
  /\ UNCHANGED <<specVars, created>>

StartRevise(p) ==
  /\ \E i \in DOMAIN plans, in \in ValidInputs :
       /\ plans[i].status = "draft"
       /\ row[plans[i].spec].status = "approved"
       /\ Start(p, "revise", "revise",
                [op |-> "revise", plan |-> i, specVersion |-> row[plans[i].spec].version,
                 in |-> in])
  /\ Reading

CommitRevise(p) ==
  LET old == plans[mem[p].plan] IN
  /\ Return(p, "revise")
  /\ IF old.status = "draft"
       THEN plans' = Append([plans EXCEPT ![mem[p].plan].status = "superseded"],
                            PlanRecord(old.spec, mem[p].specVersion, old.version + 1, mem[p].in))
       ELSE UNCHANGED plans
  /\ UNCHANGED <<specVars, created>>

-----------------------------------------------------------------------------
(* EditPlanItem, RejectPlan, ApprovePlan.                                  *)

MayEdit(i) == plans[i].status = "draft"

EditPlanItem(p) ==
  /\ p \in Deciders
  /\ \E i \in DOMAIN plans : \E r \in DOMAIN plans[i].items :
       /\ MayEdit(i)
       /\ \/ \E w \in Wordings : plans' = [plans EXCEPT ![i].items[r] = w]
          \/ plans' = [plans EXCEPT ![i].dropped = @ \union {r}]
          \/ plans' = [plans EXCEPT ![i].dropped = @ \ {r}]
  /\ Start(p, "edit", "idle", Nothing)
  /\ UNCHANGED <<specVars, created>>

\* Open to every person, token or not, and to no agent.
RejectPlan(p) ==
  /\ p \notin Agents
  /\ \E i \in DOMAIN plans :
       /\ plans[i].status = "draft"
       /\ plans' = [plans EXCEPT ![i].status = "rejected"]
  /\ Start(p, "reject", "idle", Nothing)
  /\ UNCHANGED <<specVars, created>>

StartApprove(p) ==
  /\ p \in Deciders
  /\ \E i \in DOMAIN plans :
       /\ plans[i].status = "draft"
       /\ row[plans[i].spec].status = "approved"
       /\ row[plans[i].spec].version = plans[i].specVersion
       /\ Start(p, "approve", "approve", [op |-> "approve", plan |-> i])
  /\ Reading

\* Mutants: the spec is not read again, the plan is not.
Approvable_OldSpec(i) == plans[i].status = "draft" /\ Kept(plans[i]) # {}
Approvable_OldPlan(i) ==
  row[plans[i].spec].version = plans[i].specVersion /\ Kept(plans[i]) # {}

\* approvablePlanItems, under the write lock: the spec's version is read again,
\* and not its status.
Approvable(i) ==
  /\ plans[i].status = "draft"
  /\ row[plans[i].spec].version = plans[i].specVersion
  /\ Kept(plans[i]) # {}

CommitApprove(p) ==
  LET i == mem[p].plan IN
  /\ Return(p, "approve")
  /\ IF Approvable(i)
       THEN /\ plans' = [plans EXCEPT ![i].status = "approved"]
            /\ created' = Append(created, [plan |-> i, tasks |-> TasksOf(plans[i]),
                                           of |-> Version(plans[i].spec)])
       ELSE UNCHANGED <<plans, created>>
  /\ UNCHANGED specVars

-----------------------------------------------------------------------------
\* A transaction of spec.go, run by some other process.
ChangeSpec ==
  /\ SpecNext
  /\ Call("spec")
  /\ UNCHANGED <<plans, created, pc, mem>>

\* Killed: what it had not committed is lost, what it had read is forgotten.
Crash(p) ==
  /\ pc[p] # "idle"
  /\ Return(p, pc[p])
  /\ Reading

\* The model's calls are used up and every process has returned.
Rest ==
  /\ calls = MaxCalls
  /\ \A p \in Procs : pc[p] = "idle"
  /\ UNCHANGED vars

Step(p) ==
  \/ StartPropose(p) \/ CommitPropose(p)
  \/ StartRevise(p) \/ CommitRevise(p)
  \/ EditPlanItem(p) \/ RejectPlan(p)
  \/ StartApprove(p) \/ CommitApprove(p)
  \/ Crash(p)

Next == Rest \/ ChangeSpec \/ \E p \in Procs : Step(p)

Spec == Init /\ [][Next]_vars

-----------------------------------------------------------------------------
(* Properties.                                                             *)

\* A person is never asked to decide two drafts for one spec, however proposals
\* and revisions interleave (plan.go, ErrPlanDraftExists).
OneDraftPerSpec == \A s \in Specs : \A i, j \in Drafts(s) : i = j

\* Later plans of a spec have higher versions, though RevisePlan counts from the
\* plan it replaces and ProposePlan from the highest: the plan a review compares
\* with is the one before (plandiff.go, PlanDiff).
VersionsGrow ==
  \A i, j \in DOMAIN plans :
    (plans[i].spec = plans[j].spec /\ i < j) => plans[i].version < plans[j].version

\* A plan is carried out once and as it stands: an approved plan created its
\* tasks in one approval, those tasks are still what its items say, and no other
\* plan has any; no task waits for an item that was dropped.
CarriedOutOnce ==
  /\ \A i \in DOMAIN plans :
       plans[i].status = "approved" <=> \E n \in DOMAIN created : created[n].plan = i
  /\ \A m, n \in DOMAIN created : created[m].plan = created[n].plan => m = n
  /\ \A n \in DOMAIN created : created[n].tasks = TasksOf(plans[created[n].plan])

\* Every plan is for a version of its spec that a person approved, and its tasks
\* were created while the spec still said what that person read, whatever was
\* revised between reading the spec and writing the plan or its tasks.
PlansRestOnApprovedText ==
  /\ \A i \in DOMAIN plans :
       \E v \in vouched : v.spec = plans[i].spec /\ v.version = plans[i].specVersion
  /\ \A n \in DOMAIN created :
       /\ created[n].of \in vouched
       /\ created[n].of.spec = plans[created[n].plan].spec
       /\ created[n].of.version = plans[created[n].plan].specVersion

=============================================================================
