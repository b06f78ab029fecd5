---------------------------- MODULE Orchestrator ----------------------------
(***************************************************************************)
(* `acline orchestrate`: processes that launch an agent on a task's next   *)
(* step, or on a plan, a spec or a question, inside a work session, and    *)
(* judge what it left behind (internal/orchestrate), next to people and    *)
(* agents who start and end sessions and change the same tasks.            *)
(*                                                                         *)
(* A transaction is one step, and so is a read of the store, of the stop   *)
(* file or of the working directory; the reads of one route, and those of  *)
(* a one-shot run's newest ids, are taken together.  Any call of the store *)
(* may fail (a locked or unreadable file) and the launcher goes on as its  *)
(* code does.  It may be interrupted, which it handles, or killed, which   *)
(* it cannot.  An approval token is enabled, as Preflight demands.         *)
(***************************************************************************)
EXTENDS Routing, Sessions

CONSTANTS
  Projects,
  Tasks,               \* positive numbers, the ids
  TaskRows,            \* the rows each task may start with
  Launchers,           \* the processes that orchestrate
  People, Outsiders,   \* the other processes: persons, agents of their own
  Holders,             \* those that are given the approval token
  Here,                \* the project each process's directory resolves to
  Modes,               \* what the launchers are asked for
  Trees,               \* fingerprints a directory can have; UnknownTree when unreadable
  Details,             \* what a failing check can say
  MaxSteps, MaxCost, StepBudget,   \* --max-steps, --max-cost, --step-budget (0: no limit)
  UsedCalls,           \* the commands the others give, and whether calls may fail
  MaxActs,             \* bound: what the agents of one launcher do
  MaxCalls,            \* bound: commands the others give, and calls that fail
  MaxSessions          \* bound: sessions there can be

Others == People \union Outsiders
Calls == {"start", "end", "status", "approve", "decide", "stop", "denied", "interrupt", "fault"}
UnknownTree == "unknown"

\* A task's row with the rows that hang off it, as Routing reads them.
Checks ==
  [kind : CheckKinds, status : CheckStatuses, source : CheckSources, by : ActorTypes,
   tree : {NoTree}, detail : Details]

TaskRow ==
  [status : TaskStatuses, deferred : BOOLEAN, risk : Risks, autonomy : Autonomies,
   project : Projects \union {NoProject}, priority : Nat,
   spec : {"none", "draft", "approved", "superseded"}, criteria : Nat, open : Nat,
   checks : Seq(Checks), approvals : Seq(ApprovalRecords({})), roled : BOOLEAN]

ASSUME OrchestratorAssumption ==
  /\ Tasks \subseteq Nat \ {0}
  /\ TaskRows \subseteq [Tasks -> TaskRow]
  /\ \A rows \in TaskRows : \A t \in Tasks : rows[t].open <= rows[t].criteria
  /\ Launchers \intersect Others = {}
  /\ Holders \subseteq Others
  /\ Here \in [Launchers \union Others -> Projects \union {NoProject}]
  /\ Modes \subseteq {"run", "step", "plan", "spec", "research"}
  /\ {MaxSteps, MaxCost, StepBudget, MaxActs, MaxCalls, MaxSessions} \subseteq Nat
  /\ Trees # {}
  /\ UsedCalls \subseteq Calls

VARIABLES
  db,       \* tasks, links, sessions, events, specs, plans, decisions, notes
  tree,     \* what hashing each project's directory gives
  stopFile, \* orchestrator.stop exists beside the store
  pc, mem,  \* each process: where it is, what it has read
  spent,    \* history: what the agents of each launcher really cost
  unread,   \* history: of that, what agents that exited 0 cost and did not report
  calls     \* commands given and calls failed

vars == <<db, tree, stopFile, pc, mem, spent, unread, calls>>

Procs == Launchers \union Others
OneShot == {"plan", "spec", "research"}

\* Where a launcher is, the stages of a launch in their order; then the others.
Choosing == {"choose", "drafts", "awaiting", "consider", "look", "vacant", "begin"}
Running  == {"launched", "baseline", "mark", "hash", "running", "rehash", "count", "end",
             "close", "credit", "log", "judge"}
Points   == Choosing \union Running \union
            {"new", "note", "chain", "ended", "dead", "idle", "ending"}

NoRoute == [task |-> 0]

\* upto and missed are history: the events there were when the agent returned,
\* and the calls of this step that failed.
Fresh(mode, target) ==
  [mode |-> mode, target |-> target, steps |-> 0, cost |-> 0, route |-> NoRoute,
   session |-> 0, base |-> <<>>, last |-> 0, before |-> UnknownTree, acts |-> 0,
   seen |-> <<0, 0>>, exit |-> "none", denials |-> 0, edited |-> FALSE,
   credit |-> 0, note |-> 0, cites |-> FALSE, interrupted |-> FALSE, stop |-> "none",
   upto |-> 0, missed |-> {}]
Idle == Fresh("none", 0)

EventTypes == {"status_change", "session_started", "session_ended", "orchestrator", "guard_denied"}

Databases ==
  [tasks : [Tasks -> TaskRow], links : SUBSET LinkRows(Tasks),
   sessions : Seq(SessionRows(Tasks, Projects)),
   events : Seq([type : EventTypes, session : Nat]),
   specs : Seq([status : {"approved", "draft"}]),
   plans : Seq([spec : Nat, status : {"draft", "approved", "rejected"}]),
   decisions : Seq([cited : BOOLEAN]), notes : Seq(Launchers)]

TypeOK ==
  /\ db \in Databases
  /\ \A t \in Tasks : db.tasks[t].open <= db.tasks[t].criteria
  /\ tree \in [Projects \union {NoProject} -> Trees \union {UnknownTree}]
  /\ pc \in [Procs -> Points]
  /\ spent \in [Launchers -> Nat] /\ unread \in [Launchers -> Nat]
  /\ calls \in 0 .. MaxCalls
  /\ \A p \in Procs : mem[p].session \in 0 .. Len(db.sessions)

Init ==
  /\ \E rows \in TaskRows :
       db = [tasks |-> rows, links |-> {}, sessions |-> <<>>, events |-> <<>>,
             specs |-> <<[status |-> "approved"]>>, plans |-> <<>>,
             decisions |-> <<>>, notes |-> <<>>]
  /\ tree = [d \in Projects \union {NoProject} |-> CHOOSE t \in Trees : TRUE]
  /\ stopFile = FALSE
  /\ pc = [p \in Procs |-> IF p \in Launchers THEN "new" ELSE "idle"]
  /\ mem = [p \in Procs |-> Idle]
  /\ spent = [o \in Launchers |-> 0] /\ unread = [o \in Launchers |-> 0]
  /\ calls = 0

Goto(p, where) == pc' = [pc EXCEPT ![p] = where]
Keep(p, m) == mem' = [mem EXCEPT ![p] = m]

\* A process that is over has no memory: all that is kept is what its last
\* session was and what became of that.
Over(m, why) ==
  [Fresh(m.mode, m.target) EXCEPT !.session = m.session, !.missed = m.missed, !.stop = why]
Ended(p, m, why) == Goto(p, "ended") /\ Keep(p, Over(m, why))

\* A call of the store fails, or does what it is for.
Failed == "fault" \in UsedCalls /\ calls < MaxCalls /\ calls' = calls + 1
Worked == UNCHANGED calls

\* What only agents and those who set the stop file change.
Outside == <<tree, stopFile, spent, unread>>

-----------------------------------------------------------------------------
(* Choosing a step: Run's limits, then chooseStep.                         *)

\* newOrchestrateRunCmd and its siblings.  target: a task, 0 to pick one; for a
\* plan the spec.
Launch(o) ==
  /\ pc[o] = "new"
  /\ \E mode \in Modes :
       /\ \E target \in CASE mode \in {"run", "step"} -> Tasks \union {0}
                          [] mode = "plan" -> DOMAIN db.specs
                          [] OTHER -> {0} :
            Keep(o, Fresh(mode, target))
       /\ Goto(o, IF mode \in {"spec", "research"} THEN "look" ELSE "choose")
  /\ UNCHANGED <<db, calls, Outside>>

\* What a process picks from: its own project's tasks, or all of them.
Scope(p) == {t \in Tasks : Here[p] \in {NoProject, db.tasks[t].project}}

Chosen(o, m) ==
  IF m.target # 0 THEN <<RouteTask(db.tasks, db.links, m.target)>>
  ELSE Pick(db.tasks, db.links, Scope(o))

AtStepLimit(m) == m.mode = "run" /\ MaxSteps > 0 /\ m.steps >= MaxSteps

AtCostLimit(m) == m.mode = "run" /\ MaxCost > 0 /\ m.cost >= MaxCost

\* The step's spend cap: its own budget, or what is left of the run's.
BudgetOf(m) ==
  LET left == MaxCost - m.cost IN
  IF m.mode = "run" /\ MaxCost > 0 /\ (StepBudget = 0 \/ left < StepBudget) THEN left
  ELSE StepBudget

Choose(o) ==
  /\ pc[o] = "choose" /\ mem[o].mode \in {"run", "step"}
  /\ LET m == mem[o]
         chosen == Chosen(o, m)
         free == ~AtStepLimit(m) /\ ~AtCostLimit(m)
     IN  \/ AtStepLimit(m) /\ Worked /\ Ended(o, m, "max_steps")
         \/ ~AtStepLimit(m) /\ AtCostLimit(m) /\ Worked /\ Ended(o, m, "budget")
         \/ free /\ Failed /\ Ended(o, m, "error")
         \/ free /\ Worked /\ chosen = <<>> /\ Ended(o, m, "nothing_to_do")
         \/ /\ free /\ Worked /\ chosen # <<>>
            /\ Keep(o, [m EXCEPT !.route = chosen[1]]) /\ Goto(o, "consider")
  /\ UNCHANGED <<db, Outside>>

\* The task is read again, and judged with the route read before.
Consider(o) ==
  /\ pc[o] = "consider"
  /\ LET m == mem[o]
         why == Eligible(db.tasks[m.route.task], m.route)
     IN  \/ Failed /\ Ended(o, m, "error")
         \/ Worked /\ why # "none" /\ Ended(o, m, why)
         \/ Worked /\ why = "none" /\ Goto(o, "look") /\ UNCHANGED mem
  /\ UNCHANGED <<db, Outside>>

\* Then the stop file, in every mode...
Look(o) ==
  /\ pc[o] = "look"
  /\ IF stopFile THEN Ended(o, mem[o], "killed") ELSE Goto(o, "vacant") /\ UNCHANGED mem
  /\ UNCHANGED <<db, calls, Outside>>

\* ... and the session that is current here; not to know of one is to go on.
Vacant(o) ==
  /\ pc[o] = "vacant"
  /\ LET current == CurrentSession(db.sessions, Here[o]) IN
     \/ Worked /\ current # 0 /\ Ended(o, mem[o], "session_active")
     \/ Worked /\ current = 0 /\ Goto(o, "begin") /\ UNCHANGED mem
     \/ Failed /\ Goto(o, "begin") /\ UNCHANGED mem
  /\ UNCHANGED <<db, Outside>>

-----------------------------------------------------------------------------
(* What Plan asks of its spec first; DraftSpec and Research ask nothing.   *)

PlansOf(spec, statuses) ==
  {i \in DOMAIN db.plans : db.plans[i].spec = spec /\ db.plans[i].status \in statuses}

\* The spec's status, its draft plans, and whether it awaits a plan: three reads.
Prepare(o) ==
  /\ mem[o].mode = "plan"
  /\ LET m == mem[o]
         spec == db.specs[m.target]
         next(where) == Goto(o, where) /\ UNCHANGED mem
     IN  \/ /\ pc[o] = "choose"
            /\ \/ Failed /\ Ended(o, m, "error")
               \/ Worked /\ spec.status # "approved" /\ Ended(o, m, "not_plannable")
               \/ Worked /\ spec.status = "approved" /\ next("drafts")
         \/ /\ pc[o] = "drafts"
            /\ \/ Failed /\ next("awaiting")
               \/ Worked /\ PlansOf(m.target, {"draft"}) # {} /\ Ended(o, m, "plan_exists")
               \/ Worked /\ PlansOf(m.target, {"draft"}) = {} /\ next("awaiting")
         \/ /\ pc[o] = "awaiting"
            /\ \/ Failed /\ Ended(o, m, "error")
               \/ /\ Worked /\ PlansOf(m.target, {"draft", "approved"}) # {}
                  /\ Ended(o, m, "not_plannable")
               \/ Worked /\ PlansOf(m.target, {"draft", "approved"}) = {} /\ next("look")
  /\ UNCHANGED <<db, Outside>>

-----------------------------------------------------------------------------
(* A step: its session, the agent, and what it left.                       *)

\* stepSession: defining criteria is linked to no task, so it does not start
\* the task; the one-shot roles may not edit files, nor may those of the route.
SessionFor(o, m) ==
  CASE m.mode \in OneShot -> [project |-> Here[o], task |-> NoTask, role |-> "read_only"]
    [] m.mode \notin OneShot /\ m.route.action = "define_criteria" ->
         [project |-> db.tasks[m.route.task].project, task |-> NoTask, role |-> "read_only"]
    [] OTHER ->
         [project |-> db.tasks[m.route.task].project, task |-> m.route.task,
          role |-> IF m.route.action = "verify" THEN "read_only" ELSE "editing"]

\* updateTaskStatus in BeginSession's transaction.
StartTask(d, t) ==
  IF t = NoTask THEN d
  ELSE [d EXCEPT !.tasks[t].status = "in_progress",
                 !.events = Append(@, [type |-> "status_change", session |-> 0])]

\* BeginSession: one transaction refuses a second session in the scope, moves
\* the task and inserts the session.
MayBegin(d, project, task) ==
  /\ Conflicts(d.sessions, project) = {}
  /\ task # NoTask => "in_progress" \in MayBecome(d.tasks[task].status)

BeginSession(d, project, task, role, restrictive) ==
  InsertSession(StartTask(d, task), project, task, role, restrictive)

LogEvent(d, type, session) ==
  [d EXCEPT !.events = Append(@, [type |-> type, session |-> session])]

BeginAs(o, m, s) ==
  IF MayBegin(db, s.project, s.task)
  THEN /\ Len(db.sessions) < MaxSessions
       /\ db' = BeginSession(db, s.project, s.task, s.role, FALSE)
       /\ Keep(o, [m EXCEPT !.session = Len(db.sessions) + 1, !.steps = @ + 1,
                            !.exit = "none", !.denials = 0, !.missed = {}])
       /\ Goto(o, "launched")
  ELSE /\ Ended(o, m, IF Conflicts(db.sessions, s.project) # {} THEN "session_active"
                      ELSE "error")
       /\ UNCHANGED db

\* A role that cannot be read is left out; anything else that fails ends the step.
Begin(o) ==
  /\ pc[o] = "begin"
  /\ LET m == mem[o]
         s == SessionFor(o, m)
     IN  \/ Worked /\ BeginAs(o, m, s)
         \/ Failed /\ BeginAs(o, m, [s EXCEPT !.role = "none"])
         \/ Failed /\ Ended(o, m, "error") /\ UNCHANGED db
  /\ UNCHANGED Outside

\* logDispatch: an event nobody waits for.
LogDispatch(o) ==
  \/ Worked /\ db' = LogEvent(db, "orchestrator", mem[o].session)
  \/ Failed /\ UNCHANGED db

Launched(o) ==
  /\ pc[o] = "launched" /\ LogDispatch(o) /\ Goto(o, "baseline")
  /\ UNCHANGED <<mem, Outside>>

\* The newest id of what a one-shot run may submit, and of notes.
Submissions(m) ==
  CASE m.mode = "plan" -> Len(db.plans) [] m.mode = "spec" -> Len(db.specs)
    [] OTHER -> Len(db.decisions)

NewestIds(m) == <<Submissions(m), Len(db.notes)>>

\* What the step is measured against, read after the session began: without a
\* route there is no step, while an id that cannot be read is 0.
Baseline(o) ==
  /\ pc[o] = "baseline"
  /\ LET m == mem[o] IN
     IF m.mode \in OneShot
     THEN /\ \/ Worked /\ Keep(o, [m EXCEPT !.seen = NewestIds(m)])
             \/ Failed /\ \E i \in {1, 2} : Keep(o, [m EXCEPT !.seen = [NewestIds(m) EXCEPT ![i] = 0]])
          /\ Goto(o, "mark")
     ELSE \/ /\ Worked
             /\ Keep(o, [m EXCEPT !.base = Signature(RouteTask(db.tasks, db.links, m.route.task))])
             /\ Goto(o, "mark")
          \/ Failed /\ Goto(o, "end") /\ UNCHANGED mem
  /\ UNCHANGED <<db, Outside>>

\* LatestEventID...
Mark(o) ==
  /\ pc[o] = "mark"
  /\ \/ Worked /\ Keep(o, [mem[o] EXCEPT !.last = Len(db.events)])
     \/ Failed /\ Keep(o, [mem[o] EXCEPT !.last = 0])
  /\ Goto(o, "hash")
  /\ UNCHANGED <<db, Outside>>

\* The project whose directory the agent works in: the task's, else the
\* launcher's own.
DirOf(o, m) ==
  IF m.mode \in OneShot \/ db.tasks[m.route.task].project = NoProject THEN Here[o]
  ELSE db.tasks[m.route.task].project

\* ... and the directory's fingerprint, before the agent and after it.
Hash(o) ==
  /\ pc[o] = "hash" /\ Goto(o, "running")
  /\ Keep(o, [mem[o] EXCEPT !.before = tree[DirOf(o, mem[o])]])
  /\ UNCHANGED <<db, calls, Outside>>

WorkspaceChanged(before, after) ==
  before # UnknownTree /\ after # UnknownTree /\ before # after

Rehash(o) ==
  /\ pc[o] = "rehash" /\ Goto(o, "count")
  /\ Keep(o, [mem[o] EXCEPT !.edited = WorkspaceChanged(mem[o].before, tree[DirOf(o, mem[o])])])
  /\ UNCHANGED <<db, calls, Outside>>

\* CountSessionEventsAfter; a count that fails is none.
Count(o) ==
  /\ pc[o] = "count" /\ Goto(o, "end")
  /\ LET m == mem[o] IN
     \/ /\ Worked
        /\ Keep(o, [m EXCEPT !.denials = Cardinality(DenialsAfter(db, m.session, m.last))])
     \/ Failed /\ Keep(o, [m EXCEPT !.denials = 0, !.missed = @ \union {"count"}])
  /\ UNCHANGED <<db, Outside>>

\* After endSession, whose error is dropped.  A step whose baseline could not
\* be read had no agent.
AfterEnd(o, m) ==
  IF m.exit = "none" THEN Ended(o, m, "error")
  ELSE Goto(o, IF m.mode \in OneShot THEN "credit" ELSE "log") /\ Keep(o, m)

Unclosed(m) == [m EXCEPT !.missed = @ \union {"close"}]

\* endSession: only when the session is the current one where the launcher is...
EndSession(o) ==
  /\ pc[o] = "end"
  /\ LET m == mem[o]
         ours == CurrentSession(db.sessions, Here[o]) = m.session
     IN  \/ Worked /\ ours /\ Goto(o, "close") /\ UNCHANGED mem
         \/ Worked /\ ~ours /\ AfterEnd(o, m)
         \/ Failed /\ AfterEnd(o, Unclosed(m))
  /\ UNCHANGED <<db, Outside>>

\* ... and by its id: EndLaunchedSession.
EndLaunchedSession(o) ==
  /\ pc[o] = "close"
  /\ LET m == mem[o] IN
     \/ Worked /\ db' = FinishSession(db, m.session) /\ AfterEnd(o, m)
     \/ Failed /\ UNCHANGED db /\ AfterEnd(o, Unclosed(m))
  /\ UNCHANGED Outside

\* The newest plan of the spec, spec, decision or note made since the start.
Newest0(ids) == IF ids = {} THEN 0 ELSE Largest(ids)

Credit(m) ==
  CASE m.mode = "plan" -> Newest0({i \in DOMAIN db.plans : i > m.seen[1] /\ db.plans[i].spec = m.target})
    [] m.mode = "spec" -> Newest0({i \in DOMAIN db.specs : i > m.seen[1]})
    [] OTHER -> Newest0({i \in DOMAIN db.decisions : i > m.seen[1]})

CreditNote(m) == IF m.mode = "research" THEN Newest0({i \in DOMAIN db.notes : i > m.seen[2]}) ELSE 0

Cited(m, id) == m.mode # "research" \/ id = 0 \/ db.decisions[id].cited

\* A read that fails finds nothing, and no citation.
FindCredit(o) ==
  /\ pc[o] = "credit" /\ Goto(o, "log")
  /\ LET m == mem[o]
         found(id, note, cites) ==
           Keep(o, [m EXCEPT !.credit = id, !.note = note, !.cites = cites])
     IN  \/ Worked /\ found(Credit(m), CreditNote(m), Cited(m, Credit(m)))
         \/ /\ Failed
            /\ \E id \in {0, Credit(m)}, note \in {0, CreditNote(m)} :
                 \E cites \in {FALSE, Cited(m, id)} : found(id, note, cites)
  /\ UNCHANGED <<db, Outside>>

LogFinish(o) ==
  /\ pc[o] = "log" /\ LogDispatch(o) /\ Goto(o, "judge")
  /\ UNCHANGED <<mem, Outside>>

\* Mutant: a timed out agent is not a failure.
JudgeStep_NoTimeout(m, unchanged) ==
  IF m.interrupted THEN "killed"
  ELSE IF m.exit = "unstartable" THEN "agent_failed"
  ELSE IF m.denials > 0 THEN "violation"
  ELSE IF m.exit = "failed" THEN "agent_failed"
  ELSE IF unchanged /\ ~m.edited THEN "no_progress"
  ELSE "none"

\* Mutant: an agent that does nothing is launched again.
JudgeStep_NoProgress(m, unchanged) ==
  IF m.interrupted THEN "killed"
  ELSE IF m.exit = "unstartable" THEN "agent_failed"
  ELSE IF m.denials > 0 THEN "violation"
  ELSE IF m.exit \in {"failed", "timeout"} THEN "agent_failed"
  ELSE "none"

JudgeStep(m, unchanged) ==
  IF m.interrupted THEN "killed"
  ELSE IF m.exit = "unstartable" THEN "agent_failed"
  ELSE IF m.denials > 0 THEN "violation"
  ELSE IF m.exit \in {"failed", "timeout"} THEN "agent_failed"
  ELSE IF unchanged /\ ~m.edited THEN "no_progress"
  ELSE "none"

\* How a judged step goes on: a stop that is the agent's doing is noted first.
Judged(o, why) ==
  IF why \in {"agent_failed", "no_progress", "violation"}
  THEN Goto(o, "note") /\ Keep(o, [mem[o] EXCEPT !.stop = why])
  ELSE IF why # "none" \/ mem[o].mode = "step" THEN Ended(o, mem[o], why)
  ELSE Goto(o, "chain") /\ UNCHANGED mem

Judge(o) ==
  /\ pc[o] = "judge" /\ mem[o].mode \in {"run", "step"}
  /\ LET m == mem[o]
         after == Signature(RouteTask(db.tasks, db.links, m.route.task))
     IN  \/ Worked /\ Judged(o, JudgeStep(m, after = m.base))
         \/ Failed /\ Ended(o, m, "error")
  /\ UNCHANGED <<db, Outside>>

\* How Plan, DraftSpec and Research judge a run that may change no file.
JudgeOneShot(m) ==
  IF m.interrupted THEN "killed"
  ELSE IF m.exit = "unstartable" THEN "agent_failed"
  ELSE IF m.edited \/ m.denials > 0 THEN "violation"
  ELSE IF m.credit = 0 /\ m.note = 0
       THEN IF m.exit \in {"failed", "timeout"} THEN "agent_failed" ELSE "no_progress"
  ELSE IF ~m.cites THEN "no_citations"
  ELSE "none"

Report(o) ==
  /\ pc[o] = "judge" /\ mem[o].mode \in OneShot
  /\ LET m == mem[o]
         why == JudgeOneShot(m)
     IN  IF m.credit = 0 /\ m.note = 0 /\ why # "killed"
         THEN Goto(o, "note") /\ Keep(o, [m EXCEPT !.stop = why])
         ELSE Ended(o, m, why)
  /\ UNCHANGED <<db, calls, Outside>>

AddNote(d, by) == [d EXCEPT !.notes = Append(@, by)]

\* A note that cannot be added is logged, by a step of a task.
Note(o) ==
  /\ pc[o] = "note" /\ Ended(o, mem[o], mem[o].stop)
  /\ \/ Worked /\ db' = AddNote(db, o)
     \/ /\ Failed
        /\ \/ mem[o].mode \notin OneShot /\ db' = LogEvent(db, "orchestrator", mem[o].session)
           \/ UNCHANGED db
  /\ UNCHANGED Outside

Chains(row) == row.autonomy = "auto"

\* Run: a task that is not auto waits for a person's review; one that cannot be
\* read does not.
Chain(o) ==
  /\ pc[o] = "chain"
  /\ LET goOn == Goto(o, "choose") /\ UNCHANGED mem IN
     \/ Failed /\ goOn
     \/ Worked /\ Chains(db.tasks[mem[o].route.task]) /\ goOn
     \/ Worked /\ ~Chains(db.tasks[mem[o].route.task]) /\ Ended(o, mem[o], "review_point")
  /\ UNCHANGED <<db, Outside>>

-----------------------------------------------------------------------------
(* The agent a launcher runs, confined to what Tools lets its step do.     *)

Act(o) ==
  /\ pc[o] = "running" /\ mem[o].acts < MaxActs
  /\ mem' = [mem EXCEPT ![o].acts = @ + 1]
  /\ UNCHANGED <<stopFile, pc, spent, unread, calls>>

OnTask(o, actions) == mem[o].mode \notin OneShot /\ mem[o].route.action \in actions

\* AddCriterion: a new one is not done.
Defined(row) == [row EXCEPT !.criteria = @ + 1, !.open = @ + 1]

AgentDefines(o) ==
  /\ Act(o) /\ OnTask(o, {"define_criteria"})
  /\ db' = [db EXCEPT !.tasks[mem[o].route.task] = Defined(@)]
  /\ UNCHANGED tree

\* `acline check run`: acline runs the project's test command and records it.
AgentChecks(o) ==
  /\ Act(o) /\ OnTask(o, {"start_work", "fix_failing_checks", "verify"})
  /\ \E status \in {"pass", "fail"}, detail \in Details :
       db' = [db EXCEPT !.tasks[mem[o].route.task].checks =
                Append(@, [kind |-> "test", status |-> status, source |-> "runner",
                           by |-> "agent", tree |-> NoTree, detail |-> detail])]
  /\ UNCHANGED tree

AgentEdits(o) ==
  /\ Act(o) /\ OnTask(o, {"start_work", "fix_failing_checks"})
  /\ \E t \in (Trees \union {UnknownTree}) \ {tree[DirOf(o, mem[o])]} :
       tree' = [tree EXCEPT ![DirOf(o, mem[o])] = t]
  /\ UNCHANGED db

\* The guard denies one of its tool calls, and logs that in the session current
\* where the agent is.
AgentDenied(o) ==
  /\ Act(o)
  /\ db' = LogEvent(db, "guard_denied", CurrentSession(db.sessions, DirOf(o, mem[o])))
  /\ UNCHANGED tree

AddPlan(d, spec) ==
  [d EXCEPT !.plans = Append(@, [spec |-> spec, status |-> "draft"])]

AgentSubmits(o) ==
  /\ Act(o)
  /\ LET m == mem[o] IN
     \/ /\ m.mode = "plan" /\ PlansOf(m.target, {"draft", "approved"}) = {}
        /\ db' = AddPlan(db, m.target)
     \/ /\ m.mode = "spec"
        /\ db' = [db EXCEPT !.specs = Append(@, [status |-> "draft"])]
     \/ /\ m.mode = "research"
        /\ \/ \E cited \in BOOLEAN : db' = [db EXCEPT !.decisions = Append(@, [cited |-> cited])]
           \/ db' = AddNote(db, o)
  /\ UNCHANGED tree

Outcomes == {"ok", "failed", "timeout", "unstartable"}

\* agent.Run returns, within the step's timeout: by itself, or killed with its
\* process group.  No agent spends more than its cap.  What it spent is known
\* from the one JSON object it should print; any other output, or a line more
\* on either stream, and its cost counts as 0 (parseReport), however it exits.
AgentExits(o) ==
  /\ pc[o] = "running" /\ Goto(o, "rehash")
  /\ \E how \in Outcomes, cost \in 0 .. BudgetOf(mem[o]) :
     \E counted \in {0, cost} :
       /\ Keep(o, [mem[o] EXCEPT !.exit = how, !.cost = @ + counted, !.upto = Len(db.events)])
       /\ spent' = [spent EXCEPT ![o] = @ + cost]
       /\ unread' = [unread EXCEPT ![o] = IF how = "ok" THEN @ + (cost - counted) ELSE @]
  /\ UNCHANGED <<db, tree, stopFile, calls>>

\* A person interrupts or terminates it: the context is cancelled.
Interrupt(o) ==
  /\ pc[o] \notin {"new", "ended", "dead"} /\ ~mem[o].interrupted
  /\ "interrupt" \in UsedCalls /\ calls < MaxCalls /\ calls' = calls + 1
  /\ Keep(o, [mem[o] EXCEPT !.interrupted = TRUE])
  /\ UNCHANGED <<db, pc, Outside>>

Kill(o) ==
  /\ pc[o] \notin {"new", "ended", "dead"}
  /\ Goto(o, "dead") /\ Keep(o, Over(mem[o], "dead"))
  /\ UNCHANGED <<db, calls, Outside>>

-----------------------------------------------------------------------------
(* The others.                                                             *)

Command(p, call) ==
  /\ pc[p] = "idle" /\ call \in UsedCalls /\ calls < MaxCalls
  /\ calls' = calls + 1

\* `acline session start`, with no task or the one `acline next` names:
\* StartSession takes the task's project, else the one of the directory.
StartSession(p) ==
  /\ Command(p, "start") /\ Len(db.sessions) < MaxSessions
  /\ \E role \in {"none", "read_only"}, restrictive \in BOOLEAN,
        next \in {<<>>, NextTask(db.tasks, db.links, Scope(p))} :
       LET task    == IF next = <<>> THEN NoTask ELSE next[1].task
           project == IF task # NoTask /\ db.tasks[task].project # NoProject
                      THEN db.tasks[task].project ELSE Here[p]
       IN  /\ MayBegin(db, project, task)
           /\ db' = BeginSession(db, project, task, role, restrictive)
  /\ UNCHANGED <<pc, mem, Outside>>

\* Who may end a session that confines or is read-only: who presents the token,
\* which lets an agent through as well (authorize, requirePerson).
MayEnd(p, s) == s.restrictive \/ s.role = "read_only" => p \in Holders

\* `acline session end`: the session is read and judged first...
ReadSession(p) ==
  /\ Command(p, "end")
  /\ LET id == CurrentSession(db.sessions, Here[p]) IN
     /\ id # 0 /\ MayEnd(p, db.sessions[id])
     /\ Keep(p, [mem[p] EXCEPT !.session = id])
  /\ Goto(p, "ending")
  /\ UNCHANGED <<db, Outside>>

\* Mutant: the update ends whatever session is current by now.
Ending_Current(p) ==
  LET now == CurrentSession(db.sessions, Here[p]) IN IF now = 0 THEN mem[p].session ELSE now

Ending(p) == mem[p].session

\* ... and closed by its id.
CloseSession(p) ==
  /\ pc[p] = "ending"
  /\ db' = FinishSession(db, Ending(p))
  /\ Keep(p, Idle) /\ Goto(p, "idle")
  /\ UNCHANGED <<calls, Outside>>

\* A person moves a task along: a status, a review...
SetStatus(p) ==
  /\ Command(p, "status") /\ p \in People
  /\ \E t \in Tasks, status \in {"todo", "blocked", "done"} :
       /\ status \in MayBecome(db.tasks[t].status)
       /\ db' = [db EXCEPT !.tasks[t].status = status]
  /\ UNCHANGED <<pc, mem, Outside>>

\* ... of what the queue shows as waiting for it, in a role or in none.
Approve(p) ==
  /\ Command(p, "approve") /\ p \in Holders
  /\ \E t \in AwaitingApproval(db.tasks), role \in {"none", "approver"} :
       db' = [db EXCEPT !.tasks[t].approvals =
                Append(@, [kind |-> "code_review", decision |-> "approved", role |-> role,
                           tree |-> NoTree])]
  /\ UNCHANGED <<pc, mem, Outside>>

\* RejectPlan and ApprovePlan, as far as Plan reads their outcome.
DecidePlan(p) ==
  /\ Command(p, "decide") /\ p \in Holders
  /\ \E i \in DOMAIN db.plans, to \in {"approved", "rejected"} :
       db.plans[i].status = "draft" /\ db' = [db EXCEPT !.plans[i].status = to]
  /\ UNCHANGED <<pc, mem, Outside>>

\* The guard denies another agent a tool call, in the session current where it is.
OtherDenied(p) ==
  /\ Command(p, "denied") /\ p \in Outsiders
  /\ db' = LogEvent(db, "guard_denied", CurrentSession(db.sessions, Here[p]))
  /\ UNCHANGED <<pc, mem, Outside>>

\* `acline orchestrate stop` and stop --clear.
StopFile(p) ==
  /\ Command(p, "stop") /\ stopFile' = ~stopFile
  /\ UNCHANGED <<db, tree, pc, mem, spent, unread>>

Other(p) == \/ StartSession(p) \/ ReadSession(p) \/ CloseSession(p) \/ SetStatus(p)
            \/ Approve(p) \/ DecidePlan(p) \/ OtherDenied(p) \/ StopFile(p)

\* runStep and its likes: what every launch has, its session, its agent, its end.
InSession(o) ==
  \/ Look(o) \/ Vacant(o) \/ Begin(o) \/ Launched(o) \/ Baseline(o) \/ Mark(o) \/ Hash(o)
  \/ AgentExits(o) \/ Rehash(o) \/ Count(o) \/ EndSession(o) \/ EndLaunchedSession(o)
  \/ LogFinish(o) \/ Note(o)

Run(o)       == /\ mem[o].mode \in {"run", "step"}
                /\ Choose(o) \/ Consider(o) \/ InSession(o) \/ Judge(o) \/ Chain(o)
Plan(o)      == /\ mem[o].mode = "plan"
                /\ Prepare(o) \/ InSession(o) \/ FindCredit(o) \/ Report(o)
DraftSpec(o) == mem[o].mode = "spec" /\ (InSession(o) \/ FindCredit(o) \/ Report(o))
Research(o)  == mem[o].mode = "research" /\ (InSession(o) \/ FindCredit(o) \/ Report(o))

Orchestrate(o) == Run(o) \/ Plan(o) \/ DraftSpec(o) \/ Research(o)

Agent(o) == \/ AgentDefines(o) \/ AgentChecks(o) \/ AgentEdits(o) \/ AgentDenied(o)
            \/ AgentSubmits(o)

Next == \/ \E o \in Launchers : Launch(o) \/ Orchestrate(o) \/ Agent(o) \/ Interrupt(o) \/ Kill(o)
        \/ \E p \in Others : Other(p)

\* An orchestrator that runs goes on, its agent ends within its timeout, and a
\* command under way is finished.  Nobody has to start one, nor to act at all.
Fairness == /\ \A o \in Launchers : WF_vars(Orchestrate(o))
            /\ \A p \in Others : WF_vars(CloseSession(p))

Spec == Init /\ [][Next]_vars /\ Fairness

-----------------------------------------------------------------------------
(* Properties.                                                             *)

\* Two sessions that apply to one directory are never open together, whatever
\* interleaving of starts (BeginSession's count in its own transaction).
OneSessionPerScope ==
  \A i, j \in OpenSessions(db.sessions) :
    i # j => /\ db.sessions[i].project # NoProject
             /\ db.sessions[i].project # db.sessions[j].project

\* The audit trail has exactly one start and, once it is over, one end of every
\* session, when several processes end it at once (finishSession).
SessionsInTheTrail ==
  \A id \in DOMAIN db.sessions :
    LET of(type) == {i \in DOMAIN db.events : db.events[i] = [type |-> type, session |-> id]} IN
    /\ Cardinality(of("session_started")) = 1
    /\ Cardinality(of("session_ended")) = IF db.sessions[id].open THEN 0 ELSE 1

\* A run's agents cost no more than --max-cost, counting those that were killed
\* or failed, save for what an agent that exited 0 did not report: that buys the
\* run as much again (Run's budget, judgeStep, parseReport).
SpendCapHolds ==
  \A o \in Launchers :
    mem[o].mode = "run" /\ MaxCost > 0 => spent[o] <= MaxCost + unread[o]

\* orchestrate.go:235 says of --max-cost: "stop when total spend reaches this
\* many USD".
StopsAtMaxCost ==
  \A o \in Launchers : mem[o].mode = "run" /\ MaxCost > 0 => spent[o] <= MaxCost

\* The denials of a launcher's last step: those its session has from the mark to
\* its agent's return.
DeniedInStep(d, m) == {i \in DenialsAfter(d, m.session, m.last) : i <= m.upto}

\* Once the guard has denied something in a step's own session, before its agent
\* returned, its run launches no further step (CountSessionEventsAfter,
\* judgeStep), whatever other agents do in that session, unless the count failed.
DenialStopsTheRun ==
  \A o \in Launchers :
    pc[o] \in Choosing \union {"chain"} =>
      DeniedInStep(db, mem[o]) = {} \/ "count" \in mem[o].missed

\* A session that confines its agent, or runs as a read-only role, is closed
\* only by someone who may end it or by the process that launched it, though
\* EndSession reads it in one step and closes it in another.
ConfinedUntilAllowed ==
  [][\A id \in DOMAIN db.sessions :
       db.sessions[id].open /\ ~db'.sessions[id].open =>
         \/ \E o \in Launchers : pc[o] = "close" /\ pc'[o] # "close" /\ mem[o].session = id
         \/ \E p \in Others : pc[p] = "ending" /\ pc'[p] = "idle" /\ MayEnd(p, db.sessions[id])]_vars

\* A launch that is not killed comes to an end, without --max-steps too, once
\* its agents leave nothing new behind (judgeStep), and whichever calls fail.
RunEnds ==
  \A o \in Launchers : pc[o] \notin {"new", "ended", "dead"} ~> pc[o] \in {"ended", "dead"}

\* A session a launcher began where its own directory resolves is closed again,
\* unless the launcher is killed or endSession, whose error it drops, failed.
LaunchedAt(o) ==
  /\ mem[o].session # 0
  /\ db.sessions[mem[o].session].open
  /\ db.sessions[mem[o].session].project \in {Here[o], NoProject}

LaunchedSessionsEnd ==
  \A o \in Launchers :
    LaunchedAt(o) ~> ~LaunchedAt(o) \/ pc[o] = "dead" \/ "close" \in mem[o].missed

\* Sessions exclude each other and each is told once, whoever begins and ends them
\* (session.go).
SessionsInOrder ==
  /\ TypeOK
  /\ OneSessionPerScope
  /\ SessionsInTheTrail

\* A run keeps to what it may spend, and stops at a denial (orchestrate.go).
RunsKeepTheirLimits ==
  /\ SpendCapHolds
  /\ DenialStopsTheRun

\* Runs end, and leave no session of theirs open (Run, endSession).
RunsEndCleanly ==
  /\ RunEnds
  /\ LaunchedSessionsEnd

=============================================================================
