------------------------------ MODULE Routing -------------------------------
(***************************************************************************)
(* What should happen to a task next and who may do it, decided from       *)
(* recorded state alone: internal/store/route.go, the launch rules of      *)
(* internal/orchestrate and the person's queue of internal/app/queue.go.   *)
(*                                                                         *)
(* rows maps a task id to its row with the rows that hang off it:          *)
(*   status, deferred, risk, autonomy, project, priority                   *)
(*   spec      "none" or the status of its spec                            *)
(*   criteria  how many it has;  open  how many of them are not done       *)
(*   checks, approvals   its logs, as Gate reads them; a check's row also  *)
(*             has its detail, the wording of what it found                *)
(*   roled     whether its project has a can_approve role                  *)
(* A suggested role and the lessons recalled are advice and left out.      *)
(***************************************************************************)
EXTENDS Gate, Links

Open(row) == row.status \notin {"done", "cancelled"}

Step(action, human) == [action |-> action, human |-> human]
Undecided == Step("undecided", FALSE)

-----------------------------------------------------------------------------

\* routeOnState: a task its own state holds up.
RouteOnState(rows, links, t) ==
  CASE rows[t].status = "blocked"                 -> Step("resolve_blocker", TRUE)
    [] rows[t].status # "blocked" /\ rows[t].spec = "draft" -> Step("approve_spec", TRUE)
    [] /\ rows[t].status # "blocked" /\ rows[t].spec # "draft"
       /\ OpenPrerequisites(rows, links, t) # {}  -> Step("wait_on_dependency", FALSE)
    [] OTHER                                      -> Undecided

\* Each as its kind and its detail.
FailingChecks(row) ==
  {<<c.kind, c.detail>> : c \in {x \in LatestChecks(row.checks) : x.status = "fail"}}

SkippedScan(row) ==
  /\ HighRisk(row.risk)
  /\ \E c \in LatestChecks(row.checks) : c.kind \in {"sast", "sca"} /\ c.status = "skipped"

EverySkipped(latest) == latest # {} /\ \A c \in latest : c.status = "skipped"

\* routeOnChecks: a task its checks decide.
RouteOnChecks(row) ==
  IF FailingChecks(row) # {} THEN Step("fix_failing_checks", FALSE)
  ELSE IF SkippedScan(row) \/ EverySkipped(LatestChecks(row.checks)) THEN Step("verify", FALSE)
  ELSE IF row.checks # <<>> THEN Undecided
  ELSE IF row.status \notin {"backlog", "todo"} THEN Step("verify", FALSE)
  ELSE IF row.criteria = 0 THEN Step("define_criteria", FALSE)
  ELSE Step("start_work", FALSE)

\* The gate RouteTask evaluates knows no tree.
RouteOnGate(row) ==
  IF AgentBlockers(row.risk, row.checks, NoTree) # {} THEN Step("verify", FALSE)
  ELSE IF PersonBlockers(row.risk, row.autonomy, row.approvals, row.roled, NoTree) # {}
       THEN Step("request_approval", TRUE)
  ELSE Step("complete", FALSE)

Decided(rows, links, t) ==
  IF ~Open(rows[t]) \/ rows[t].deferred THEN Step("none", FALSE)
  ELSE IF RouteOnState(rows, links, t) # Undecided THEN RouteOnState(rows, links, t)
  ELSE IF RouteOnChecks(rows[t]) # Undecided THEN RouteOnChecks(rows[t])
  ELSE RouteOnGate(rows[t])

\* How many blockers the route lists: those of the gate, once it decides.
Blockers(row, action) ==
  CASE action = "verify" /\ RouteOnChecks(row) = Undecided ->
         Cardinality(AgentBlockers(row.risk, row.checks, NoTree))
    [] action = "request_approval" ->
         Cardinality(PersonBlockers(row.risk, row.autonomy, row.approvals, row.roled, NoTree))
    [] OTHER -> 0

RouteTask(rows, links, t) ==
  LET step == Decided(rows, links, t) IN
  [task     |-> t,
   status   |-> rows[t].status,
   action   |-> step.action,
   human    |-> step.human,
   failing  |-> IF step.action = "fix_failing_checks" THEN FailingChecks(rows[t]) ELSE {},
   blockers |-> Blockers(rows[t], step.action),
   open     |-> IF step.action = "none" THEN 0 ELSE rows[t].open]

-----------------------------------------------------------------------------
(* The launch rules of internal/orchestrate.                               *)

Eligible(row, route) ==
  CASE route.action = "none"               -> "nothing_to_do"
    [] route.action = "wait_on_dependency" -> "waiting"
    [] route.human                         -> "needs_a_person"
    [] route.action = "complete"           -> "ready_to_complete"
    [] row.autonomy = "hitl" \/ HighRisk(row.risk) -> "supervised"
    [] OTHER                               -> "none"

\* signature: the part of a route a step is supposed to change.
Signature(route) ==
  <<route.action, route.status, route.failing, route.blockers, route.open>>

\* ListTasks' order: the most urgent first, then in id order.
Before(rows, t, u) == \/ rows[t].priority < rows[u].priority
                      \/ rows[t].priority = rows[u].priority /\ t < u

\* Of some tasks' routes, that of the task ListTasks lists first.
ListedFirst(rows, routes) ==
  CHOOSE r \in routes : \A s \in routes \ {r} : Before(rows, r.task, s.task)

\* The routes, of a scope's open tasks, that lead anywhere.
LiveRoutes(rows, links, scope) ==
  {r \in {RouteTask(rows, links, t) : t \in {u \in scope : Open(rows[u])}} : r.action # "none"}

\* A walk down the list: the first route wanted, else the first there is.
FirstRoute(rows, wanted, live) ==
  IF live = {} THEN <<>> ELSE <<ListedFirst(rows, IF wanted # {} THEN wanted ELSE live)>>

\* pick: the task the orchestrator works on when none is named: the first it may
\* launch an agent on, else the first there is.
Pick(rows, links, scope) ==
  LET live == LiveRoutes(rows, links, scope)
  IN  FirstRoute(rows, {r \in live : Eligible(rows[r.task], r) = "none"}, live)

\* NextTask: what `acline next` names: the first an agent can act on.
NextTask(rows, links, scope) ==
  LET live == LiveRoutes(rows, links, scope)
      forAgent(r) == ~r.human /\ r.action # "wait_on_dependency"
  IN  FirstRoute(rows, {r \in live : forAgent(r)}, live)

\* Queue: the open tasks whose gate a person's approval alone would clear.  It
\* knows the task's tree, which matters to evidence bound to one only.
AwaitingApproval(rows) ==
  {t \in DOMAIN rows :
     /\ Open(rows[t])
     /\ AgentBlockers(rows[t].risk, rows[t].checks, NoTree) = {}
     /\ PersonBlockers(rows[t].risk, rows[t].autonomy, rows[t].approvals, rows[t].roled, NoTree) # {}}

=============================================================================
