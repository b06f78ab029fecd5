------------------------------ MODULE TaskBoard ------------------------------
(***************************************************************************)
(* Tasks beside their completion: adding and updating them, deferring      *)
(* them, linking them, milestones, autonomy earned by evals, and projects  *)
(* and the directories that mean them (internal/store: task.go, deps.go,   *)
(* milestone.go, eval.go, project.go), used by several processes at once.  *)
(* Finishing a task is Completion's.                                       *)
(*                                                                         *)
(* A transaction is one step and what a command reads before it another.   *)
(* Autonomy stands for risk too, which the code treats alike; the fields   *)
(* no rule depends on (title, priority, area, type) are left out.          *)
(***************************************************************************)
EXTENDS Gate, Links, ProjectScope

CONSTANTS
  Procs,
  Agents,        \* those whose actor type is agent; the others are people
  Deciders,      \* those requirePerson lets through
  Rates,         \* bound: the pass rates evals report, in per cent
  Milestones,    \* bound: the milestones there are
  Names,         \* bound: the names projects have and markers say
  Families       \* bound: commands of which a behaviour gives `max`, with the
                 \* statuses and levels it sets, in the directories `dirs`,
                 \* from `tasks` tasks and `projects` at the start

DefaultThreshold == 90
NoMilestone == "none"

Calls == {"add", "update", "defer", "link", "eval", "promote", "milestone",
          "register", "use", "mark"}

\* A row of projects: autonomy_default may be auto in a row of an older build.
ProjectRows == [name : Names, path : SUBSET Dirs, default : Autonomies]

ASSUME TaskBoardAssumption ==
  /\ Agents \subseteq Procs /\ Deciders \subseteq Procs
  /\ Rates \subseteq 0 .. 100 /\ NoMilestone \notin Milestones
  /\ NoName \notin Names
  /\ \A f \in Families :
       /\ f.commands \subseteq Calls /\ f.statuses \subseteq TaskStatuses
       /\ f.levels \subseteq Autonomies /\ f.dirs \subseteq Dirs
       /\ f.tasks \in Nat /\ f.max \in Nat /\ f.projects \in Seq(ProjectRows)
       /\ f.tasks > 0 => f.projects # <<>>
       /\ \A i, j \in DOMAIN f.projects : f.projects[i].name = f.projects[j].name => i = j

VARIABLES
  tasks, links, evals, milestones, projects,   \* the tables; a row's id is its index
  markers,       \* what the .acline-project file of each directory says
  events,        \* the audit trail, as far as it tells of the fields kept
  blind,         \* history: a link was committed on links not as validated
  used, calls, pc, mem

scopes == <<projects, markers>>
tables == <<tasks, links, evals, milestones, scopes>>
boardVars == <<tables, events, blind, used, calls, pc, mem>>

Ids == DOMAIN tasks
Projects == DOMAIN projects

\* What the trail tells of a task: a field's new value, how and by whom it was
\* given, in a command (its number) begun when there were `since` events, and
\* the eval it cited.
Told(task, field, to, how, by, cmd, since) ==
  [task |-> task, field |-> field, to |-> to, how |-> how, by |-> by, cmd |-> cmd,
   since |-> since, cited |-> mem[by].cited]

Created(t, autonomy, p, cmd, since) ==
  <<Told(t, "status", "todo", "created", p, cmd, since),
    Told(t, "autonomy", autonomy, "created", p, cmd, since)>>

NewTask(project, autonomy) ==
  [project |-> project, status |-> "todo", autonomy |-> autonomy, deferred |-> "no",
   milestone |-> NoMilestone]

NoEval == 0
Idle == [task |-> 0, set |-> [f \in {} |-> ""], cmd |-> 0, since |-> 0,
         link |-> <<>>, seen |-> {}, cited |-> NoEval,
         project |-> NoProject, at |-> {}, found |-> {}, known |-> {}]

BoardTypeOK ==
  /\ tasks \in Seq([project : {NoProject} \union Projects, status : TaskStatuses, autonomy : Autonomies,
                    deferred : {"yes", "no"}, milestone : {NoMilestone} \union Milestones])
  /\ links \subseteq LinkRows(Ids)
  /\ evals \in Seq([task : {0} \union Ids, project : {0} \union Projects, rate : Rates,
                    by : Procs, at : Nat])
  /\ milestones \in [Milestones -> {"planned", "active", "done", "cancelled"}]
  /\ projects \in Seq(ProjectRows) /\ markers \in [Dirs -> {NoName} \union Names]
  /\ \A i, j \in Projects : projects[i].name = projects[j].name => i = j
  /\ \A k \in DOMAIN events : events[k].task \in {0} \union Ids /\ events[k].since < k
  /\ blind \in BOOLEAN
  /\ pc \in [Procs -> {"idle", "marker", "named", "listed", "insert",
                       "update", "link", "promote", "write"}]
  /\ \A p \in Procs : mem[p].task \in {0} \union Ids

\* The tasks there are when a behaviour starts, hotl, in the projects in turn.
Population(n, rows) == [i \in 1 .. n |-> NewTask(1 + (i % Len(rows)), "hotl")]

BoardInit ==
  /\ used \in Families
  /\ tasks = Population(used.tasks, used.projects)
  /\ projects = used.projects
  /\ markers = [d \in Dirs |-> NoName]
  /\ links = {} /\ evals = <<>>
  /\ milestones = [m \in Milestones |-> "planned"]
  /\ events = <<>>
  /\ blind = FALSE
  /\ calls = 0
  /\ pc = [p \in Procs |-> "idle"]
  /\ mem = [p \in Procs |-> Idle]

\* A command p gives, which goes on at `to` remembering m.
Start(p, call, to, m) ==
  /\ pc[p] = "idle"
  /\ call \in used.commands
  /\ calls < used.max /\ calls' = calls + 1
  /\ pc' = [pc EXCEPT ![p] = to]
  /\ mem' = [mem EXCEPT ![p] =
               IF to = "idle" THEN Idle
               ELSE [m EXCEPT !.cmd = calls + 1, !.since = Len(events), !.known = Projects]]
  /\ UNCHANGED used

GoOn(p, to, m) ==
  /\ pc' = [pc EXCEPT ![p] = to]
  /\ mem' = [mem EXCEPT ![p] = m]
  /\ UNCHANGED <<used, calls>>

Return(p) ==
  /\ pc' = [pc EXCEPT ![p] = "idle"]
  /\ mem' = [mem EXCEPT ![p] = Idle]
  /\ UNCHANGED <<used, calls>>

-----------------------------------------------------------------------------
(* Adding a task.                                                          *)

\* Mutant: a project's default is taken as it stands.
StartingAutonomy_Default(asked, project) ==
  IF asked # "" THEN asked
  ELSE IF project = NoProject THEN "hotl" ELSE projects[project].default

\* projectDefaults: a default of auto, of a project registered before they were
\* refused, is read as hotl.
StartingAutonomy(asked, project) ==
  IF asked # "" THEN asked
  ELSE IF project = NoProject \/ projects[project].default = "auto" THEN "hotl"
  ELSE projects[project].default

\* Where a task is added: in a project named by a flag or by ACLINE_PROJECT, in
\* none by the MCP server, else in that of the directory the command runs in.
StartAdd(p) ==
  /\ pc[p] = "idle"
  /\ \E asked \in {""} \union used.levels :
       LET new == [Idle EXCEPT !.set = [f \in {"autonomy"} |-> asked]] IN
       \/ \E i \in {NoProject} \union Projects :
            Start(p, "add", "insert", [new EXCEPT !.project = i])
       \/ \E d \in used.dirs : Start(p, "add", "marker", [new EXCEPT !.at = {d}])
  /\ UNCHANGED <<tables, events, blind>>

\* ResolveProjectForPath, read by read: the files, the project named, the list.
ReadMarker(p) ==
  /\ pc[p] = "marker"
  /\ \E d \in mem[p].at :
       GoOn(p, "named", [mem[p] EXCEPT !.found = FindMarker(markers, d)])
  /\ UNCHANGED <<tables, events, blind>>

ReadNamed(p) ==
  /\ pc[p] = "named"
  /\ LET i == MarkedProject(projects, mem[p].found) IN
     GoOn(p, IF i = NoProject THEN "listed" ELSE "insert", [mem[p] EXCEPT !.project = i])
  /\ UNCHANGED <<tables, events, blind>>

ReadListed(p) ==
  /\ pc[p] = "listed"
  /\ \E d \in mem[p].at :
       GoOn(p, "insert", [mem[p] EXCEPT !.project = ListedProject(projects, d)])
  /\ UNCHANGED <<tables, events, blind>>

\* AddTask: auto takes a person; insertTask and its event are one transaction.
AddTask(p) ==
  /\ pc[p] = "insert"
  /\ LET m        == mem[p]
         asked    == m.set["autonomy"]
         autonomy == StartingAutonomy(asked, m.project)
         refused  == asked = "auto" /\ p \notin Deciders
     IN
     /\ tasks' = IF refused THEN tasks ELSE Append(tasks, NewTask(m.project, autonomy))
     /\ events' = IF refused THEN events
                  ELSE events \o Created(Len(tasks) + 1, autonomy, p, m.cmd, m.since)
  /\ Return(p)
  /\ UNCHANGED <<links, evals, milestones, scopes, blind>>

-----------------------------------------------------------------------------
(* Projects: registering one, and saying which one a directory is.         *)

\* AddProjectWithDefaults, after which p goes on at `to`.
AddProject(p, name, path, default, to) ==
  /\ ProjectNamed(projects, name) = NoProject
  /\ \A d \in path : ~ProjectPathTooBroad(d) /\ p \in Deciders
  /\ Start(p, "register", to, [Idle EXCEPT !.project = Len(projects) + 1, !.at = path])
  /\ projects' = Append(projects, [name |-> name, path |-> path, default |-> default])
  /\ events' = Append(events, Told(0, "project", name, "set", p, calls', Len(events)))
  /\ UNCHANGED <<tasks, links, evals, milestones, markers, blind>>

\* auto is no default a project can be given.
DefaultsAsked == {"hotl"} \union (used.levels \ {"auto"})

Register(p) ==
  /\ pc[p] = "idle"
  /\ \E name \in Names, path \in {{}} \union {{d} : d \in used.dirs}, default \in DefaultsAsked :
       AddProject(p, name, path, default, "idle")

\* registerCurrentProject, up to the marker: the directory is registered, unless
\* it is already.
StartInit(p) ==
  /\ pc[p] = "idle"
  /\ \E d \in used.dirs :
       LET here == {i \in Projects : projects[i].path = {d}} IN
       IF here = {}
       THEN \E name \in Names, default \in DefaultsAsked : AddProject(p, name, {d}, default, "write")
       ELSE /\ Start(p, "register", "write",
                     [Idle EXCEPT !.project = CHOOSE i \in here : \A j \in here : i <= j,
                                  !.at = {d}])
            /\ UNCHANGED <<tables, events, blind>>

\* Mutant: a marker is written wherever one stands.
MayMark_Anywhere(project, d) == TRUE

\* `project use`: outside the project's path the marker would do nothing.
MayMark(project, d) == \A path \in project.path : PathInside(d, path)

\* `project use`, up to the file.
StartUse(p) ==
  /\ pc[p] = "idle"
  /\ \E i \in Projects, d \in used.dirs :
       /\ MayMark(projects[i], d)
       /\ Start(p, "use", "write", [Idle EXCEPT !.project = i, !.at = {d}])
  /\ UNCHANGED <<tables, events, blind>>

WriteMarker(p) ==
  /\ pc[p] = "write"
  /\ \E d \in mem[p].at : markers' = [markers EXCEPT ![d] = projects[mem[p].project].name]
  /\ Return(p)
  /\ UNCHANGED <<tasks, links, evals, milestones, projects, events, blind>>

\* Whoever can put a file in a directory writes a marker there, or removes it.
PlaceMarker(p) ==
  /\ Start(p, "mark", "idle", Idle)
  /\ \E d \in used.dirs, name \in {NoName} \union Names :
       /\ markers[d] # name
       /\ markers' = [markers EXCEPT ![d] = name]
  /\ UNCHANGED <<tasks, links, evals, milestones, projects, events, blind>>

-----------------------------------------------------------------------------
(* UpdateTask: several fields in one command, all or none.                 *)

\* Mutant: only auto takes a person.
Loosens_AutoOnly(from, set) ==
  /\ "autonomy" \in DOMAIN set
  /\ set["autonomy"] = "auto" /\ from # "auto"

Loosens(from, set) ==
  /\ "autonomy" \in DOMAIN set
  /\ AutonomyRank[set["autonomy"]] > AutonomyRank[from]

\* TaskUpdate: "" leaves a field as it is; done takes the gate.
Updates ==
  [status : {""} \union (used.statuses \ {"done"}), autonomy : {""} \union used.levels,
   milestone : {""} \union Milestones]

\* Up to the transaction: the task is read, an autonomy it has already is left
\* out, and loosening is authorised, against what was read.
StartUpdate(p) ==
  /\ pc[p] = "idle"
  /\ \E t \in Ids, asked \in Updates :
       LET from == tasks[t].autonomy
           set  == [f \in {g \in DOMAIN asked : asked[g] # "" /\ ~(g = "autonomy" /\ asked[g] = from)}
                      |-> asked[f]]
       IN  /\ Loosens(from, set) => p \in Deciders
           /\ Start(p, "update", "update", [Idle EXCEPT !.task = t, !.set = set])
  /\ UNCHANGED <<tables, events, blind>>

\* Mutant: what is refused leaves the other fields changed.
Applied_Each(row, set) ==
  [f \in {g \in DOMAIN set : g # "status" \/ set[g] \in MayBecome(row.status)} |-> set[f]]

\* What the transaction makes of the fields: a refused status is the end of
\* the others too.
Applied(row, set) ==
  IF "status" \in DOMAIN set /\ set["status"] \notin MayBecome(row.status)
  THEN [f \in {} |-> ""] ELSE set

\* A field that is not set is not told.
One(f, set) == IF f \in DOMAIN set THEN <<f>> ELSE <<>>

\* Mutant: a milestone is set without a word.
Ordered_Silent(set) == One("status", set) \o One("autonomy", set)

\* The fields in the order the command writes their events.
Ordered(set) == One("status", set) \o One("autonomy", set) \o One("milestone", set)

UpdateTask(p) ==
  LET m     == mem[p]
      row   == tasks[m.task]
      set   == Applied(row, m.set)
      order == Ordered(set)
  IN
  /\ pc[p] = "update"
  /\ Return(p)
  /\ tasks' = [tasks EXCEPT ![m.task] =
                 [f \in DOMAIN row |-> IF f \in DOMAIN set THEN set[f] ELSE row[f]]]
  /\ events' = events \o [i \in DOMAIN order |->
                 Told(m.task, order[i], set[order[i]], "set", p, m.cmd, m.since)]
  /\ UNCHANGED <<links, evals, milestones, scopes, blind>>

\* DeferTask: the disposition beside the status.
DeferTask(p) ==
  /\ Start(p, "defer", "idle", Idle)
  /\ \E t \in Ids, deferred \in {"yes", "no"} :
       /\ tasks' = [tasks EXCEPT ![t].deferred = deferred]
       /\ events' = Append(events, Told(t, "deferred", deferred, "set", p, calls', Len(events)))
  /\ UNCHANGED <<links, evals, milestones, scopes, blind>>

\* SetMilestoneStatus, UpdateMilestone: no transition is refused.
UpdateMilestone(p) ==
  /\ Start(p, "milestone", "idle", Idle)
  /\ \E m \in Milestones, to \in {"planned", "active", "done", "cancelled"} :
       /\ milestones' = [milestones EXCEPT ![m] = to]
       /\ events' = Append(events, Told(0, "milestone_status", to, "set", p, calls', Len(events)))
  /\ UNCHANGED <<tasks, links, evals, scopes, blind>>

-----------------------------------------------------------------------------
(* Linking: validateLink reads the links before AddLink's transaction.     *)

StartLink(p) ==
  /\ \E l \in LinkRows(Ids) :
       /\ ValidLink(links, l, Ids)
       /\ Start(p, "link", "link", [Idle EXCEPT !.link = <<l>>, !.seen = links])
  /\ UNCHANGED <<tables, events, blind>>

AddLink(p) ==
  /\ pc[p] = "link"
  /\ Return(p)
  /\ links' = links \union {mem[p].link[1]}
  /\ blind' = (blind \/ links # mem[p].seen)
  /\ UNCHANGED <<tasks, evals, milestones, events, scopes>>

-----------------------------------------------------------------------------
(* Evals and promotion.                                                    *)

\* AddEval: of a task, of a project or of neither.
AddEval(p) ==
  /\ Start(p, "eval", "idle", Idle)
  /\ \E t \in {0} \union Ids, project \in {0} \union Projects, rate \in Rates :
       /\ evals' = Append(evals, [task |-> t, project |-> project, rate |-> rate, by |-> p,
                                  at |-> Len(events)])
       /\ events' = Append(events, Told(t, "eval", rate, "set", p, calls', Len(events)))
  /\ UNCHANGED <<tasks, links, milestones, scopes, blind>>

EvalProject(e) ==
  IF e.project # 0 THEN e.project ELSE IF e.task # 0 THEN tasks[e.task].project ELSE 0

\* The newest eval that belongs to the project, or none.
LatestEvalIn(project) ==
  LET own == {i \in DOMAIN evals : EvalProject(evals[i]) = project}
  IN  IF own = {} THEN NoEval ELSE CHOOSE i \in own : \A j \in own : j <= i

\* PromoteAutonomy, up to its transaction.
StartPromote(p) ==
  /\ \E t \in Ids, to \in used.levels, threshold \in Rates \union {DefaultThreshold} :
       LET e == LatestEvalIn(tasks[t].project) IN
       /\ threshold > 0
       /\ e # NoEval
       /\ p \in Agents => threshold >= DefaultThreshold /\ evals[e].by \notin Agents
       /\ evals[e].rate >= threshold
       /\ Start(p, "promote", "promote",
                [Idle EXCEPT !.task = t, !.set = [f \in {"autonomy"} |-> to], !.cited = e])
  /\ UNCHANGED <<tables, events, blind>>

PromoteAutonomy(p) ==
  LET m == mem[p] IN
  /\ pc[p] = "promote"
  /\ Return(p)
  /\ tasks' = [tasks EXCEPT ![m.task].autonomy = m.set["autonomy"]]
  /\ events' = Append(events, Told(m.task, "autonomy", m.set["autonomy"],
                                   "promoted", p, m.cmd, m.since))
  /\ UNCHANGED <<links, evals, milestones, scopes, blind>>

-----------------------------------------------------------------------------
\* Killed between what it read and its transaction.
Crash(p) ==
  /\ pc[p] # "idle"
  /\ Return(p)
  /\ UNCHANGED <<tables, events, blind>>

Step(p) ==
  \/ StartAdd(p) \/ ReadMarker(p) \/ ReadNamed(p) \/ ReadListed(p) \/ AddTask(p)
  \/ Register(p) \/ StartInit(p) \/ StartUse(p) \/ WriteMarker(p) \/ PlaceMarker(p)
  \/ StartUpdate(p) \/ UpdateTask(p) \/ DeferTask(p) \/ UpdateMilestone(p)
  \/ StartLink(p) \/ AddLink(p)
  \/ AddEval(p) \/ StartPromote(p) \/ PromoteAutonomy(p)
  \/ Crash(p)

BoardNext == \E p \in Procs : Step(p)

BoardSpec == BoardInit /\ [][BoardNext]_boardVars

-----------------------------------------------------------------------------
(* Properties.                                                             *)

\* The value of a field after the first n events, by the trail alone.
ToldLast(t, field, n, start) ==
  LET said == {k \in 1 .. n : events[k].task = t /\ events[k].field = field}
  IN  IF said = {} THEN start
      ELSE events[CHOOSE k \in said : \A j \in said : j <= k].to

AutonomyAt(t, n) == ToldLast(t, "autonomy", n, "hotl")

\* A task's row can be told from the trail: however updates interleave, the last
\* event about a field gives its value (task.go: a change and its event are one
\* transaction; an autonomy left out because the task had it is not told).
BoardMatchesTrail ==
  \A t \in Ids : LET n == Len(events) IN
    /\ tasks[t].status = ToldLast(t, "status", n, "todo")
    /\ tasks[t].autonomy = AutonomyAt(t, n)
    /\ tasks[t].milestone = ToldLast(t, "milestone", n, NoMilestone)
    /\ tasks[t].deferred = ToldLast(t, "deferred", n, "no")

\* A task waits, through any number of others, on itself only if two processes
\* linked at once: whatever is linked one after the other leaves every task an
\* order to be done in (deps.go, ErrLinkCycle).
CycleNeedsARace ==
  ~blind => \A t \in Ids : Prerequisites(links, t) \intersect Waiting(links, t, Ids) = {}

\* Unsupervised work is earned: a task is at auto by a person's word, or by the
\* newest measurement of its own project when the promotion was begun, good
\* enough, and for an agent's promotion measured by a person (eval.go,
\* latestEvalIn, ErrAgentCannotSelfPromote; task.go, ErrAgentCannotLoosenTask).
AutoIsEarned ==
  \A k \in DOMAIN events :
    LET v == events[k] IN
    (v.field = "autonomy" /\ v.to = "auto") =>
      \/ v.how \in {"created", "set"} /\ v.by \in Deciders
      \/ /\ v.how = "promoted"
         /\ LET cited == evals[v.cited] IN
            /\ EvalProject(cited) = tasks[v.task].project
            /\ v.by \in Agents => cited.rate >= DefaultThreshold /\ cited.by \notin Agents
            /\ \A i \in DOMAIN evals :
                 (i > v.cited /\ EvalProject(evals[i]) = tasks[v.task].project)
                   => evals[i].at >= v.since

\* An update by one whom requirePerson would refuse leaves a task no looser than
\* it was when the command began: it may be overtaken by a tightening, never
\* loosen by itself (task.go, UpdateTask).
LoosenedByPeople ==
  \A k \in DOMAIN events :
    LET v == events[k] IN
    (v.field = "autonomy" /\ v.how = "set" /\ v.by \notin Deciders) =>
      AutonomyRank[v.to] <= AutonomyRank[AutonomyAt(v.task, v.since)]

\* A command's fields change together or not at all, and whoever moved the task
\* meanwhile, its status is one the status it then had may become (task.go: "a
\* refused field ... leaves the task as it was"; transition.go).
UpdatesAreWhole ==
  [][\A p \in Procs :
       (pc[p] = "update" /\ events' # events /\ pc'[p] = "idle") =>
         LET m == mem[p] IN
         /\ \A f \in DOMAIN m.set : tasks'[m.task][f] = m.set[f]
         /\ tasks'[m.task].status \in MayBecome(tasks[m.task].status) \union {tasks[m.task].status}]_boardVars

\* A task added from a directory lands in a project somebody could have meant:
\* one without a path that a marker names, or one in whose path the directory,
\* or one above it, really lies.  A marker copied in from elsewhere never takes
\* a task, nor its project's decisions and memory, out of its own (project.go:
\* "it is only trusted where that project says it may be").
TaskWhereItBelongs ==
  \A p \in Procs :
       (pc[p] = "insert" /\ Len(tasks') > Len(tasks) /\ mem[p].project # NoProject) =>
         LET m == mem[p]
             project == projects[m.project]
         IN  \A d \in m.at :
               \/ project.path = {} /\ \E f \in m.found : f.name = project.name
               \/ \E path \in project.path, a \in Dirs :
                    a \in Upward(d) /\ PathInside(a, path)

\* A directory that lies, through whatever links, inside a project registered
\* before the command began is never taken for none (project.go: "a project ...
\* reached ... via a symlinked checkout still matches").
FoundHoweverReached ==
  \A p \in Procs :
       (pc[p] = "insert" /\ Len(tasks') > Len(tasks)) =>
         LET m == mem[p] IN
         (\E i \in m.known, d \in m.at : \E path \in projects[i].path : PathInside(d, path))
           => m.project # NoProject

\* Where `project use` and `init` wrote their marker it speaks for the project
\* they named, whatever is registered or marked around it (cmd/project.go: "a
\* marker here would be ignored" is what they refuse).
MarkerHolds ==
  \A p \in Procs :
       (pc[p] = "write" /\ pc'[p] = "idle" /\ markers' # markers) =>
         \A d \in mem[p].at : ResolvedProject(projects', markers', d) = mem[p].project

\* A task's row is what the trail tells, and its prerequisites come before it
\* (task.go, deps.go).
BoardInOrder ==
  /\ BoardTypeOK
  /\ BoardMatchesTrail
  /\ CycleNeedsARace

\* Autonomy is given by people or earned by evals (task.go, eval.go).
LevelsAreGiven ==
  /\ AutoIsEarned
  /\ LoosenedByPeople

\* A directory means the project it lies in, or that its marker may name, for
\* everything recorded from it (project.go).
DirectoriesMeanProjects ==
  [][/\ TaskWhereItBelongs
     /\ FoundHoweverReached
     /\ MarkerHolds]_boardVars

=============================================================================
