# acline, specified

TLA+ specifications of `acline`, the local tracker in `src/` that agents and people
share: what its operations do to one SQLite store, what the rules built on them
promise, and what survives when several processes act at once. The specifications are
model-checked with TLC on small instances; the theorems are proved with TLAPS for every
value of the constants.

Read in this order: `Gate.tla` (the rules), `AtomicCompletion.tla` (what completing a
task promises), `Completion.tla` (how the code does it); `SpecRows.tla`, `Specs.tla`,
`Plans.tla` (from a spec to its tasks); then the others in any order, each with its
operators first: `AuditChain` and `AuditTrail`; `Links`, `ProjectScope` and `TaskBoard`;
`Records`; `Sessions`, `Routing` and `Orchestrator`; `Guard`, `MemoryLog` and `Hooks`;
`Prompts`, `Streams` and `Shell`; `Schema`, `SearchIndex` and `StoreFile`. The proofs last.

## 1. The system

All rules live in `src/internal/store`. The command line, the MCP server, the terminal
UI and the orchestrator call it, mostly through the use cases of `src/internal/app`.
Each `acline` invocation is a process with one connection to one SQLite file (WAL,
`_txlock=immediate`, `busy_timeout`; `store.go:904-940`). So a transaction is atomic and
excludes other writers, a read outside a transaction is an instant of its own, and a
process killed between two statements loses the later ones. Nothing else synchronises
the processes; nothing retries except where said below.

| Component | State | Operations | What is hard | What makes it correct |
|---|---|---|---|---|
| Completion gate (`gate.go`) | none: reads a task's row, its append-only `checks` and `approvals`, the project's roles | `EvaluateGateForTree` | a dozen rules that interact over long histories | monotone wherever acting is open to everyone; at high risk, evidence for one tree and an approval of it |
| Completing a task (`complete.go`) | status | `CompleteTaskForTree`, `SetTaskStatusWithReason` | the gate is evaluated outside the transaction that relies on it | `done` only through a gate that holds then, or an override |
| Checks, approvals (`gate.go`, `approval.go`, `app/check.go`, `app/gate.go`) | the two logs | run, type, cancel a check; approve; reject | the tree changes while a tool runs; authorization is a separate read | an agent never vouches; a result is about the tree it names |
| Tasks (`task.go`, `milestone.go`) | levels, status, milestone, deferral | add, update, defer | several columns and events in one command; loosening judged on a stale row | an update is whole, and the trail gives the row |
| Projects (`project.go`, `cmd/project.go`, `cmd/init.go`) | paths, names; marker files | register, use, init, resolve a directory | links, nesting, markers copied in, several reads | a directory means a project it lies in, or one its marker may name |
| Links (`deps.go`) | `task_links` | `AddLink` | cycle check outside the transaction | no cycle but by two processes at once |
| Evals (`eval.go`) | results | record, promote autonomy | promotion on an old result | `auto` is given by a person or earned |
| Privilege (`auth.go`, `role.go`) | the token's hash, roles | enable, rotate, disable, `requirePerson` | check, then act | what needs a person has one |
| Specs, plans (`spec.go`, `plan.go`) | versions, statuses, plan items | add, approve, revise, supersede; propose, edit, approve, reject | revisions racing approvals and supersession | the approved text is what was read; a plan is carried out once |
| Decisions, memory, notes, dependencies (`decision.go`, `memory.go`, `note.go`, `promote.go`, `dependency.go`), context (`context.go`) | status, review, staleness, a note's promotion | add, accept, retire, review, forget, draft, promote, verify, render | status read outside the transaction; a cap counted before the insert; failures between four transactions; a file rendered from several queries | trust takes a person, the trail tells it, and only trusted records are shown |
| Audit trail (`event.go`, `seal.go`, `head_seal.go`, `anchor.go`, `reseal.go`), snapshot (`snapshot.go`) | hash chain, row seals, watermark, head seals | append, seal, verify, reseal, export, import | a verifier reads while others append; stores of older versions | a sound store verifies, an altered one does not |
| Sessions (`session.go`) | open sessions per scope | begin, end, launch | two begin at once; several end one | one open session per scope, each told once |
| Routing (`route.go`, `app/queue.go`) | none | `RouteTask`, `NextTask`, the queue | a dozen states a task can be in | a run that follows it ends |
| Orchestrator (`orchestrate`) | one loop; the sessions it launches | choose, begin, run an agent, close, judge | others change the queue, sessions and tree meanwhile; agents time out, fail, are denied | ends, within its limits, and closes what it opened |
| Guard, policy, hooks (`cmd/guard*.go`, `cmd/hook*.go`, `policy.go`) | a state file per directory | judge a tool call, log it, capture the transcript, hold a turn | sessions change between the reads; nested shell text; two windows | what runs obeys, what is refused had a reason, lines are noted once |
| Terminal UI (`tui`) | screens, one prompt, a check run, an orchestrator | keys, ticks, messages | late messages, typing ahead, commits between two reads | acts on what was named; shows what is stored |
| The file (`store.go`), search (`search.go`, `embedding.go`) | schema version, tables, copies; the word table, vectors | open, migrate; index, embed, import, backfill | builds of different versions, kills, a provider that answers late | the schema is what its version says; search has the present text |
| Command line, MCP server, scaffolding, sandbox, redaction, reports | none of their own | | | |

`PROJECT.json` lists each with what is modelled of it, and under `hazards` the places
where this code can go wrong in a way a test would hardly reach, with the properties
that would catch it.

How they interact: everything goes through the store, so components meet in its rows and
in the trail. The orchestrator launches agents that call the command line, the hooks and
the MCP server in processes of their own, inside a session it began; the guard reads that
session, and its denials are events the orchestrator counts; the terminal UI starts an
orchestrator and checks as child processes and reads their output; a plan's approval
creates tasks; a failing check drafts memory; a context file is rendered from decisions
and memory. The modules compose where the interaction is hard: the orchestrator with
routing, the gate's rules and sessions; hooks with sessions and the gate's evidence rules;
plans with specs; completing with the atomic promise it implements.

## 2. Modules

| Module | Models | Kind |
|---|---|---|
| `Gate` | `gate.go`: `evaluateChecks`, `evaluateEvidenceProvenance`, `evaluateApproval`; `taskTransitions` | operators |
| `AtomicCompletion` | what the operations on one task's row and logs promise, each one step | abstract specification |
| `Completion` | the same operations as processes perform them, read by read, write by write | implements `AtomicCompletion` |
| `SpecRows` | the specs table and its history, one step per transaction of `spec.go` | abstract specification |
| `Specs` | the same operations as processes perform them | implements `SpecRows` |
| `Plans` | `plan.go` over the rows of `SpecRows` | specification |
| `AuditChain` | `event.go`, `seal.go`, `head_seal.go`, `reseal.go` as data: what is chained, sealed, attested, verified | operators |
| `AuditTrail` | processes that append, seal, verify, reseal, export and import; tokens enabled, rotated, disabled | specification over `AuditChain` |
| `Links`, `ProjectScope` | `deps.go`: precedence, the search for cycles; `project.go`: paths, markers, which project a directory means | operators |
| `TaskBoard` | `task.go`, `milestone.go`, `deps.go`, `eval.go`, `project.go`, `cmd/project.go`, `cmd/init.go` | specification over `Gate`, `Links`, `ProjectScope` |
| `Records` | `decision.go`, `memory.go`, `note.go`, `promote.go`, `dependency.go`, `context.go` | specification |
| `Sessions` | `session.go`: scopes, which session applies, starting, ending | operators |
| `Routing` | `route.go`, the launch rules of `orchestrate`, `app/queue.go` | operators over `Gate`, `Links` |
| `Orchestrator` | `orchestrate`: launchers in every mode, their agents, and people and agents beside them | specification over `Routing`, `Sessions` |
| `Guard`, `MemoryLog` | `cmd/guard*.go`, `policy.go`: one call judged; how far a transcript is captured | operators |
| `Hooks` | `cmd/hook*.go`: windows whose hooks judge, record, capture and hold | specification over `Guard`, `MemoryLog`, `Sessions`, `Gate` |
| `Prompts`, `Streams` | what is asked and done on a screen (`tui/actions.go`, `review.go`); a run's output (`tui/checkrun.go`) | operators |
| `Shell` | `tui`: the loop, its watch, tabs, overlays, prompts, runs | specification over `Prompts`, `Streams` |
| `Schema`, `SearchIndex` | `store.go`: what each migration adds, copies; `search.go`, `embedding.go`: the word table, vectors | operators |
| `StoreFile` | processes that open, migrate, write, import, backfill | specification over `Schema`, `SearchIndex` |
| `CompletionProofs`, `TaskProofs`, `SpecProofs`, `PlanProofs`, `OrchestratorProofs`, `RecordProofs`, `StoreFileProofs`, `FrontProofs` | theorems | proofs |
| `MC...` | small instances | for TLC |

In every specification a transaction is one step, and so is each read outside one, except
that these are taken together: the reads by which `Routing` makes one route or one queue,
the newest ids a one-shot run begins and ends with (`Orchestrator`), the session, task and
project a stop is about (`StopReads`) and the state file with the transcript (`Capture`) in
`Hooks`, the rows of one screen (`Load`, in `Shell`), and in `AuditTrail` what one
verification reads of the events (`VerifyTrail`). `pc[p]` (or a field of `proc[p]`) is the
statement a process is at and `mem[p]` what it has read. A definition named after another
with a suffix (`Newest_First` beside `Newest`) is that code with one plausible bug: no
specification uses it, and it shows what a property is there to catch, because in its place
the property, or the named part of it, is violated.

**Gate.** A log is a sequence of rows in id order, as `ListChecks` and `ListApprovals`
return it. A row keeps the columns the gate reads; of a blocker its presence is kept, not
its wording; warnings, which block nothing, are left out (with them the open criteria and
prerequisites, which only warn). `NoTree` is a NULL `tree_hash`, `TreeUnavailable` the
current tree of a directory that could not be hashed.

**AtomicCompletion.** One task: `status`, `risk`, `autonomy`, `checks`, `approvals` and
whether its project has a `can_approve` role. `RecordCheck`, `RecordDecision`, `SetLevels`,
`SetStatus`, `AddApprovingRole`, `Complete`, `Override`: each one atomic step. `lately` has
the levels the row has had in the second of its last write, the present ones among them:
`Complete` and `Override` ask the gate of some of these (`HoldsFor`), which are just the
present ones when no two writes share a second, as in `gate_rules`. `Room` bounds the logs
in a model and is always true where `Completion` instantiates the module.

**Completion.** Processes (agents or people, token holders or not) that each run one
command at a time. `pc[p]` is the statement a process is at and `mem[p]` what it has
read. One action per read, per authorization and per transaction:

| Command | Actions | Code |
|---|---|---|
| `task done` | `StartComplete` (the tree), `BeginAttempt`, `TakeFingerprint`, `ReadTask`, `ReadChecks`, `ReadApprovals`, `Judge`, `AuthorizeOverride`, then `CommitDone`, `CommitRefused` or `Retry` | `app.CompleteTask`, `CompleteTaskForTree`, `tryComplete`, `EvaluateGateForTree` |
| `check run` (`--cmd`: `adhoc`) | `StartRun`, `FinishRun` or `CancelRun`, `AuthorizeCheck`, `RecordCheck` | `app.RunCheck`, `RunTo`, `AddCheckWithMeta` |
| `check record` | `StartType`, `AuthorizeCheck`, `RecordCheck` | `app.RecordCheck`, `AddCheckWithMeta` |
| `approve`, `reject` | `StartApprove`, `AuthorizeApproval`, `RecordApproval`; `Reject` | `app.Approve`, `app.Reject`, `RecordApproval` |
| `task update --risk/--autonomy` | `StartLevel`, `AuthorizeLevel`, `WriteLevel` | `setTaskLevel` |
| `task update --status` | `SetStatus` | `SetTaskStatusWithReason` |
| `role add --can-approve`, `auth enable/disable` | `AddApprovingRole`, `ToggleToken` | `AddRoleWithToken`, `auth.go` |

Around them `EditTree` changes the working tree and `Crash(p)` kills a process at any step.
`stamp` is `updated_at`: a write of the row (`Touch`) moves it on, or, where `SameSecond`,
may leave it, because the column holds whole seconds; `lately` follows it. `runs` and
`vouchers` are history variables: the tree a check really ran on and whether its command was
the caller's, and who gave each approval. The fingerprint keeps the parts of `gateInputs`
the gate reads; criteria and links, which only warn, can only cause one more retry.

**SpecRows.** `row[s]` is a spec's row (status, version, text, `superseded_by`) and
`history` the `spec_versions` table. `vouched` is a history variable: the versions, with
their text, that `ApproveSpec` approved. `Add`, `Approve`, `Supersede` and `Revise` are
the transactions; `Revise` does not ask whether the spec is superseded, because the code
asks that of an earlier read.

**Specs.** The processes that run them. A title, who wrote a version and its redaction are
left out. `requirePerson` is membership of the constant `Deciders`: that a token can be
switched between the question and the write is `Completion`'s subject.

| Command | Actions | Code |
|---|---|---|
| `spec add` | `AddSpec`, `Index` | `AddSpec`, `indexForSearch` |
| `spec approve` | `ApproveSpec` | `ApproveSpec`, `setSpecStatus` |
| `spec supersede` | `StartSupersede` (the reads), `CommitSupersede` | `SupersedeSpec`, `transitionWithEvent` |
| `spec revise` | `StartRevise` (the read), `CommitRevise` or `ReviseRefused`, `Index` | `ReviseSpec`, `reindexForSearch` |

**Plans.** `plans` is the plans table in id order, each row with its items; an item is a
wording (title, description, risk, autonomy, size, milestone, criteria: what a task takes
from it) and what it waits for (`depends_on` and parents, one relation). `created` lists
each approval's tasks. Specs change by `ChangeSpec`, any transaction of `SpecRows`, which
`SpecProofs` shows is all that `Specs` does.

| Command | Actions | Code |
|---|---|---|
| `plan propose` | `StartPropose` (the spec's read), `CommitPropose` | `ProposePlan`, `approvedSpec`, `insertPlan` |
| `plan revise` | `StartRevise`, `CommitRevise` | `RevisePlan` |
| `plan edit` | `EditPlanItem` | `EditPlanItem`, `requireDraftTx` |
| `plan approve` | `StartApprove`, `CommitApprove` | `ApprovePlan`, `approvablePlanItems`, `createPlanTasks` |
| `plan reject` | `RejectPlan` | `RejectPlan` |

A plan never becomes a draft again, so asking before the transaction whether it is one
refuses nothing that the transaction would not; those reads are part of the step that
writes, except where the spec is read with them.

**AuditTrail.** A store is its events, approvals, checks and token (by number, 0 when
disabled); a hash is the sequence of all it covers, which makes SHA-256 injective. The
commands are `log` (any event), `record` (a row with its seal in one
transaction), `enable`, `rotate`, `disable` (`StartWithToken`, `Authorize`, then the
overwriting `CommitRotate` or `CommitDisable`), `seal` and `checkseal` (`ReadHead`,
`WriteSeal`; `ReadSeals`, `CheckAnchor`), `verify` (events, seals and each table read one
after the other: `VerifyTrail`, `ReadRowSeals`, `VerifyApprovals`, `VerifyChecks`), `reseal`,
`export` (table by table to `snapshot`) and `import`. `Old` begins as a store an older acline
wrote: events without hashes, hashes that do not cover the role, records without seals.
`merged` has the stores a snapshot was imported into.

**TaskBoard.** A task is `status`, `autonomy` (risk is judged in the same way), `milestone`,
`deferred`, `project`. `UpdateTask` reads in `StartUpdate` and writes its columns and their
events in one step, refusing all when one is refused. `AddLink` is `StartLink` (the search
for a cycle) and the insert; `PromoteAutonomy` reads the newest eval in one step and writes
in another. Adding a task resolves the project of its directory read by read: `ReadMarker`
going up, `ReadNamed` (the project a marker names, and whether it may speak for the
directory), `ReadListed` (projects around the directory, by its literal and its real path),
while `Register`, `WriteMarker` and `PlaceMarker` (anybody's file) go on. `events` carries,
besides what the code writes, the length of the trail when the command began.

**Records.** Four tables and the trail. A command reads what it decides by in one step,
commits in the next, and indexes in one after it that may fail; `PromoteNote` is claim,
create, index, then mark or release. Any process may fail or be killed in any step. An
export reads memory (`RenderConstraints`) and decisions (`RenderDecisions`) apart.
`unreported` holds rows whose command reported an error though they were committed.

**Orchestrator.** A launcher's `pc` is the call it makes next; a mode (run, step, plan, spec,
research) has its own order of these:

| Part | Actions | Code |
|---|---|---|
| what to do | `Choose`, `Consider` (a run's limits and route; the task again); `Prepare` (a plan's three reads) | `Run`, `chooseStep`, `Plan` |
| whether now | `Look`, `Vacant` (the stop file; the current session) | `chooseStep`, `Plan`, `DraftSpec`, `Research` |
| the session | `Begin` (one transaction), `Launched` | `BeginSession`, `logDispatch` |
| before the agent | `Baseline`, `Mark`, `Hash` (the route or newest ids; the last event; the directory) | `runStep` |
| the agent | `AgentDefines`, `AgentChecks`, `AgentEdits`, `AgentDenied`, `AgentSubmits`, `AgentExits` | `agent.go` |
| after it | `Rehash`, `Count` (denials), `EndSession`, `EndLaunchedSession`, `FindCredit`, `LogFinish` | `endSession`, `CountSessionEventsAfter` |
| the verdict | `Judge` or `Report`, `Note`, `Chain` | `judgeStep`, `AddNote`, `Run` |

Any of these calls may fail (`Failed`, under the command "fault"; `Worked` otherwise), and the
launcher then does what its code does: ends with an error, takes 0 or nothing for the answer, or
goes on (a count, a close and a log that fail are dropped). `missed` tells that a count or a close
failed. An agent does what its tools let it and returns by itself, by a failure, or by its
timeout, and what it spent is counted only where its output is one JSON object, however it
exits: `spent` is what agents really cost, `unread` what those that exited 0 did not report.
Others start and end sessions, change statuses, approve, decide, and put the stop file there. A
session that confines is ended by whoever presents the token (`MayEnd`), agent or person. A
directory's files are one fingerprint.

**Hooks.** A window runs one hook at a time. A call is judged in the order of
`guardCheckTool`: the session's policy, the role, the subagent's, then the content rules;
meanwhile the other side of the model begins and ends sessions. A refusal is told by an insert of
its own, which may fail (`ToTell`, `Tell`). ACLINE_ROLE may name any role (`named`) and
then stands for the session's.

What a path or a command is to the pattern tables is data (`Paths`, `Commands`): a command has
a depth of substitutions, an interpreter at one of them, and something said at one of
them, quoted or not. What is said is a pattern, found anywhere in a text that is scanned, or
a word, seen only where a program's name stands at the head of a segment (`Patterns`, `Words`,
`Stands`). So `bash -c 'rm notes.txt'` under a read-only role, `bash -c 'sqlite3 acline.db'` and
`sudo` before a word are let through. The tables are best-effort and say so
(`guard_role.go`, `guard_sensitive.go`), and `InReach` in the properties says how far they
reach. A state file that cannot be parsed, which counts as an empty one, is left out.

Capturing reads the state file and
the transcript, notes each line in a step of its own, and saves. A transcript has an
`edition`, another whenever it is not just added to, and `read` is the edition that each
entry of the state file was made from: the code keeps neither, and the properties need both
to say which transcript an offset is an offset of. `forgot`, `cut` and `lost` are the
histories that tell which window's state was not saved or overwritten, whose transcript was
rewritten without getting shorter than its offset, and which `note add` failed.

**Shell.** `ui` has the screens, what each shows (`at`: the version of the store when it
was read; `read`: a count of rereads), which are stale, and the one overlay; `prompt` the
question standing; `check` and `orch` the two runs, whose output is one of `Streams`; `asked` is
what was named and what was acted on. One action per key, message and tick. A check has
four ends (`Outcomes`): cancelled, failed, recorded, and recorded with the screen unreadable; only a
recorded one with its screen reread says how many lines were dropped (`ToldAtEnd`, `told`), so at
the others what was dropped goes unsaid. Left out: a reload that fails after an answer, a task
in detail that cannot be read, and signals that end the UI without its clean-up. A set-up with
`ahead` lets keys reach the loop before a command's message does, as a paste does.

**StoreFile.** `file` is the schema version, what has been added (each column, table, seed,
index, rewrite by migration), and the copies. `Open` decides, `Copy` and `CopyDone` keep the
old file, `CreateTables` is the DDL, `Migrate` one migration's transaction. `Add`, `Revise`,
`Import` and `Backfill` commit rows; `IndexIt`, `ReindexIt`, `Clear` and `Fill` the word
table; `Send`, `Answered`, `NotAnswered` the provider. `unsure` and `behind` mark rows whose
indexing or embedding was cut short or which two processes were at, and `behind` also those
whose text a backfill took from a word table that was not sure of it.

## 3. Runs

| Run | Instance | Shows |
|---|---|---|
| `gate_rules` | two trees, low and high risk, hitl and auto, test and sast rows, up to two checks and two decisions, three rows in all | `HighRiskCompletionRules`, `TighteningNeverOpens`, `RefusalsNeverOpen`, `AgentTypedPassNeverOpens` |
| `complete_races` | an agent and a person, in five scenarios: four commands out of complete, type, level, reject; three out of level, complete, type; three out of complete, approve, type, status, role, token, the tree edited meanwhile; two out of run, `--cmd`, complete, approve with hashing that may fail; four out of complete, type, level at high risk. Any two writes may share a second (`SameSecond = TRUE`) | `OnlyPeopleVouch`, `ImplementsAtomic` |
| `spec_races` | two processes, two specs, two texts; killed anywhere | `HistoryIsWhole`, `ApprovedTextIsVouched`, `ImplementsRows` |
| `plan_races` | an agent with the token and a person, one spec of two texts, plans of two items; seven commands and changes of the spec | `OneDraftPerSpec`, `VersionsGrow`, `CarriedOutOnce`, `PlansRestOnApprovedText` |
| `audit_races` | two processes, an old store (with or without unhashed and hashed events, a record of each table) and an empty one; three commands of eleven | `VerifyTellsTheTruth`: sound stores verify, alarms mean a write, head seals are the trail's; `AlterationsAreFound`: every event and row changed, dropped or added is noticed |
| `orchestrate` | one launcher in mode run or research, a person, an agent elsewhere; two projects with a task each; two steps, a budget of one, one act of agents, two commands of the others or failing calls, three sessions | `RunsKeepTheirLimits`, `SessionsInOrder`, `ConfinedUntilAllowed` |
| `run_ends` | one launcher in any mode without limits on its steps or budget, and a person; two sets of tasks; one act of agents, one command (start, end, status, decide, the stop file, interrupt) or failing call | `RunsEndCleanly` (liveness) |
| `records` | an agent and a person; four or five commands, of six sets | `TrustIsTold`, `TrustIsAPersonsCall`, `MadeOnce` |
| `tasks` | an agent and a person; two or three commands, of eight sets; six directories with a link, two projects | `BoardInOrder`, `LevelsAreGiven`, `UpdatesAreWhole`, `DirectoriesMeanProjects` |
| `hooks` | one or two windows; every call once, or some calls while sessions begin and end, or four to six moves of capture, or of evidence | `CallsAreJudgedTruly`, `CaptureIsFaithful`, `HeldForStaleEvidence` |
| `screens` | two of the seven tabs and two items at a time, in eight set-ups; a channel of one line, two lines a run, one or two commits of others | `ScreensAgree`, `RunsAreKept`, `NothingMovesUnseen` |
| `store_file` | two processes, of one build or two, builds of version 7 to 16, a file of version 0, 11 or 16, killed up to twice; a memory, a note and a spec of up to three texts, two models; ten set-ups, the last an import, a revision and a backfill at once | `SchemaIsWhole`, `SearchIsCurrent` |

Most properties of the last eight are conjunctions of named parts, each with its own
comment in the module:

| Property | Parts |
|---|---|
| `VerifyTellsTheTruth` | `TrailTypeOK`, `SoundStoreVerifies`, `AlarmMeansAWrite`, `SealsMatchTheTrail` |
| `SessionsInOrder` | `TypeOK`, `OneSessionPerScope`, `SessionsInTheTrail` |
| `RunsKeepTheirLimits` | `SpendCapHolds`, `DenialStopsTheRun` |
| `RunsEndCleanly` | `RunEnds`, `LaunchedSessionsEnd` |
| `TrustIsTold` | `TypeOK`, `TrailTellsTrust`, `ContextShowsWhatStood` |
| `TrustIsAPersonsCall` | `TrustTakesAPerson`, `RulesRetiredByPeople` |
| `MadeOnce` | `DraftsCapped`, `PromotedOnce` |
| `BoardInOrder` | `BoardTypeOK`, `BoardMatchesTrail`, `CycleNeedsARace` |
| `LevelsAreGiven` | `AutoIsEarned`, `LoosenedByPeople` |
| `DirectoriesMeanProjects` | `TaskWhereItBelongs`, `FoundHoweverReached`, `MarkerHolds` |
| `CallsAreJudgedTruly` | `TypeOK`, `CallsObey`, `DataIsNotRefused` |
| `CaptureIsFaithful` | `NotedOnce`, `NothingSkipped` |
| `ScreensAgree` | `ShellTypeOK`, `ActsAsNamed`, `FollowsTheStore` |
| `RunsAreKept` | `RunsAreHeard`, `NoRunOutlivesTheScreen` |
| `NothingMovesUnseen` | `RowsHoldStill`, `OutputAccountedFor` |
| `SchemaIsWhole` | `TypeOK`, `VersionTellsTheSchema`, `WorksOnItsSchema`, `CopiedBeforeMigrating` |
| `SearchIsCurrent` | `FoundByPresentText`, `VectorOfPresentText`, `NotesStayHere` |

**Bounds.** The bounds are small because each hazard needs few actors and few writes: one
process decides and another writes; a row changed and changed back takes two writes; a
superseded result takes two rows of a kind; a third attempt needs two interfering writes; a
cycle of three tasks takes three links. Where one instance of everything would be too large,
`Families` (`Setups` in `Shell`) names the set-ups, each a few commands that interact and
how many of them a behaviour gives; a behaviour chooses its family at `Init` and keeps it.
What no family puts together are commands on different tables (a link and an eval). Two
windows or screens or builds stand for any number, because what they share is one file; the
orchestrator has one launcher, since a second in its scope is refused like any other
session, and its person begins and ends sessions as a second launcher would. What `MaxActs`
and `MaxCalls` bound in `run_ends` is what may make a step look like progress: after it
agents leave nothing new.

**Deadlock.** The first five runs (`gate_rules` to `audit_races`) check it: when the
commands are used up and every process has returned, `Rest` (or its like) stutters. The
others may really stop, with every command given, and say so in their configuration.

**Fairness.** Only `Orchestrator` states it: weak fairness of each launcher's own steps,
among them that its agent returns (the code runs it under a context with a timeout and
kills its process group: `orchestrate/agent.go`), and of the closing of a session somebody
has begun to end. Nobody has to start a launcher, to act, to approve or to interrupt, so
`RunEnds` does not lean on other people. Nor on limits, for `run_ends` sets none: it holds by
the rule against a step that changed nothing (`judgeStep`) and by an agent's own end, whichever
calls fail. An agent that leaves something new
each time is ended by `--max-steps` or `--max-cost`. Waiting for a lock is not
modelled: SQLite's busy timeout refuses the statement, which the models have as a failure
or a kill. No other component promises that something happens: `CompleteTaskForTree` gives
up after three attempts by design, the terminal UI waits for a person.

**Exempted.** Some properties except what the code is known to do, so that the rest is
still checked; each exemption is a history variable or a field named in the property:

- `unreported` (`MadeOnce`): `AddDecision` and `AddMemory` return an error when indexing
  fails after their row was committed, so `PromoteNote` gives the note back and a second
  promotion makes a second record (`decision.go:63`, `promote.go`).
- `unread` of `Hooks` (`CallsAreJudgedTruly`): where the store cannot be read, the role's confinement
  is passed over (`guard_role.go:147`), on purpose.
- `forgot`, `cut`, `lost` (`CaptureIsFaithful`): two windows overwrite each other's state
  (`hook.go:399`); a transcript rewritten, and as long as the saved offset or longer when it
  is read again, is taken for the one that was read (`hook.go:406`); a failed `note add` is
  not tried again. A transcript cut short is exempt only until it is read again, from its
  start.
- `blind`, `ahead` (`ScreensAgree`, `RunsAreKept`): a header that cannot be read leaves the
  version noted (`tui/shell.go:186`); typed ahead, the palette changes tabs under a run and
  a check runs on the task in detail when its command starts.
- `merged` (`VerifyTellsTheTruth`): in a store a snapshot was imported into the chain
  verifies, the records need not: somebody may have written after it was found empty
  (`snapshot.go:93`), or the snapshot was taken while somebody wrote.
- `unsure`, `behind` (`SearchIsCurrent`): the index and the vector are written after the
  row's transaction, in whichever order two writers get to it (`spec.go:205`,
  `embedding.go:62`), and a kill or an error leaves them out. A backfill embeds what the
  word table says (`embedding.go`), so a row it takes while that table is unsure of it, or
  while another process still has its words in hand, may get the vector of an older text.
- a torn copy where the process making it was killed (`SchemaIsWhole`; `store.go:992`).
- `unread` of `Orchestrator` (`RunsKeepTheirLimits`): what agents that exited 0 spent and did not
  report is not counted, and buys the run as much again (`agent.go:149`).
- `missed` (`RunsKeepTheirLimits`, `RunsEndCleanly`): a count of denials that failed is none
  (`orchestrate.go:552`), a close that failed leaves its session open (`orchestrate.go:557`).
- `DenialStopsTheRun` counts the denials logged until the agent's return (`upto`): one that
  another agent's call logs in that session between the count and the close, or after, is not seen.
- `OutputAccountedFor` (`NothingMovesUnseen`) is of checks recorded and reread; the dropped lines
  of one that was cancelled or failed are said nowhere (`tui/checkrun.go:138`).
- `HeldForStaleEvidence` compares with the gate of a high-risk task, whatever the risk of the
  one held for: at lower risk the gate would warn.
- `LaunchedSessionsEnd` excepts a launcher that was killed and a session whose project is
  not the one its launcher's directory means, which `endSession` leaves open
  (`orchestrate.go:602`).

## 4. Where the code and its documents part

Met while modelling; the modules do what the code does.

| The sentence | What happens |
|---|---|
| "ids, counts and timestamps are enough to see a change" (`complete.go:150`) | the risk is lowered and raised within one second: the fingerprint is equal and a high-risk task completes on a low-risk verdict: `DoneThroughTheGate`, which says what the sentence does, is violated when it is added to `complete_races` |
| `--max-cost`: "stop when total spend reaches this many USD" (`cmd/orchestrate.go:235`) | a report that cannot be parsed counts as 0 at exit 0 (`agent.go:149`), and the run goes on: `StopsAtMaxCost` is violated when it is added to `orchestrate` |
| a runner result is "against the tree it records" (`THREAT_MODEL.md:104`) | the tree is hashed after the run (`app/check.go:100`), so an edit meanwhile is recorded as tested |
| "loosening needs a person/token" (`THREAT_MODEL.md:39`) | high is a tightening of what was read (medium) and overtaken by critical (`task.go:415`) |
| "Superseded is final" (`spec.go:96`) | superseded between a revision's read and its write, a spec is a draft again (`spec.go:153`) |
| retiring an approved spec is "a person's call" (`spec.go:93`) | an agent read a draft, a person approved it, the agent's supersession is accepted (`spec.go:106`); decisions likewise (`decision.go:91`) |
| "keep search ... in step with the revision" (`spec.go:202`) | the index is written after the transaction: late, twice or never |
| a draft "can no longer be approved because its spec ... is no longer approved" (`plan.go:929`) | the transaction re-reads the spec's version and not its status (`plan.go:728`) |
| "not `--cmd`" at high risk (`ARCHITECTURE.md:80`) | a `--cmd` result is recorded like the runner's and counts |
| an agent's typed pass warns below high risk (`ARCHITECTURE.md:83`) | it blocks at every risk |
| "An agent clears the others by running checks" (`gate.go:368`) | a failing `human_review` is among those others, and only a person supersedes it: the task is routed to agents again and again, each step of which must leave something new or end the run |
| the status "when this version was replaced" (`spec.go:218`) | `spec_versions` keeps the status the revision read |
| "capped at one live draft per task and source" (`memory.go`) | one a process: each may have counted none |

And without a sentence to contradict: `auth rotate` verifies the current token and then
overwrites, so it may re-enable a token disabled meanwhile (`auth.go:141`); `AddTask`
resolves its project once for the task and once for its role (`app/task.go:51`), between
which a marker may be written; a marker above a registered project nested under it, when
it names a project without a path, wins over that project.

## 5. Proofs

`CompletionProofs` proves, for any processes, trees, data and bounds satisfying the
assumptions of `Completion` (sets of data are subsets of the code's, `backlog` and `done`
are used, the two marks of an unknown tree are not trees):

- `TypeCorrect`: `Spec => []TypeOK`. What a process remembers fits the statement it is
  at. `TypeOK` is inductive; the proof has one lemma per command and one step per action.
- `PeopleVouch`: `Spec => []OnlyPeopleVouch`. Authorization is a step of its own, and the
  token may be switched before the write it allows, so the invariant cannot speak of the
  token. `VouchInv` says instead that each process about to vouch (at `recordApproval`,
  or at `commit` with an override) is a person or a token holder, and that the two
  histories have equal length; it is inductive with `TypeOK`.

The second half of `CompletionProofs` proves that the protocol amounts to the atomic
specification:

- Rows are only appended and `updated_at` never goes back (`NextGrows`), so a fingerprint
  equal to an earlier one says that nothing changed in between. `FingerprintInv` states it
  for every process: what it remembers, at each statement, is what the store held when its
  fingerprint was taken, as long as the present inputs still equal that fingerprint.
- `HoldsInv` says that a process about to append holds a row of the kind the abstract
  specification appends, and that an override in hand goes with a verdict that is not OK.
- `CommitVerdict`: at the commit, equal fingerprints make the verdict the gate's verdict
  now. With `SameGate` (the two modules' gates are one) `StepRefines` maps every step to
  an atomic one or to a stutter.
- `Refinement` holds with writes that share a second too, because the atomic specification judges
  levels in `lately`: from an equal stamp it is only known that the row has had the levels
  read since it was last stamped (`Knows`). That it must say so is the first row of section 4. Checks and
  approvals have ids and counts, so of them what is judged is what there is at the commit, whatever
  the clock: `CurrentEvidence` says it apart (`EvidenceIsCurrent`, stated with the proof).

`TaskProofs` first proves the properties of the rules themselves over logs of any length, where
the runs have two rows. `HasLast` and `NewestAt` give the newest row of a selection, and
each theorem follows from the blocker that the step or the log produces: `FailureCloses`,
`RejectionCloses`, `RoleCloses`, `GateMonotone`, `HighRiskChecks`, `HighRiskApproval`.
With `Refinement`, they hold of `Completion` too, for levels the row has had in the second of
its last write: those it has, where writes do not share a second.

It then proves the four properties of `TaskBoard`, for any processes, people, directories,
projects and tasks, any interleaving of their commands and any bounds. Its invariant `BInv` is:

- `Typed` and `BoardMatchesTrail`: every row is what the last events about it say. A
  transaction appends one event per field it changes, so `UpdateTaskKeeps` is an induction
  over the fields of the update (`OrderedIs`).
- `InAnOrder`: unless two commands linked at once (`blind`), no link's second task leads to
  its first. `wouldCycle` searches a map of links in rounds; `SearchIsSound` and
  `SearchIsDone` prove, by induction over the rounds, that it finds exactly the tasks that
  lie in every closed set with the start (`WaitingIsLedTo`), and `GoodLink` that a link
  whose search found no way back leaves the links acyclic. `NoneWaitsForItself` ends it.
- `AllRemembered`: what a command read still bears on what it will write. An addition
  that settled on a project may be in it (`Meant`); an update that loosens a level is
  a decider's, or tightens the level that was read (`UpdatingHolds`); a promotion holds an
  eval of the task's own project that was the newest when it began (`PromotingHolds`).
  It persists because the tables only grow (`GrownRemembers`).
- `AllGiven`: what an event says of autonomy was given by a person or earned.

The directories take lemmas on paths: a marker is on the way up from the directory
(`NearestIsAbove`), and a project found in the list is the one that holds it
(`ListedIsMeant`).

`SpecProofs` begins with what every transaction of `spec.go` keeps. `RowsInv` (in `SpecRows`)
adds to the two properties that an unwritten spec has version 0 and any other at least 1
(`Numbered`). `RowsGrow` is the lemma the others rest on: versions never go back, a version's
text never changes (`Later`), and an approval stays on record. `PlanProofs` takes these
lemmas for its own specs through an instance of `SpecProofs`, whose assumptions its own imply.

It then proves `Specs` for any processes, specs and texts. A revision writes the
version it read into the history without asking whether it still is the spec's; that it
is, is the argument of `NotOvertaken`: the version read is not above the spec's
(`RowsGrow`), it is not among the replaced ones or `UNIQUE (spec_id, version)` would refuse
it, and the replaced ones are all those below (`HistoryIsWhole`). So the step is a `Revise`
of `SpecRows` (`StepCommits`), and `SpecsImplementRows`, `NoTextIsLost` and
`ApprovedAsRead` follow. `ReadInv` carries the read's knowledge to the write.

`PlanProofs` proves the five properties of `Plans`. They are stated of a table, the
approvals and the set of vouched versions (`Good`), so that a revision is one draft closed
(`DraftClosed`) and one added (`DraftAdded`), and an approval is `DraftApproved`. What makes
`Good` inductive:

- `DraftIsLast`: a draft is its spec's last plan. `RevisePlan` numbers from the plan it
  replaces, so `VersionsGrow` needs this, and `OneDraftPerSpec` follows from it.
- `HasLast`: a spec with plans has a last one, whose number `ProposePlan`'s maximum is.
- `Rests`: each plan's version is a vouched one, carried from the read of the approved
  spec by `Holds`; `VouchedAreVersions` then makes equal versions equal texts, which is
  why re-reading the version alone at the approval is enough for the text, though not for
  the status.

`OrchestratorProofs` proves the two invariants and the action property of `Orchestrator`,
for any number of launchers, people, agents, projects and tasks, any budget, any route, any
holders of the token and any calls failing.
It assumes what the schema gives: each task's row is a `TaskRow`, with no more criteria open
than there are. Its invariant `IInv` is `TypeOK` and:

- `Scoped`, `Trail`: no two open sessions are of one project or beside an unscoped one;
  the trail has one start of each session, one end if it is over, and names no other. The
  count of open sessions and the insert are one transaction, which is all `Scoped` needs;
  an end is told by the step that closes.
- `LaunchInv`: what each launcher has in hand fits where it is (`Fits`): the session it began
  and the events before its mark (`InHand`); that the cost counted and the cost of unread reports
  are together what its agents cost, wherever the run may go on (`Counted`: a report that is
  missing after a failure ends it); and that no denial came before the agent's return where it
  may chain, unless the count failed (`Undenied`: `upto` closes the set that is counted, so that
  denials others log later change nothing). `Remembers` types the memory.
- `Allowed`: who is about to close a session was allowed to when it was read. `EndSession`
  reads in one step and closes in another, and `ConfinedUntilAllowed` holds all the same
  because a session's scope and who began it never change.

`RecordProofs` proves the three invariants of `Records`, for finitely many processes (a
count of them is in `DraftsCapped`). Every action is one `Effect` on the tables with a step
of one process (`StepDoes`), so what all of them keep is proved of effects: rows and events
are only added (`EffectKeeps`, `TrailGrows`). `IInv` has `Typed`, `Fits` (what is referred
to exists), and:

- `Trail`: the last word of the trail on each row is what the row says now. It is what makes
  `TrailTellsTrust` inductive: a status and its event are one transaction, but the guard
  of the status was read before.
- `Knows`: what a process read still bears on what it will write. A decision it saw as not
  trusted was not at that moment of the trail; an entry in the context it is rendering was
  trusted at the moment noted. What the trail had told at a moment stays told
  (`TrustedStill`), whatever is written since, and `ContextShowsWhatStood` follows.
- `Capped`: the drafts waiting and the processes about to add one are together no more
  than the processes. Each of them counted before adding, so the limit of one
  that the code checks may be passed, but by no more than that.
- `Promoted`: a note claimed is in one process's hand (`Alone`), and its record is made by
  the process that holds the claim.

`StoreFileProofs` proves `SchemaIsWhole` and `SearchIsCurrent`, for any processes, builds,
items, texts and models; items are numbers, because the code goes through them in order.

- `SchemaInv` adds to the parts of `SchemaIsWhole` that the version only moves on, so a
  process that read it knows a lower bound (`VersionMovesOn`), and that a store which had a
  version has its copy, of that version, before a process goes on to the DDL or a migration
  (`CopyComesFirst`).
- `SearchInv` says of each row that is not exempt that at most one process is at work on it,
  and what that process has made of its words and its vector so far (`WordsFollow`,
  `VectorsFollow`): nothing yet, the deletion, or all of it. Every step has one of the eleven
  `Forms`, and each form one lemma. The exemption of a backfill that reads a word table which
  is not sure was missing in the model until this proof failed; `store_file` has a set-up
  that needs it.

It then proves the two invariants of `AuditTrail`, for any stores, processes, roles and
contents and an old store of any size. It assumes that the word standing for what an alteration
leaves is no role and no content, so that an alteration alters. `VerifyTellsTheTruth`
speaks of hashes, which are built one on the other and merged between stores, so the invariant
`TInv` says what they come to instead: there is one past `l` (how many events an older
acline left, how many without a hash, with which role) such that

- every trail is a `Trail` of that past or of none (`ATrail`): each hash is all that comes after
  the unhashed events, with the role from the marker on, the marker is the first event after
  the old ones, and what each later event says fits what precedes it: an attestation is of
  the old events, a head seal names an earlier event. Every write keeps that (`LoggedIs`,
  `ResealedIs`). `ImportedIs` rests on `MergeIsOne`: a merge whose hashes chain is one of
  the two trails, because equal hashes at the seam make all before it equal and a trail with
  a marker shares no hash with one whose marker stands elsewhere;
- the rows of a store into which nothing was merged have their seals (`StoreOK`), and no
  watermark lies beyond the rows. Recording adds a row with its seal, resealing seals the
  rest (`SealRestIs`, by induction over the rows);
- `Knows`: a verifier's seals are of rows that were there when it read them, and those rows
  agree with them (`Judges`), so that whatever it reports is a row added since; a head
  read, or a seal's, is in the trail still; what is being exported is a trail, with rows for
  its watermarks. Others only append (`Lasts`), which leaves all of that true (`KnowsStill`).

The invariant says that the store verifies, hence `VerifyTellsTheTruth` (`InvariantTells`).
`AlterationsAreFound` is proved of any such store that verifies, one case for each change:
an event dropped, reworded or given another role breaks its own hash or the next one's,
before the marker the attestation, and a row dropped, changed or added breaks with its seal
or has none (`ChangesAreFound`).

`FrontProofs` proves the three invariants of `Hooks`, for any number of windows, any lines,
trees, transcripts and commands nested to any depth. It assumes of the data
(`HooksAssumption`) that calls and sessions are records of the forms in `Guard`, and that a
tree is neither of the two marks for having none.

- The tables come first: what a shell would execute, within their reach, is in a text the guard
  scans (`ExecutedIsShown`), and what is scanned is executed or nests too deep
  (`ShownIsExecuted`). So a call let through is not `Forbidden` (`LetThroughIsAllowed`), and
  one a read-only role is not refused changes no file, as far as those tables reach.
- `OneOpen` and `Judged`: one session at most is open here, and each step of judging has
  found what it asks of the session the call was made in, if that is open still. A session
  ended and another begun between two reads makes the call be judged by both in part, which
  is why `CallsObey` speaks of the session that was current all along: that it is open is
  enough, since a session is never opened again.
- `SavedTells` and `InHand`: an entry of the state file, saved or in a hook's hands, made of
  the edition that is there, has all lines before its offset among its seen, and a line is
  seen once it was recorded, was lost, or is next in the same hook's hands. It is
  monotone: what is added to a transcript, or recorded, takes nothing from it
  (`KeepTelling`, `TellsStill`), so an entry read before and written after other hooks ran
  still tells the truth, though it may forget.
- `Once`: unless something of the window was forgotten, its recorded lines differ and are
  seen, and none is still to be recorded; `NewLines` shows that a capture takes each new
  line once (by counting positions: `RanksNumber`).
- `Held`: the passes a hook read are not empty and the tree it read is none of theirs, from
  which the gate's `stale` blocker follows.

It then proves the two invariants and the action property of `Shell`, for any number of items
and commits, any lines, and any set-ups that are `Settings` (which tabs are shown, in which
order, whether a person types ahead). Its invariant `SInv` adds to the two invariants:

- `Follows`: a reload in progress has given every tab it has passed at least the commits
  it will note as the version when it is done. So a version noted is one that every screen
  reached, whatever commits arrive between two tabs.
- `Prompted`, `Holding`: what is asked on a screen is what can be asked there, about the task in
  detail, and the screen that asks, searches or runs has the keyboard alone (`Alone`): no
  reload is under way and none of the quick messages is waiting. It is what makes a row under a
  question hold still. A person who types ahead (`ahead`) may open a question before the last
  message came in, so `Holding` asks for one who does not.
- `Flowing`: of each run, at most one message is on its way, it is the one its chain has sent, and
  lines written are shown, counted as dropped, held or on their way. The end is sent when
  nothing is held any more (`EndFlows`), hence `OutputAccountedFor` where the end says the
  number.

Every handler is a function of the shell's record, so its lemma is about that function
(`Reread`, `ClosedOn`), and `TypeOfParts` puts the record together again.

Model-checked only: `RunsEndCleanly`, which is liveness under fairness and out of the prover's
reach.

## 6. Plan

All modules planned are written, and every safety property of the runs is proved. What would
be next: limits on `InReach` that follow the guard's tables when they change, and the signals that
end the terminal UI.

## 7. Not modelled, and why

- The command line (`cmd`) and the MCP server (`mcp`) parse flags or messages and call one
  operation each, which is modelled where it lives; the server's watch is the terminal UI's.
- The orchestrator's sandbox and process groups (`sandbox.go`, `proc`) are settings for
  other programs and signals; only that a killed agent is gone is used.
- Redaction and fencing (`redact`, `untrusted`), reports (`brief`, `clip`, `metrics.go`,
  `dashboard.go`) and scaffolding map text to text or write files; ranking in recall and
  search (`memory_similar.go`, scores) is arithmetic on vectors. The pattern tables of the
  guard are data of the model: what a regular expression matches is not checked.
- Of `TaskBoard`: titles, priorities, types, features, criteria and roles of a task, on which
  no rule there depends. Of `Hooks`: the text a session starts with, and the formats of
  other agents' hooks. Of `Shell`: the forms that edit a row, sorting and layout.
  Of `StoreFile`: columns, so a snapshot of an older version. Which session applies is
  resolved from a directory in `Sessions` and `TaskBoard` apart: no behaviour has a marker
  written mid-session.
- Within `Completion`: the events and seals written with each row are `AuditTrail`'s, the
  failure pattern drafted after a failing check is `Records`', the session a command is
  attributed to is left out; error paths that only report a failed query are a `Crash`.
