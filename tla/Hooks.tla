-------------------------------- MODULE Hooks --------------------------------
(***************************************************************************)
(* Claude Code's hooks (internal/cmd: hook.go, hook_post.go, hook_stop.go, *)
(* guard.go, guard_role.go) in windows of one project: a tool call judged  *)
(* before it runs and recorded after it, MEMORY_LOG lines captured from    *)
(* the transcript, and a turn held while its checks are about older code.  *)
(* A window runs one hook at a time; the store, the state file and the     *)
(* tree are everybody's.                                                   *)
(*                                                                         *)
(* A read of the store, of the tree or of the state file is one step, and  *)
(* so is a transaction.                                                    *)
(***************************************************************************)
EXTENDS Guard, MemoryLog, Sessions, Gate

CONSTANTS
  Windows,
  Lines,         \* bound: the lines tagged MEMORY_LOG
  Trees,         \* bound: the working trees
  Families       \* bound: by number, the moves of which a behaviour makes `max`, in
                 \* `windows`, with the calls tried and the sessions begun

Here == "here"
Moves == {"call", "begin", "end", "say", "rewrite", "resume", "delete", "capture", "stop",
          "check", "edit", "finish"}

\* What a role's name tells the guard; "unknown" is a name ResolveRole refuses, of
\* no role or of one that is for people.
NamedRoles == SessionRoles \union {"unknown"}

\* A tool call, the subagent it is of and what ACLINE_ROLE names ("none" for
\* nothing); what a tool has no use for is NoCommand, or a path of kind none.
NoCommand == [depth |-> 0, executor |-> None, at |-> 0, quoted |-> FALSE, stands |-> "opening",
              does |-> "nothing"]
NoFile    == [asked |-> "none", real |-> "none", place |-> "outside"]
CallRows  == [tool : Tools, command : Commands(Nat), path : Paths, glob : Globs,
              subagent : {"none", "read_only"}, named : NamedRoles]

\* A session begun here, by what a hook reads of it.
HereRows  == [project : {Here}, role : SessionRoles, policy : Policies, task : Nat, open : {TRUE}]

ASSUME HooksAssumption ==
  /\ Trees # {} /\ Trees \intersect {NoTree, TreeUnavailable} = {}
  /\ \A n \in DOMAIN Families :
       LET f == Families[n] IN
       /\ f.moves \subseteq Moves /\ f.windows \subseteq Windows /\ f.max \in Nat
       /\ \A c \in f.calls : c \in CallRows
       /\ \A s \in f.sessions : s \in HereRows

VARIABLES
  sessions,      \* acline's sessions; an id is an index
  trail,         \* the events hooks write
  tree, checks, finished,   \* the tree; the active task's checks; it is done
  transcripts,   \* each window's: where it is, its tagged lines, if it is there, and
                 \* the edition of it: another when not just added to
  saved,         \* the state file: each window's entry
  notes,         \* the lines recorded of each window, in order
  continuing,    \* stop_hook_active
  read,          \* history: the edition each entry of the state file is of
  lost, forgot, cut,        \* history: see NoteLine, SaveLog and Capture
  used, spent, pc, mem

capture == <<transcripts, saved, read, notes, lost, forgot, cut>>
work    == <<tree, checks, finished>>
vars    == <<sessions, trail, work, capture, continuing, used, spent, pc, mem>>

Current == CurrentSession(sessions, Here)

Idle == [call |-> [tool |-> "none"], since |-> 0, why |-> "", unread |-> FALSE,
         event |-> "", on |-> 0, then |-> "",
         state |-> <<>>, read |-> <<>>, todo |-> <<>>, stop |-> FALSE, passes |-> {},
         now |-> NoTree]

Events      == {"policy_violation", "guard_warned", "guard_denied", "tool_used"}
Transcripts == [path : Nat, lines : Seq(Lines), there : BOOLEAN, edition : Nat]
Entries     == [path : Nat, offset : Nat, seen : SUBSET Lines]

TypeOK ==
  /\ \A i \in DOMAIN sessions : sessions[i].role \in SessionRoles /\ sessions[i].open \in BOOLEAN
  /\ Cardinality(OpenSessions(sessions)) <= 1
  /\ trail \in Seq([type : Events, session : {0} \union DOMAIN sessions])
  /\ tree \in Trees /\ finished \in BOOLEAN /\ checks \in Seq(CheckRecords(Trees))
  /\ transcripts \in [Windows -> Transcripts] /\ saved \in [Windows -> Entries]
  /\ read \in [Windows -> Nat]
  /\ notes \in [Windows -> Seq(Lines)] /\ lost \in [Windows -> SUBSET Lines]
  /\ continuing \in [Windows -> BOOLEAN]
  /\ pc \in [Windows -> {"idle", "policy", "role", "rules", "deny", "tell", "allowed",
                         "ran", "noting", "stop", "hash", "held"}]

Init ==
  /\ sessions = <<>> /\ trail = <<>> /\ tree = (CHOOSE t \in Trees : TRUE) /\ checks = <<>>
  /\ finished = FALSE
  /\ transcripts = [w \in Windows |-> [path |-> 1, lines |-> <<>>, there |-> TRUE,
                                       edition |-> 0]]
  /\ saved = [w \in Windows |-> Nothing]
  /\ read = [w \in Windows |-> 0]
  /\ notes = [w \in Windows |-> <<>>]
  /\ lost = [w \in Windows |-> {}]
  /\ forgot = {} /\ cut = {}
  /\ continuing = [w \in Windows |-> FALSE]
  /\ used \in DOMAIN Families /\ spent = 0
  /\ pc = [w \in Windows |-> "idle"]
  /\ mem = [w \in Windows |-> Idle]

Spend(move) ==
  /\ move \in Families[used].moves /\ spent < Families[used].max
  /\ spent' = spent + 1
  /\ UNCHANGED used

Goto(w, to, m) ==
  /\ pc' = [pc EXCEPT ![w] = to]
  /\ mem' = [mem EXCEPT ![w] = IF to = "idle" THEN Idle ELSE m]

\* A step of the hook w runs.
Step(w, at, to, m) == pc[w] = at /\ Goto(w, to, m) /\ UNCHANGED <<used, spent>>

\* LogEvent, on a session or (0) on none.
Logged(log, type, session) == Append(log, [type |-> type, session |-> session])

-----------------------------------------------------------------------------
(* acline's sessions, begun and ended from any terminal.                   *)

Begin ==
  /\ Spend("begin")
  /\ Conflicts(sessions, Here) = {}
  /\ \E s \in Families[used].sessions : sessions' = Append(sessions, s)
  /\ UNCHANGED <<trail, work, capture, continuing, pc, mem>>

End ==
  /\ Spend("end")
  /\ Current # 0
  /\ sessions' = [sessions EXCEPT ![Current].open = FALSE]
  /\ UNCHANGED <<trail, work, capture, continuing, pc, mem>>

-----------------------------------------------------------------------------
(* PreToolUse: guardCheckTool, run by runPreToolUse.                       *)

Submit(w) ==
  /\ pc[w] = "idle" /\ w \in Families[used].windows
  /\ Spend("call")
  /\ \E c \in Families[used].calls : Goto(w, "policy", [Idle EXCEPT !.call = c, !.since = Current])
  /\ UNCHANGED <<sessions, trail, work, capture, continuing>>

Allows(session, call) == PolicyAllows(sessions[session].policy, call.tool, call.path)

\* An event is told of the session read here, and inserted in the next step.
ToTell(w, at, event, then, m) ==
  Step(w, at, "tell", [m EXCEPT !.event = event, !.on = Current, !.then = then])

\* LogEvent; that it could not be inserted is swallowed, except a violation's,
\* without which there is no decision.
Tell(w) ==
  LET m == mem[w] IN
  /\ pc[w] = "tell"
  /\ \/ Step(w, "tell", m.then, m) /\ trail' = Logged(trail, m.event, m.on)
     \/ /\ Step(w, "tell", IF m.event = "policy_violation" THEN "idle" ELSE m.then, m)
        /\ UNCHANGED trail
  /\ UNCHANGED <<sessions, work, capture, continuing>>

\* checkActivePolicy.  The violation is told of the session whose policy it is.
JudgePolicy(w) ==
  LET m == mem[w] IN
  /\ pc[w] = "policy"
  /\ \/ (Current # 0 => Allows(Current, m.call)) /\ Step(w, "policy", "role", m)
     \/ /\ Current # 0 /\ ~Allows(Current, m.call)
        /\ ToTell(w, "policy", "policy_violation", "deny", [m EXCEPT !.why = "policy"])
  /\ UNCHANGED <<sessions, trail, work, capture, continuing>>

\* ResolveRole: what the environment names, whatever it is, before what the
\* session has.
RoleHere(call) ==
  IF call.named # "none" THEN call.named
  ELSE IF Current = 0 THEN "none" ELSE sessions[Current].role

\* checkRoleScope and checkSubagentScope.  A role that could not be read is not
\* enforced.
JudgeRole(w) ==
  LET m == mem[w] IN
  /\ pc[w] = "role"
  /\ \E unread \in BOOLEAN :
       LET roles == {m.call.subagent} \union (IF unread THEN {} ELSE {RoleHere(m.call)})
           barred == "read_only" \in roles /\ BlocksReadOnly(m.call)
       IN  IF barred THEN Step(w, "role", "deny", [m EXCEPT !.why = "role"])
           ELSE Step(w, "role", "rules", [m EXCEPT !.unread = unread])
  /\ UNCHANGED <<sessions, trail, work, capture, continuing>>

\* The content rules; a routine command is let through and told.
JudgeRules(w) ==
  LET m == mem[w]
      warns == m.call.tool = "Bash" /\ WarnsOf(m.call.command)
  IN
  /\ pc[w] = "rules"
  /\ \/ BlocksContent(m.call) /\ Step(w, "rules", "deny", [m EXCEPT !.why = "rules"])
     \/ ~BlocksContent(m.call) /\ ~warns /\ Step(w, "rules", "allowed", m)
     \/ ~BlocksContent(m.call) /\ warns /\ ToTell(w, "rules", "guard_warned", "allowed", m)
  /\ UNCHANGED <<sessions, trail, work, capture, continuing>>

\* deny: told of the session current by now, then answered.
Deny(w) ==
  /\ ToTell(w, "deny", "guard_denied", "idle", mem[w])
  /\ UNCHANGED <<sessions, trail, work, capture, continuing>>

\* Every way of not reaching a decision is a deny: the policy cannot be read, the
\* guard panics or does not answer in time, acline is missing.  Nothing is told.
CannotDecide(w) ==
  /\ pc[w] \in {"policy", "role", "rules", "deny", "tell"}
  /\ Goto(w, "idle", mem[w])
  /\ UNCHANGED <<sessions, trail, work, capture, continuing, used, spent>>

\* Claude Code's: the call runs.
Run(w) ==
  /\ Step(w, "allowed", "ran", mem[w])
  /\ UNCHANGED <<sessions, trail, work, capture, continuing>>

\* PostToolUse: recordToolUse, of what changes something and if a session is active.
RecordToolUse(w) ==
  LET call == mem[w].call
      tells == (call.tool \in WriteTools /\ call.path # NoFile) \/ call.tool = "Bash"
  IN
  /\ pc[w] = "ran"
  /\ \/ tells /\ Current # 0 /\ ToTell(w, "ran", "tool_used", "idle", mem[w])
     \/ Step(w, "ran", "idle", mem[w])
  /\ UNCHANGED <<sessions, trail, work, capture, continuing>>

-----------------------------------------------------------------------------
(* The transcript, which is Claude Code's.                                 *)

Transcribe(w, move, transcript) ==
  /\ w \in Families[used].windows /\ transcripts[w].there
  /\ Spend(move)
  /\ transcripts' = [transcripts EXCEPT ![w] = transcript]
  /\ UNCHANGED <<sessions, trail, work, saved, read, notes, lost, forgot, cut, continuing,
                 pc, mem>>

Transcript(w) ==
  LET t == transcripts[w] IN
  \/ \E l \in Lines : Transcribe(w, "say", [t EXCEPT !.lines = Append(@, l)])
  \/ \E n \in 0 .. Len(t.lines) :   \* what is left of it, there or in another file
       LET rest == SubSeq(t.lines, n + 1, Len(t.lines)) IN
       \/ Transcribe(w, "rewrite", [t EXCEPT !.lines = rest, !.edition = @ + 1])
       \/ Transcribe(w, "resume", [t EXCEPT !.lines = rest, !.edition = @ + 1, !.path = @ + 1])
  \/ Transcribe(w, "delete", [t EXCEPT !.there = FALSE, !.edition = @ + 1, !.lines = <<>>])

-----------------------------------------------------------------------------
(* PreCompact, SessionEnd and Stop: captureMemoryLog.                      *)

\* What is to be recorded follows from the state file and the transcript as read
\* here, one after the other.  A state file that cannot be read counts as empty,
\* which is left out.  A transcript rewritten without getting shorter than what was
\* read of it is not seen to be rewritten (cut).
Capture(w) ==
  LET st == saved[w]  t == transcripts[w] IN
  /\ pc[w] = "idle" /\ w \in Families[used].windows
  /\ \E move \in {"capture", "stop"} :
       /\ Spend(move)
       /\ Goto(w, "noting",
               [Idle EXCEPT !.state = [saved EXCEPT ![w] = CapturedTo(st, t.path, t.lines)],
                            !.read = [read EXCEPT ![w] = t.edition],
                            !.todo = LinesToNote(st, t.path, t.lines),
                            !.stop = (move = "stop")])
  /\ cut' = IF /\ read[w] # t.edition /\ st.path = t.path
               /\ 0 < st.offset /\ st.offset <= Len(t.lines)
            THEN cut \union {w} ELSE cut
  /\ UNCHANGED <<sessions, trail, work, transcripts, saved, read, notes, lost, forgot, continuing>>

\* `acline note add`: it may fail, or be cut off by its timeout after it wrote.
NoteLine(w) ==
  LET m == mem[w] IN
  /\ pc[w] = "noting" /\ m.todo # <<>>
  /\ Step(w, "noting", "noting", [m EXCEPT !.todo = Tail(@)])
  /\ \/ notes' = [notes EXCEPT ![w] = Append(@, Head(m.todo))] /\ UNCHANGED lost
     \/ lost' = [lost EXCEPT ![w] = @ \union {Head(m.todo)}] /\ UNCHANGED notes
  /\ UNCHANGED <<sessions, trail, work, transcripts, saved, read, forgot, cut, continuing>>

\* The whole file is written, as it was read but for this window's entry: what
\* other windows saved meanwhile is forgot.  The write may fail.
SaveLog(w) ==
  LET m == mem[w]
      written == Pruned(m.state, w, [v \in Windows |-> transcripts[v].there])
  IN
  /\ pc[w] = "noting" /\ m.todo = <<>>
  /\ Step(w, "noting", IF m.stop THEN "stop" ELSE "idle", m)
  /\ \/ /\ saved' = written /\ read' = m.read
        /\ forgot' = forgot \union {<<v, "overwritten">> : v \in {u \in Windows \ {w} : written[u] # saved[u]}}
     \/ /\ UNCHANGED <<saved, read>>
        /\ forgot' = forgot \union {<<w, "unsaved">>}
  /\ UNCHANGED <<sessions, trail, work, transcripts, notes, lost, cut, continuing>>

\* The hook is killed, or the window closed.
Kill(w) ==
  /\ pc[w] = "noting"
  /\ Goto(w, "idle", mem[w])
  /\ forgot' = forgot \union {<<w, "unsaved">>}
  /\ UNCHANGED <<sessions, trail, work, transcripts, saved, read, notes, lost, cut,
                 continuing, used, spent>>

-----------------------------------------------------------------------------
(* Stop: staleCheckReason.                                                 *)

\* Mutant: every pass counts, not the newest result of its kind.
RunnerPasses_Ever(log) ==
  {log[i].tree : i \in {j \in DOMAIN log : log[j].status = "pass" /\ log[j].source = "runner"}}
    \ {NoTree}

\* The trees of the passes acline ran, of each kind's newest result.
RunnerPasses(log) ==
  {c.tree : c \in {d \in LatestChecks(log) : d.status = "pass" /\ d.source = "runner"}} \ {NoTree}

EndTurn(w) ==
  /\ Step(w, pc[w], "idle", mem[w])
  /\ continuing' = [continuing EXCEPT ![w] = FALSE]

\* It lets the turn end for any error.
StopReads(w) ==
  /\ pc[w] = "stop"
  /\ \/ EndTurn(w)
     \/ /\ ~continuing[w]
        /\ Current # 0 /\ sessions[Current].task # NoTask /\ ~finished
        /\ RunnerPasses(checks) # {}
        /\ Step(w, "stop", "hash", [mem[w] EXCEPT !.passes = RunnerPasses(checks)])
        /\ UNCHANGED continuing
  /\ UNCHANGED <<sessions, trail, work, capture>>

\* hashWithin: a tree that takes too long lets the turn end.
StopHashes(w) ==
  /\ pc[w] = "hash"
  /\ \/ EndTurn(w)
     \/ /\ tree \notin mem[w].passes
        /\ Step(w, "hash", "held", [mem[w] EXCEPT !.now = tree])
        /\ UNCHANGED continuing
  /\ UNCHANGED <<sessions, trail, work, capture>>

\* Claude Code's: the held turn goes on, and ends in another Stop.
Continue(w) ==
  /\ Step(w, "held", "idle", mem[w])
  /\ continuing' = [continuing EXCEPT ![w] = TRUE]
  /\ UNCHANGED <<sessions, trail, work, capture>>

\* What the agent does to the tree and the task.
Work ==
  /\ \/ Spend("edit") /\ tree' \in Trees \ {tree} /\ UNCHANGED <<checks, finished>>
     \/ /\ Spend("check")
        /\ \E kind \in {"test", "lint"}, status \in {"pass", "fail"}, source \in CheckSources :
             checks' = Append(checks, [kind |-> kind, status |-> status, source |-> source,
                                       by |-> "agent", tree |-> tree])
        /\ UNCHANGED <<tree, finished>>
     \/ Spend("finish") /\ finished' = TRUE /\ UNCHANGED <<tree, checks>>
  /\ UNCHANGED <<sessions, trail, capture, continuing, pc, mem>>

-----------------------------------------------------------------------------
Next ==
  \/ Begin \/ End \/ Work
  \/ \E w \in Windows :
       \/ Submit(w) \/ JudgePolicy(w) \/ JudgeRole(w) \/ JudgeRules(w) \/ Deny(w)
       \/ Tell(w) \/ CannotDecide(w) \/ Run(w) \/ RecordToolUse(w)
       \/ Transcript(w) \/ Capture(w) \/ NoteLine(w) \/ SaveLog(w) \/ Kill(w)
       \/ StopReads(w) \/ StopHashes(w) \/ Continue(w)

Spec == Init /\ [][Next]_vars

-----------------------------------------------------------------------------
\* What the shell does with a command, whatever the guard's tables make of its
\* text: a word is run, a quotation only by an interpreter at or above it.
Executes(c) == ~c.quoted \/ (c.executor # None /\ c.executor <= c.at)

\* Where the tables promise to find it: a pattern anywhere, a program's name after
\* a separator anywhere, or at the head of a command no interpreter reads.
InReach(c) ==
  \/ c.does \in Patterns \/ c.stands = "apart"
  \/ c.stands = "behind" /\ c.does \in {"removal", "actor type"}
  \/ /\ c.stands = "opening" /\ ~c.quoted /\ c.at <= MaxDepth
     /\ c.executor = None \/ c.at <= c.executor

Does(call, sayings) ==
  /\ call.tool = "Bash" /\ call.command.does \in sayings
  /\ Executes(call.command) /\ InReach(call.command)

Forbidden(call) ==
  \/ Does(call, Sayings \ {"routine", "environment code", "file redirect", "file writer",
                           "session switch", "nothing"})
  \/ /\ call.tool = "Edit"
     /\ \/ call.path.real \in {"secret", "instructions", "settings", "persona", "store"}
        \/ call.path.place = "outside" /\ call.path.real # "none"
  \/ call.tool = "Grep" /\ call.glob.secret /\ ~call.glob.ordinary

ChangesFiles(call) ==
  \/ call.tool = "Edit"
  \/ Does(call, {"file redirect", "protected redirect", "file writer", "protected writer"})

\* A call that runs does nothing the content rules name, within the reach of their
\* tables whatever the quoting and nesting, touches (links resolved) no file they
\* protect, and obeys the policy and the role of the session that was active all
\* along -- while other terminals end and begin sessions between the guard's
\* reads (guard.go: guardCheckTool).
CallsObey ==
  \A w \in Windows : pc[w] \in {"allowed"} =>
    LET m == mem[w]  p == sessions[m.since].policy IN
    /\ ~Forbidden(m.call)
    /\ m.call.subagent = "read_only" \/ (m.call.named = "read_only" /\ ~m.unread)
         => ~ChangesFiles(m.call)
    /\ m.since # 0 /\ m.since = Current =>
         /\ m.call.tool \notin p.denyTools
         /\ {m.call.path.asked, m.call.path.real} \intersect p.denyPaths = {}
         /\ p.allowPaths # {} /\ m.call.path.real # "none" => m.call.path.real \in p.allowPaths
         /\ sessions[m.since].role = "read_only" /\ m.call.named = "none" /\ ~m.unread
              => ~ChangesFiles(m.call)

\* A command is not refused for what it only mentions, to a quotation no
\* interpreter reads, unless it nests deeper than the guard looks
\* (guard_shell.go: bashScanTargets).
DataIsNotRefused ==
  \A w \in Windows : pc[w] = "deny" /\ mem[w].why = "rules" /\ mem[w].call.tool = "Bash" =>
    Executes(mem[w].call.command) \/ mem[w].call.command.at > MaxDepth

\* A line is recorded once, over compactions, resumed and rewritten transcripts,
\* unless the state that says so was not saved or was overwritten by a hook of
\* another window (hook.go: captureMemoryLog).
NotedOnce ==
  \A w \in Windows :
    {<<w, "unsaved">>, <<w, "overwritten">>} \intersect forgot = {} => IsInjective(notes[w])

\* No line before the saved offset was left out, of a transcript that was not
\* rewritten, or has been read again since: each was recorded, now or when the
\* transcript said it before, or its `note add` failed (hook.go: captureMemoryLog).
NothingSkipped ==
  \A w \in Windows \ cut :
    read[w] = transcripts[w].edition =>
      /\ saved[w].offset <= Len(transcripts[w].lines)
      /\ ToSet(SubSeq(transcripts[w].lines, 1, saved[w].offset)) \subseteq ToSet(notes[w]) \union lost[w]

\* A turn is held at most once, and only for evidence the completion gate would
\* refuse of a high-risk task as the checks and the tree then stood, whatever the
\* risk of this one (hook_stop.go: staleCheckReason).
HeldForStaleEvidence ==
  \A w \in Windows : pc[w] = "held" =>
    /\ ~continuing[w]
    /\ mem[w].now = tree /\ mem[w].passes = RunnerPasses(checks) =>
         "stale" \in ProvenanceBlockers("high", checks, tree)

\* Calls are judged by what they do (guard.go, guard_shell.go).
CallsAreJudgedTruly ==
  /\ TypeOK
  /\ CallsObey
  /\ DataIsNotRefused

\* Every tagged line of a transcript is recorded, once (hook.go).
CaptureIsFaithful ==
  /\ NotedOnce
  /\ NothingSkipped

=============================================================================
