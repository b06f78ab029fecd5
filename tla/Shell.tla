------------------------------- MODULE Shell -------------------------------
(***************************************************************************)
(* The terminal UI (internal/tui): a shell of tabs over one store that    *)
(* the CLI, hooks and agents write too.                                    *)
(*                                                                         *)
(* One loop handles one message at a time: a key, the tick of the watch,  *)
(* or a message a command made. Commands run on their own, so a message   *)
(* may reach the loop after later keys (a paste, a person typing ahead)   *)
(* and while another tab shows. Other processes commit at any time, also  *)
(* between two reads of one handler. data_version says that somebody else *)
(* committed; the connection's own writes do not move it.                 *)
(*                                                                         *)
(* Items stand for the rows a person may decide about; their texts, the   *)
(* layout, scrolling, sorting and the messages above the footer are left  *)
(* out. The library that runs the loop is external.                       *)
(***************************************************************************)
EXTENDS Prompts, Streams

CONSTANTS
    Setups,       \* the set-ups to explore, see Settings
    MaxCommits    \* bound: commits by other processes, in any set-up

Tabs == {"dashboard", "tasks", "review", "specs", "memory", "audit",
         "orchestrator"}

\* tabs: the screens, in order; kinds: what each item is; token: the approval
\* token is set; ahead: keys may reach the loop before a command's message. The
\* rest are bounds: the actions a person tries, and the others' commits.
\* Review opens a task on the tasks screen, so it comes with that.
Settings ==
    {s \in [tabs : Seq(Tabs), kinds : [Items -> ItemKinds], token : BOOLEAN,
            ahead : BOOLEAN, acts : SUBSET Acts, commits : 0..MaxCommits] :
        /\ s.tabs # <<>>
        /\ "review" \in Range(s.tabs) => "tasks" \in Range(s.tabs)}

ASSUME SetupsAreSettings == MaxCommits \in Nat /\ Setups \subseteq Settings

VARIABLES
    family,   \* the set-up of this behaviour
    store,    \* [status, commits]: the items, and commits by other processes
    ui,       \* the shell and its screens, see ShellTypeOK
    inbox,    \* messages of commands on their way to the loop
    check,    \* the check run started from a task, as a stream
    orch,     \* [stream, proc]: the orchestrator's process and its output
    asked     \* the last action run: the item its prompt named, the one it ran on

shellVars == <<family, store, ui, inbox, check, orch, asked>>

Modes  == {"normal", "help", "palette", "projects"}
Phases == {"up", "leaving", "left"}
Procs  == {"none", "running", "interrupted", "ended"}

Shown == {family.tabs[k] : k \in DOMAIN family.tabs}

Message(kind, to, at) == [kind |-> kind, to |-> to, at |-> at]

Messages ==
    {Message("palette", to, 0) : to \in Shown \union {"refresh", "projects"}}
    \union {Message("row", "", r) : r \in 1..ItemCount}
    \union {Message("open", "", i) : i \in Items}
    \union {Message(k, "", 0) : k \in {"project", "line", "end", "oline", "oend"}}

\* What a widget's command returns at once; the others wait for something.
QuickKinds == {"palette", "row", "open", "project"}

NoReading == [kind |-> "none", next |-> 1, version |-> 0]

ShellTypeOK ==
    /\ family \in Setups
    /\ store \in [status : [Items -> Statuses], commits : 0..MaxCommits]
    /\ ui \in [phase : Phases, mode : Modes, active : Shown,
               version : 0..MaxCommits,             \* data_version last noted
               stale : SUBSET Shown,                \* screens to reread
               blind : SUBSET Shown,                \* a read of theirs failed
               read : [Shown -> [Items -> Statuses]],  \* what each screen read
               at : [Shown -> 0..MaxCommits],       \* and after how many commits
               wide : SUBSET Shown,                 \* filters opened up
               row : [Shown -> 1..(ItemCount + 1)], \* cursors
               prompt : [Shown -> Prompts],
               searching : BOOLEAN,
               detail : 0..ItemCount,               \* the task opened, 0: none
               reading : [kind : {"none", "tick", "reload"},
                          next : 1..(Len(family.tabs) + 1),
                          version : 0..MaxCommits]]
    /\ inbox \subseteq Messages
    /\ check \in Streams
    /\ orch \in [stream : Streams, proc : Procs]
    /\ asked \in [act : Acts \union {"none"}, named : 0..ItemCount, on : 0..ItemCount]
-----------------------------------------------------------------------------
(* What a screen shows, and reading it again *)

Rows(t, read, wide) ==
    CASE t = "tasks"  -> TaskRows(family.kinds, read, t \in wide)
      [] t = "review" -> ReviewRows(family.kinds, read)
      [] t = "specs"  -> SpecTreeRows(family.kinds)
      [] t = "memory" -> MemoryRows(family.kinds, read, t \in wide)
      [] t = "audit"     -> TrailRows
      [] t = "dashboard" -> OverviewRows
      [] OTHER           -> <<>>

RowsOf(t) == Rows(t, ui.read[t], ui.wide)

Kept(t, old, new, row) ==
    CASE t = "review" -> KeptOnReview(old, new, row)
      [] t = "tasks"  -> KeptOnTasks(old, new, row)
      [] OTHER        -> KeptInPlace(old, new, row)

\* load: the screen is what the store is now. The tasks screen rereads the task
\* it shows in detail, too.
Load(u, t) ==
    [u EXCEPT !.read[t] = store.status, !.at[t] = store.commits,
              !.blind = @ \ {t},
              !.row[t] = Kept(t, Rows(t, u.read[t], u.wide),
                              Rows(t, store.status, u.wide), u.row[t])]

\* Holding the keyboard as it would be if a run did not.
Capturing_NotRuns(u, t) == u.prompt[t] # NoPrompt \/ (t = "tasks" /\ u.searching)

\* The task shown in detail: everything about it is read at once, and a question
\* that stands over the task before it stays.
OpenDetail(u, i) == [u EXCEPT !.detail = i]

\* Whether a screen holds the keyboard: a question, a search, a run.
Capturing(u, t) ==
    \/ u.prompt[t] # NoPrompt
    \/ (t = "tasks" /\ (u.searching \/ check.on))
    \/ (t = "orchestrator" /\ orch.stream.on)

\* fresh as it would be if it did not mind who holds the keyboard.
MayReread_Always(u) == u.active \in u.stale

MayReread(u) == u.active \in u.stale /\ ~Capturing(u, u.active)

\* The screen could not be read again. (What was read before the failure may be
\* on it; the model leaves the rows as they were and remembers that one failed.)
Failed(u, t) == [u EXCEPT !.blind = @ \union {t}]

\* fresh: what may come of rereading the screen showing. Either way it no longer
\* counts as stale.
Fresh(u) ==
    IF ~MayReread(u) THEN {u}
    ELSE {[Load(u, u.active) EXCEPT !.stale = @ \ {u.active}],
          [Failed(u, u.active) EXCEPT !.stale = @ \ {u.active}]}

Show(u, t) == Fresh([u EXCEPT !.active = t, !.mode = "normal"])

\* reload begins with the header and the version; the screens follow one by one.
Reload(u) ==
    [u EXCEPT !.mode = "normal",
              !.reading = [kind |-> "reload", next |-> 1, version |-> store.commits]]
-----------------------------------------------------------------------------
(* The other processes *)

ShellInit ==
    /\ family \in Setups
    /\ store = [status |-> [i \in Items |-> "waiting"], commits |-> 0]
    /\ LET tabs == {family.tabs[k] : k \in DOMAIN family.tabs} IN
       ui = [phase |-> "up", mode |-> "normal", active |-> family.tabs[1],
             version |-> 0, stale |-> {}, blind |-> {},
             read |-> [t \in tabs |-> store.status], at |-> [t \in tabs |-> 0],
             wide |-> {}, row |-> [t \in tabs |-> 1],
             prompt |-> [t \in tabs |-> NoPrompt],
             searching |-> FALSE, detail |-> 0, reading |-> NoReading]
    /\ inbox = {}
    /\ check = NoStream
    /\ orch = [stream |-> NoStream, proc |-> "none"]
    /\ asked = [act |-> "none", named |-> 0, on |-> 0]

\* Somebody else decides an item, or revises one so that it waits again.
Commit ==
    /\ ui.phase = "up" /\ store.commits < family.commits
    /\ \E i \in Items : \E s \in Statuses \ {store.status[i]} :
          store' = [status |-> [store.status EXCEPT ![i] = s],
                    commits |-> store.commits + 1]
    /\ UNCHANGED <<family, ui, inbox, check, orch, asked>>

CheckWrites ==
    /\ MayWrite(check)
    /\ check' = Send(check)
    /\ UNCHANGED <<family, store, ui, inbox, orch, asked>>

\* The check ends: it is recorded, it or recording it failed, or it was stopped
\* with esc before the tool was done.
CheckEnds ==
    /\ check.on /\ check.open
    /\ \E outcome \in Outcomes \ {"none"} : check' = Close(check, outcome)
    /\ UNCHANGED <<family, store, ui, inbox, orch, asked>>

OrchWrites ==
    /\ orch.proc \in {"running", "interrupted"} /\ MayWrite(orch.stream)
    /\ orch' = [orch EXCEPT !.stream = Send(@)]
    /\ UNCHANGED <<family, store, ui, inbox, check, asked>>

\* The orchestrator ends: by itself, at the stop marker, interrupted, or killed
\* when the grace is over. Only then is its output closed.
OrchEnds ==
    /\ orch.proc \in {"running", "interrupted"}
    /\ orch' = [stream |-> Close(orch.stream, "none"), proc |-> "ended"]
    /\ UNCHANGED <<family, store, ui, inbox, check, asked>>

\* next: the waiting command returns the run's next message.
CheckReports ==
    /\ \/ /\ NextLine(check)
          /\ check' = TakeLine(check)
          /\ inbox' = inbox \union {Message("line", "", 0)}
       \/ /\ NextEnd(check)
          /\ check' = TakeEnd(check)
          /\ inbox' = inbox \union {Message("end", "", 0)}
    /\ UNCHANGED <<family, store, ui, orch, asked>>

OrchReports ==
    /\ \/ /\ NextLine(orch.stream)
          /\ orch' = [orch EXCEPT !.stream = TakeLine(@)]
          /\ inbox' = inbox \union {Message("oline", "", 0)}
       \/ /\ NextEnd(orch.stream)
          /\ orch' = [orch EXCEPT !.stream = TakeEnd(@)]
          /\ inbox' = inbox \union {Message("oend", "", 0)}
    /\ UNCHANGED <<family, store, ui, check, asked>>
-----------------------------------------------------------------------------
(* The watch, and handlers that read in several steps *)

\* The loop takes its next message once the handler before has returned.
Resting == ui.phase = "up" /\ ui.reading = NoReading

\* changed: the header first, then the screen showing (ReadNext). A header that
\* cannot be read leaves the version noted and marks nothing.
Tick ==
    /\ Resting
    /\ IF store.commits = ui.version
       THEN ui' \in Fresh(ui)
       ELSE \/ ui' = [ui EXCEPT !.version = store.commits, !.stale = Shown,
                                !.reading = [NoReading EXCEPT !.kind = "tick"]]
            \/ ui' = [ui EXCEPT !.version = store.commits,
                                !.blind = @ \union (Shown \ ui.stale)]
    /\ UNCHANGED <<family, store, inbox, check, orch, asked>>

\* The version a finished reload leaves: as it would be if it was noted after the
\* last screen was read, and as it is, noted before the first one.
NotedBy_After(reading) == store.commits
NotedBy(reading) == reading.version

\* The next read of the handler. When a screen of a reload cannot be read, the
\* shell keeps its old version; the screens read so far stay.
ReadNext ==
    /\ ui.phase = "up"
    /\ \/ /\ ui.reading.kind = "tick"
          /\ \E u \in Fresh(ui) : ui' = [u EXCEPT !.reading = NoReading]
       \/ /\ ui.reading.kind = "reload" /\ ui.reading.next \in DOMAIN family.tabs
          /\ \/ ui' = [Load(ui, family.tabs[ui.reading.next])
                          EXCEPT !.reading.next = @ + 1]
             \/ ui' = [ui EXCEPT !.reading = NoReading]
       \/ /\ ui.reading.kind = "reload" /\ ui.reading.next = Len(family.tabs) + 1
          /\ ui' = [ui EXCEPT !.version = NotedBy(ui.reading), !.stale = {},
                              !.reading = NoReading]
    /\ UNCHANGED <<family, store, inbox, check, orch, asked>>
-----------------------------------------------------------------------------
(* Keys *)

\* A person types when no message of a widget's command is on its way, unless
\* they type ahead.
NothingQuick == \A m \in inbox : m.kind \notin QuickKinds
CanType == Resting /\ (family.ahead \/ NothingQuick)

\* The keys that are the shell's: no overlay, and the screen lets them go.
Global == CanType /\ ui.mode = "normal" /\ ~Capturing(ui, ui.active)

\* The keys that are the screen's.
OnScreen(t) == CanType /\ ui.mode = "normal" /\ ui.active = t

KeyShow ==
    /\ Global
    /\ \E t \in Shown \ {ui.active} : ui' \in Show(ui, t)
    /\ UNCHANGED <<family, store, inbox, check, orch, asked>>

KeyRefresh ==
    /\ Global
    /\ ui' = Reload(ui)
    /\ UNCHANGED <<family, store, inbox, check, orch, asked>>

KeyOverlay ==
    /\ Global
    /\ \E mode \in Modes \ {"normal"} : ui' = [ui EXCEPT !.mode = mode]
    /\ UNCHANGED <<family, store, inbox, check, orch, asked>>

\* In an overlay, esc closes it and enter sends what is selected.
OverlayEsc ==
    /\ CanType /\ ui.mode # "normal"
    /\ ui' = [ui EXCEPT !.mode = "normal"]
    /\ UNCHANGED <<family, store, inbox, check, orch, asked>>

\* (Bound: one such message is on its way at a time.)
OverlayEnter ==
    /\ CanType /\ NothingQuick
    /\ \/ /\ ui.mode = "palette"
          /\ \E to \in Shown \union {"refresh", "projects"} :
                inbox' = inbox \union {Message("palette", to, 0)}
       \/ /\ ui.mode = "projects"
          /\ inbox' = inbox \union {Message("project", "", 0)}
    /\ UNCHANGED <<family, store, ui, check, orch, asked>>

\* The lists and the tree: the cursor moves to a neighbour.
KeyMove ==
    /\ \E t \in {"tasks", "review", "specs", "memory"} \intersect Shown :
          /\ OnScreen(t) /\ ui.prompt[t] = NoPrompt
          /\ t = "tasks" => ~ui.searching /\ ui.detail = 0 /\ ~check.on
          /\ \E r \in DOMAIN RowsOf(t) :
                /\ r \in {ui.row[t] - 1, ui.row[t] + 1}
                /\ ui' = [ui EXCEPT !.row[t] = r]
    /\ UNCHANGED <<family, store, inbox, check, orch, asked>>

\* Typing in the search box is capturing; esc and enter end it.
KeySearch ==
    /\ OnScreen("tasks") /\ ui.detail = 0 /\ ~check.on
    /\ ui' = [ui EXCEPT !.searching = ~@]
    /\ UNCHANGED <<family, store, inbox, check, orch, asked>>

\* f: the tasks table picks from what it has read, the memory list reads again,
\* and so does the audit trail.
KeyFilter ==
    /\ \/ /\ OnScreen("tasks") /\ ~ui.searching /\ ui.detail = 0 /\ ~check.on
          /\ LET wide == (ui.wide \ {"tasks"}) \union ({"tasks"} \ ui.wide)
             IN ui' = [ui EXCEPT !.wide = wide,
                          !.row["tasks"] = KeptOnTasks(RowsOf("tasks"),
                              Rows("tasks", ui.read["tasks"], wide), @)]
       \/ /\ OnScreen("memory") /\ ui.prompt["memory"] = NoPrompt
          /\ LET wide == (ui.wide \ {"memory"}) \union ({"memory"} \ ui.wide)
             IN ui' = [Load(ui, "memory") EXCEPT !.wide = wide, !.row["memory"] = 1]
       \/ /\ OnScreen("audit") /\ ui.prompt["audit"] = NoPrompt
          /\ ui' = Load(ui, "audit")
    /\ UNCHANGED <<family, store, inbox, check, orch, asked>>

\* enter on a row: the table reports the row it is on, the others ask for the
\* task itself.
KeyEnter ==
    /\ NothingQuick
    /\ \/ /\ OnScreen("tasks") /\ ~ui.searching /\ ui.detail = 0 /\ ~check.on
          /\ ui.row["tasks"] \in DOMAIN RowsOf("tasks")
          /\ inbox' = inbox \union {Message("row", "", ui.row["tasks"])}
       \/ \E t \in {"review"} \intersect Shown :
             /\ OnScreen(t) /\ ui.prompt[t] = NoPrompt
             /\ LET i == ItemAt(RowsOf(t), ui.row[t]) IN
                /\ i # 0 /\ family.kinds[i] = "task"
                /\ inbox' = inbox \union {Message("open", "", i)}
    /\ UNCHANGED <<family, store, ui, check, orch, asked>>

KeyBack ==
    /\ OnScreen("tasks") /\ ui.detail # 0 /\ ui.prompt["tasks"] = NoPrompt /\ ~check.on
    /\ ui' = [ui EXCEPT !.detail = 0]
    /\ UNCHANGED <<family, store, inbox, check, orch, asked>>
-----------------------------------------------------------------------------
(* Asking, and acting *)

\* The item a key on screen t would be about.
Selected(t) == IF t = "tasks" THEN ui.detail ELSE ItemAt(RowsOf(t), ui.row[t])

Offers(t, i) ==
    CASE t = "tasks"  -> TaskActs
      [] t = "review" -> ReviewActs(family.kinds[i])
      [] t = "specs"  -> SpecTreeActs(family.kinds[i], ui.read[t][i])
      [] t = "memory" -> MemoryActs(ui.read[t][i])
      [] OTHER        -> {}

KeyAsk ==
    /\ \E t \in {"tasks", "review", "specs", "memory"} \intersect Shown :
          /\ OnScreen(t) /\ ui.prompt[t] = NoPrompt /\ ~(t = "tasks" /\ check.on)
          /\ Selected(t) # 0
          /\ \E act \in Offers(t, Selected(t)) \intersect family.acts :
                ui' = [ui EXCEPT !.prompt[t] = Asking(Selected(t), act)]
    /\ UNCHANGED <<family, store, inbox, check, orch, asked>>

\* The start form of the orchestrator.
KeyStart ==
    /\ OnScreen("orchestrator") /\ ui.prompt["orchestrator"] = NoPrompt
    /\ ~orch.stream.on
    /\ ui' = [ui EXCEPT !.prompt["orchestrator"] = Asking(0, "start")]
    /\ UNCHANGED <<family, store, inbox, check, orch, asked>>

\* Sealing the head of the audit trail, or checking its newest seal.
KeySeal ==
    /\ OnScreen("audit") /\ ui.prompt["audit"] = NoPrompt /\ "seal" \in family.acts
    /\ ui' = [ui EXCEPT !.prompt["audit"] = Asking(0, "seal")]
    /\ UNCHANGED <<family, store, inbox, check, orch, asked>>

\* esc, n, or an empty token: the prompt goes and nothing is done.
AnswerNo ==
    /\ CanType /\ ui.mode = "normal" /\ ui.prompt[ui.active] # NoPrompt
    /\ ui' = [ui EXCEPT !.prompt[ui.active] = NoPrompt]
    /\ UNCHANGED <<family, store, inbox, check, orch, asked>>

\* The item an action runs on: as it would be if it was looked up when the answer
\* comes, and as it is, the one the prompt was opened on.
Target_UnderTheCursor(t, p) == IF Selected(t) = 0 THEN p.item ELSE Selected(t)
Target(t, p) == p.item

KindOf(p) == IF p.item = 0 THEN "none" ELSE family.kinds[p.item]
Answered(p) == p.stage = "ask" => ~AsksMore(KindOf(p), p.act)

\* attempt: the answers may not be complete, and the store may want the token.
More(t, p) ==
    /\ ~Answered(p)
    /\ ui' = [ui EXCEPT !.prompt[t].stage = "more"]
    /\ UNCHANGED <<store, check, orch, asked>>

AskToken(t, p) ==
    /\ Answered(p) /\ family.token /\ p.stage # "token"
    /\ WantsToken(KindOf(p), p.act)
    /\ ui' = [ui EXCEPT !.prompt[t].stage = "token"]
    /\ UNCHANGED <<store, check, orch, asked>>

\* The action ran, or was refused (a wrong token, an item somebody has decided
\* meanwhile); the screen is read again either way (that this fails is left out).
Act(t, p) ==
    /\ p.act \in {"approve", "reject", "edit"}
    /\ Answered(p)
    /\ (family.token /\ WantsToken(KindOf(p), p.act)) => p.stage = "token"
    /\ LET i == Target(t, p)
           kind == family.kinds[i]
           closed == [ui EXCEPT !.prompt[t] = NoPrompt] IN
       \/ /\ Takes(kind, p.act, store.status[i])
          /\ asked' = [act |-> p.act, named |-> p.item, on |-> i]
          /\ LET status == [store.status EXCEPT ![i] = After(kind, p.act, @)] IN
             /\ store' = [store EXCEPT !.status = status]
             /\ ui' = [closed EXCEPT !.read[t] = status, !.at[t] = store.commits,
                          !.blind = @ \ {t},
                          !.row[t] = Kept(t, RowsOf(t), Rows(t, status, ui.wide), @)]
       \/ /\ ~Takes(kind, p.act, store.status[i]) \/ p.stage = "token"
          /\ ui' = Load(closed, t)
          /\ UNCHANGED <<store, asked>>
    /\ UNCHANGED <<check, orch>>

Seal(t, p) ==
    /\ p.act = "seal" /\ (family.token => p.stage = "token")
    /\ ui' = Load([ui EXCEPT !.prompt[t] = NoPrompt], t)
    /\ UNCHANGED <<store, check, orch, asked>>

\* The picker of a check has closed: the check runs on the task in detail.
StartCheck(t, p) ==
    /\ p.act = "check"
    /\ ui' = Load([ui EXCEPT !.prompt[t] = NoPrompt], t)
    /\ check' = Started
    /\ asked' = [act |-> p.act, named |-> p.item, on |-> ui.detail]
    /\ UNCHANGED <<store, orch>>

\* The process starts, or cannot be started.
StartOrch(t, p) ==
    /\ p.act = "start"
    /\ ui' = [ui EXCEPT !.prompt[t] = NoPrompt]
    /\ \/ orch' = [stream |-> Started, proc |-> "running"]
       \/ UNCHANGED orch
    /\ UNCHANGED <<store, check, asked>>

Answer ==
    /\ CanType /\ ui.mode = "normal"
    /\ LET t == ui.active
           p == ui.prompt[t] IN
       /\ p # NoPrompt
       /\ \/ More(t, p) \/ AskToken(t, p) \/ Act(t, p) \/ Seal(t, p)
          \/ StartCheck(t, p) \/ StartOrch(t, p)
    /\ UNCHANGED <<family, inbox>>

\* K: the process is interrupted; OrchEnds covers the kill after the grace.
KeyInterrupt ==
    /\ OnScreen("orchestrator") /\ orch.stream.on /\ orch.proc = "running"
    /\ orch' = [orch EXCEPT !.proc = "interrupted"]
    /\ UNCHANGED <<family, store, ui, inbox, check, asked>>
-----------------------------------------------------------------------------
(* Messages of commands *)

\* The palette runs its action whatever the shell is doing by now.
TakePalette(m) ==
    /\ m.kind = "palette"
    /\ \/ m.to = "refresh" /\ ui' = Reload(ui)
       \/ m.to = "projects" /\ ui' = [ui EXCEPT !.mode = "projects"]
       \/ m.to \in Shown /\ ui' \in Show(ui, m.to)
    /\ UNCHANGED <<store, check, orch, asked>>

\* The project switcher's answer counts only while the switcher is open.
TakeProject(m) ==
    /\ m.kind = "project"
    /\ ui' = IF ui.mode = "projects" THEN Reload(ui) ELSE ui
    /\ UNCHANGED <<store, check, orch, asked>>

\* A row the table reported is looked up when the message comes.
TakeRow(m) ==
    /\ m.kind = "row"
    /\ UNCHANGED <<store, ui, check, orch, asked>>

RowOpens(m) ==
    /\ m.kind = "row" /\ ui.active = "tasks" /\ ~check.on /\ ui.detail = 0
    /\ m.at \in DOMAIN RowsOf("tasks")

\* The Tasks tab shows the task, unless a check runs there or the task cannot be
\* read.
TakeOpen(m) ==
    /\ m.kind = "open"
    /\ \E u \in Show(ui, "tasks") :
          \/ ui' = u
          \/ ~check.on /\ ui' = OpenDetail(u, m.at)
    /\ UNCHANGED <<store, check, orch, asked>>

\* The lines a check's end says were not shown, as it would be if every end said
\* nothing of them, and as it is: only a recorded check's end counts them.
ToldAtEnd_Nothing(s) == 0
ToldAtEnd(s) == IF s.outcome = "recorded" THEN s.dropped ELSE 0

\* A run's message goes to the screen showing; the run's own takes it up and
\* asks for the next one, another drops it. The end of a run rereads its screen:
\* when it cannot, that is all the person is told.
TakeCheck(m) ==
    /\ \/ /\ m.kind \in {"line", "end"} /\ ui.active # "tasks"
          /\ check' = Unheard(check) /\ UNCHANGED ui
       \/ /\ m.kind = "line" /\ ui.active = "tasks"
          /\ check' = ShowLine(check) /\ UNCHANGED ui
       \/ /\ m.kind = "end" /\ ui.active = "tasks"
          /\ \/ /\ check' = LetGo(check, ToldAtEnd(check))
                /\ ui' = Load(ui, "tasks")
             \/ /\ check' = LetGo(check, 0)
                /\ ui' = Failed(ui, "tasks")
    /\ UNCHANGED <<store, orch, asked>>

TakeOrch(m) ==
    /\ \/ /\ m.kind \in {"oline", "oend"} /\ ui.active # "orchestrator"
          /\ orch' = [orch EXCEPT !.stream = Unheard(@)] /\ UNCHANGED ui
       \/ /\ m.kind = "oline" /\ ui.active = "orchestrator"
          /\ orch' = [orch EXCEPT !.stream = ShowLine(@)] /\ UNCHANGED ui
       \/ /\ m.kind = "oend" /\ ui.active = "orchestrator"
          /\ orch' = [orch EXCEPT !.stream = LetGo(@, 0)]
          /\ ui' \in {Load(ui, "orchestrator"), Failed(ui, "orchestrator")}
    /\ UNCHANGED <<store, check, asked>>

Deliver ==
    /\ Resting
    /\ \E m \in inbox :
          /\ \/ TakePalette(m) \/ TakeProject(m) \/ TakeRow(m) \/ TakeOpen(m)
             \/ TakeCheck(m) \/ TakeOrch(m)
          /\ inbox' = (inbox \ {m}) \union
                (IF RowOpens(m) THEN {Message("open", "", RowsOf("tasks")[m.at])} ELSE {})
    /\ UNCHANGED family
-----------------------------------------------------------------------------
(* Leaving *)

\* q, the palette's Quit, or ctrl+c in any mode.
Quit ==
    /\ Resting
    /\ ui' = [ui EXCEPT !.phase = "leaving"]
    /\ UNCHANGED <<family, store, inbox, check, orch, asked>>

\* cleanups as it would be if it interrupted and did not wait.
Leave_AtOnce ==
    /\ ui.phase = "leaving"
    /\ ui' = [ui EXCEPT !.phase = "left"]
    /\ orch' = IF orch.proc = "running" THEN [orch EXCEPT !.proc = "interrupted"] ELSE orch
    /\ UNCHANGED <<family, store, inbox, check, asked>>

\* cleanups: a run still going is interrupted and waited for.
Leave ==
    /\ ui.phase = "leaving"
    /\ IF orch.proc = "running"
       THEN orch' = [orch EXCEPT !.proc = "interrupted"] /\ UNCHANGED ui
       ELSE /\ orch.proc # "interrupted"
            /\ ui' = [ui EXCEPT !.phase = "left"] /\ UNCHANGED orch
    /\ UNCHANGED <<family, store, inbox, check, asked>>

ShellNext ==
    \/ Commit \/ CheckWrites \/ CheckEnds \/ OrchWrites \/ OrchEnds
    \/ CheckReports \/ OrchReports \/ Tick \/ ReadNext
    \/ KeyShow \/ KeyRefresh \/ KeyOverlay \/ OverlayEsc \/ OverlayEnter
    \/ KeyMove \/ KeySearch \/ KeyFilter \/ KeyEnter \/ KeyBack
    \/ KeyAsk \/ KeyStart \/ KeySeal \/ AnswerNo \/ Answer \/ KeyInterrupt
    \/ Deliver \/ Quit \/ Leave

ShellSpec == ShellInit /\ [][ShellNext]_shellVars
-----------------------------------------------------------------------------
(* What the terminal UI promises *)

\* What an action did, it did to the item its question named, whatever was
\* reread, filtered or opened while the question stood (prompt.run's closures,
\* actions.go, review.go, memory.go). A check runs on the task in detail, which
\* is the one named unless a person types ahead of a task still opening.
ActsAsNamed == asked.on # asked.named => asked.act = "check" /\ family.ahead

\* A screen that is not marked stale shows every commit of another process that
\* the shell has noted (changed, fresh, reload, shell.go), unless reading it, or
\* the header, failed.
FollowsTheStore ==
    \A t \in Shown \ (ui.stale \union ui.blind) : ui.at[t] >= ui.version

\* The rows do not move under a person who is answering about one of them: while
\* the screen showing holds the keyboard, only acting rereads it (fresh,
\* shell.go). Typed ahead, the palette's Refresh may.
RowsHoldStill ==
    (/\ ~family.ahead /\ ui'.active = ui.active
        /\ Capturing(ui, ui.active) /\ Capturing(ui, ui.active)'
        /\ check'.on = check.on)
       => ui'.read[ui.active] = ui.read[ui.active]

\* A run that holds a screen is heard to its end: its messages are not delivered
\* to another screen (capturing and toScreen, shell.go; next, checkrun.go and
\* orchestrator.go). Typed ahead, the palette may change the tab under a run.
RunsAreHeard ==
    ~family.ahead => check.chain # "lost" /\ orch.stream.chain # "lost"

\* When a check's end reaches the screen, no line the tool wrote is still on its
\* way, and of a recorded check the end says how many were not shown (lineWriter,
\* next, runUpdate, checkrun.go). What a cancelled or failed check dropped, and
\* what was dropped when the screen cannot be read again, it does not say.
OutputAccountedFor ==
    check.on /\ ~check'.on =>
        /\ Accounted(check)
        /\ check.outcome = "recorded" /\ "tasks" \notin ui'.blind
             => check.written = check.shown + check'.told

\* The orchestrator's process does not outlive a terminal UI the person quit
\* (cleanups and Run, orchestrator.go and tui.go). A signal that ends the UI is
\* not modelled.
NoRunOutlivesTheScreen ==
    ui.phase = "left" => orch.proc \notin {"running", "interrupted"}

\* An action is done to what its question named, and screens show what is there
\* (shell.go, actions.go).
ScreensAgree ==
    /\ ShellTypeOK
    /\ ActsAsNamed
    /\ FollowsTheStore

\* A run belongs to the screen that started it, until it or the UI ends
\* (checkrun.go, orchestrator.go).
RunsAreKept ==
    /\ RunsAreHeard
    /\ NoRunOutlivesTheScreen

\* What a person is looking at does not move under them, and a check that was
\* recorded loses no line unsaid (shell.go, checkrun.go).
NothingMovesUnseen ==
    [][/\ RowsHoldStill
       /\ OutputAccountedFor]_shellVars

=============================================================================
