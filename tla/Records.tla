------------------------------- MODULE Records -------------------------------
(***************************************************************************)
(* What a project has learned: decisions, memory entries, notes and        *)
(* dependencies (internal/store: decision.go, memory.go, note.go,          *)
(* promote.go, dependency.go), and the context file rendered from them     *)
(* (context.go), used by several processes at once.                        *)
(*                                                                         *)
(* A transaction is one step; what a command reads before its transaction, *)
(* and what it does after it, are steps of their own, any of which may     *)
(* fail (a busy store, a full disk) or be the last before a crash.  A text *)
(* is what a person vouches for when a row becomes trusted; what it says   *)
(* is left out.  A row's id is its index.                                  *)
(***************************************************************************)
EXTENDS Integers, Sequences, FiniteSets

CONSTANTS
  Procs,
  Agents,        \* those whose actor type is agent; the others are people
  Deciders,      \* those requirePerson lets through
  Tasks,         \* ids of the tasks checks and rejections are recorded on
  Families       \* bound: sets of commands, of which a behaviour gives `max`

Calls == {"decision", "accept", "reject", "supersede", "deprecate", "memory", "review",
          "forget", "touch", "fail", "note", "promote", "dependency", "verify", "export"}

ASSUME RecordsAssumption ==
  /\ IsFiniteSet(Procs)
  /\ Agents \subseteq Procs /\ Deciders \subseteq Procs
  /\ Tasks \subseteq Nat \ {0}
  /\ Families \subseteq [commands : SUBSET Calls, max : Nat]

VARIABLES
  decisions, memory, notes, dependencies,   \* the tables
  events,                   \* the audit trail, as far as it tells of these rows
  context,                  \* the context file last written
  unreported,               \* history: rows whose command reported an error
  used, calls,              \* the family of commands in use, commands given
  pc, mem                   \* each process: where it is, what it has read

tables == <<decisions, memory, notes, dependencies>>
vars == <<tables, events, context, unreported, used, calls, pc, mem>>

-----------------------------------------------------------------------------
Kinds == {"constraint", "pitfall", "failure_pattern"}
MemoryStatuses == {"pending", "approved", "rejected"}
DecisionStatuses == {"proposed", "accepted", "rejected", "superseded", "deprecated"}

\* decisionTransitions.
DecisionMayBecome(from) ==
  CASE from = "proposed" -> {"proposed", "accepted", "rejected", "superseded"}
    [] from = "accepted" -> {"accepted", "rejected", "superseded", "deprecated"}
    [] OTHER -> {}

\* Where a memory entry was drafted from: `of` is a task or a note.
NoSource == [kind |-> "none", of |-> 0]
Drafted == {"check", "rejection"}

\* A note: what it was promoted to, if it was, and the row that came of it.
Unpromoted == [to |-> "none", id |-> 0]

\* What the trail tells of a row: what it became, by whom, in a command begun
\* when the trail had `since` events.
Told(table, id, to, by, since) ==
  [table |-> table, id |-> id, to |-> to, by |-> by, since |-> since]

NoContext == [since |-> 0, until |-> 0, memory |-> {}, decisions |-> {}]
Idle == [since |-> 0, id |-> 0, to |-> "none", by |-> 0, note |-> 0, source |-> NoSource, shown |-> {}]

TypeOK ==
  /\ decisions \in Seq([status : DecisionStatuses, by : Nat, from : Nat])
  /\ memory \in Seq([kind : Kinds, status : MemoryStatuses, stale : BOOLEAN,
                     source : [kind : {"none", "note"} \union Drafted, of : Nat]])
  /\ notes \in Seq([to : {"none", "decision", "memory"}, id : Nat])
  /\ dependencies \in Seq(BOOLEAN)
  /\ \A i \in DOMAIN decisions : decisions[i].by \in {0} \union (DOMAIN decisions \ {i})
  /\ pc \in [Procs -> {"idle", "retire", "count", "draft", "create", "index", "release",
                       "mark", "render"}]
  /\ \A p \in Procs : mem[p].since \in 0 .. Len(events)

Init ==
  /\ decisions = <<>> /\ memory = <<>> /\ notes = <<>> /\ dependencies = <<>>
  /\ events = <<>>
  /\ context = NoContext
  /\ unreported = {}
  /\ used \in Families
  /\ calls = 0
  /\ pc = [p \in Procs |-> "idle"]
  /\ mem = [p \in Procs |-> Idle]

\* A command p gives, which goes on at `to` remembering m.
Start(p, call, to, m) ==
  /\ pc[p] = "idle"
  /\ call \in used.commands
  /\ calls < used.max /\ calls' = calls + 1
  /\ pc' = [pc EXCEPT ![p] = to]
  /\ mem' = [mem EXCEPT ![p] = [m EXCEPT !.since = Len(events)]]
  /\ UNCHANGED used

Goto(p, to, m) ==
  /\ pc' = [pc EXCEPT ![p] = to]
  /\ mem' = [mem EXCEPT ![p] = IF to = "idle" THEN Idle ELSE m]
  /\ UNCHANGED <<used, calls>>

Tell(table, id, to, p, since) == events' = Append(events, Told(table, id, to, p, since))

-----------------------------------------------------------------------------
(* Adding rows: AddDecision, AddMemory, AddNote.  The row and its event are *)
(* one transaction; the search index is written after it.                  *)

InsertDecision(p, from, since) ==
  /\ decisions' = Append(decisions, [status |-> "proposed", by |-> 0, from |-> from])
  /\ Tell("decision", Len(decisions) + 1, "proposed", p, since)
  /\ UNCHANGED <<memory, notes, dependencies>>

AddDecision(p) ==
  /\ Start(p, "decision", "index", [Idle EXCEPT !.to = "decision", !.id = Len(decisions) + 1])
  /\ InsertDecision(p, 0, Len(events))
  /\ UNCHANGED <<context, unreported>>

\* Mutant: whatever a person records is approved, drafts included.
StatusOnArrival_ByActor(p, forcePending) == IF p \in Agents THEN "pending" ELSE "approved"

StatusOnArrival(p, forcePending) ==
  IF p \in Agents \/ forcePending THEN "pending" ELSE "approved"

InsertMemory(p, kind, source, since) ==
  LET status == StatusOnArrival(p, source.kind \in Drafted) IN
  /\ memory' = Append(memory, [kind |-> kind, status |-> status, stale |-> FALSE,
                               source |-> source])
  /\ Tell("memory", Len(memory) + 1, status, p, since)
  /\ UNCHANGED <<decisions, notes, dependencies>>

AddMemory(p) ==
  /\ Start(p, "memory", "index", [Idle EXCEPT !.to = "memory", !.id = Len(memory) + 1])
  /\ \E kind \in Kinds : InsertMemory(p, kind, NoSource, Len(events))
  /\ UNCHANGED <<context, unreported>>

AddNote(p) ==
  /\ Start(p, "note", "index", [Idle EXCEPT !.to = "note", !.id = Len(notes) + 1])
  /\ notes' = Append(notes, Unpromoted)
  /\ Tell("note", Len(notes) + 1, "recorded", p, Len(events))
  /\ UNCHANGED <<decisions, memory, dependencies, context, unreported>>

\* indexForSearch: when it fails the command reports an error, though the row
\* is there; a promotion then gives its claim back.
Index(p) ==
  LET m == mem[p] IN
  /\ pc[p] = "index"
  /\ \/ /\ Goto(p, IF m.note = 0 THEN "idle" ELSE "mark", m)
        /\ UNCHANGED unreported
     \/ /\ Goto(p, IF m.note = 0 THEN "idle" ELSE "release", m)
        /\ unreported' = unreported \union {<<m.to, m.id>>}
  /\ UNCHANGED <<tables, events, context>>

-----------------------------------------------------------------------------
(* Deciding: decision.go.                                                  *)

AcceptDecision(p) ==
  /\ p \in Deciders
  /\ Start(p, "accept", "idle", Idle)
  /\ \E i \in DOMAIN decisions :
       /\ "accepted" \in DecisionMayBecome(decisions[i].status)
       /\ decisions' = [decisions EXCEPT ![i].status = "accepted"]
       /\ Tell("decision", i, "accepted", p, Len(events))
  /\ UNCHANGED <<memory, notes, dependencies, context, unreported>>

\* Mutant: rejecting is open to everyone.
RetireDecision_NotReject(p, status, to) ==
  (status = "accepted" /\ to # "rejected") => p \in Deciders

\* retireDecision: a person is needed when the decision is accepted as it is
\* read here, before the transaction.
RetireDecision(p, status, to) == status = "accepted" => p \in Deciders

\* RejectDecision, SupersedeDecision, DeprecateDecision, up to the transaction.
StartRetire(p) ==
  \E i \in DOMAIN decisions :
    /\ \/ /\ RetireDecision(p, decisions[i].status, "rejected")
          /\ Start(p, "reject", "retire", [Idle EXCEPT !.id = i, !.to = "rejected"])
       \/ /\ RetireDecision(p, decisions[i].status, "deprecated")
          /\ Start(p, "deprecate", "retire", [Idle EXCEPT !.id = i, !.to = "deprecated"])
       \/ \E new \in DOMAIN decisions \ {i} :
            /\ RetireDecision(p, decisions[i].status, "superseded")
            /\ Start(p, "supersede", "retire",
                     [Idle EXCEPT !.id = i, !.to = "superseded", !.by = new])
    /\ UNCHANGED <<tables, events, context, unreported>>

\* setDecisionStatus: the transition is checked in the transaction.
Retire(p) ==
  LET m == mem[p] IN
  /\ pc[p] = "retire"
  /\ Goto(p, "idle", Idle)
  /\ IF m.to \in DecisionMayBecome(decisions[m.id].status)
     THEN /\ decisions' = [decisions EXCEPT ![m.id].status = m.to,
                                         ![m.id].by = IF m.by # 0 THEN m.by ELSE @]
          /\ Tell("decision", m.id, m.to, p, m.since)
     ELSE UNCHANGED <<decisions, events>>
  /\ UNCHANGED <<memory, notes, dependencies, context, unreported>>

-----------------------------------------------------------------------------
(* Reviewing memory, verifying dependencies.                               *)

\* ReviewMemory: approving takes a person or the token, rejecting a person.  It
\* is not checked that the entry is pending.
ReviewMemory(p) ==
  /\ Start(p, "review", "idle", Idle)
  /\ \E i \in DOMAIN memory, to \in {"approved", "rejected"} :
       /\ IF to = "approved" THEN p \in Deciders ELSE p \notin Agents
       /\ memory' = [memory EXCEPT ![i].status = to]
       /\ Tell("memory", i, to, p, Len(events))
  /\ UNCHANGED <<decisions, notes, dependencies, context, unreported>>

\* Mutant: restoring is told as forgetting.
SetMemoryStale_Forgets(p) ==
  /\ p \in Deciders
  /\ Start(p, "forget", "idle", Idle)
  /\ \E i \in DOMAIN memory, stale \in BOOLEAN :
       /\ memory' = [memory EXCEPT ![i].stale = stale]
       /\ Tell("memory", i, "forgotten", p, Len(events))
  /\ UNCHANGED <<decisions, notes, dependencies, context, unreported>>

SetMemoryStale(p) ==
  /\ p \in Deciders
  /\ Start(p, "forget", "idle", Idle)
  /\ \E i \in DOMAIN memory, stale \in BOOLEAN :
       /\ memory' = [memory EXCEPT ![i].stale = stale]
       /\ Tell("memory", i, IF stale THEN "forgotten" ELSE "restored", p, Len(events))
  /\ UNCHANGED <<decisions, notes, dependencies, context, unreported>>

\* TouchMemory: the decay clock alone.
TouchMemory(p) ==
  /\ p \in Deciders
  /\ Start(p, "touch", "idle", Idle)
  /\ \E i \in DOMAIN memory : Tell("memory", i, "reconfirmed", p, Len(events))
  /\ UNCHANGED <<tables, context, unreported>>

AddDependency(p) ==
  /\ Start(p, "dependency", "idle", Idle)
  /\ \E verified \in BOOLEAN :
       /\ verified => p \in Deciders
       /\ dependencies' = Append(dependencies, verified)
       /\ Tell("dependency", Len(dependencies) + 1,
               IF verified THEN "verified" ELSE "added", p, Len(events))
  /\ UNCHANGED <<decisions, memory, notes, context, unreported>>

VerifyDependency(p) ==
  /\ p \in Deciders
  /\ Start(p, "verify", "idle", Idle)
  /\ \E i \in DOMAIN dependencies :
       /\ dependencies' = [dependencies EXCEPT ![i] = TRUE]
       /\ Tell("dependency", i, "verified", p, Len(events))
  /\ UNCHANGED <<decisions, memory, notes, context, unreported>>

-----------------------------------------------------------------------------
(* draftFailurePattern: after a failed check or a rejection was recorded.  *)

\* AddCheckWithMeta, addApproval: the row itself is of no matter here.
RecordFailure(p) ==
  /\ \E t \in Tasks, kind \in Drafted :
       Start(p, "fail", "count", [Idle EXCEPT !.source = [kind |-> kind, of |-> t]])
  /\ UNCHANGED <<tables, events, context, unreported>>

\* Mutant: only what a person approved counts as drafted already.
LiveDrafts_Approved(source) ==
  {i \in DOMAIN memory : memory[i].source = source /\ memory[i].status = "approved"}

LiveDrafts(source) ==
  {i \in DOMAIN memory : memory[i].source = source /\ memory[i].status # "rejected"}

CountDrafts(p) ==
  /\ pc[p] = "count"
  /\ Goto(p, IF LiveDrafts(mem[p].source) = {} THEN "draft" ELSE "idle", mem[p])
  /\ UNCHANGED <<tables, events, context, unreported>>

DraftFailurePattern(p) ==
  /\ pc[p] = "draft"
  /\ Goto(p, "index", [mem[p] EXCEPT !.to = "memory", !.id = Len(memory) + 1])
  /\ InsertMemory(p, "failure_pattern", mem[p].source, mem[p].since)
  /\ UNCHANGED <<context, unreported>>

-----------------------------------------------------------------------------
(* PromoteNote: claim the note, create the row, mark the note.             *)

\* Mutant: the claim is made whatever the note says.
MayClaim_Always(n) == TRUE

MayClaim(n) == notes[n].to = "none"

Claim(p) ==
  /\ \E n \in DOMAIN notes, kind \in {"decision", "memory"} :
       /\ MayClaim(n)
       /\ Start(p, "promote", "create", [Idle EXCEPT !.note = n, !.to = kind])
       /\ notes' = [notes EXCEPT ![n].to = kind]
  /\ UNCHANGED <<decisions, memory, dependencies, events, context, unreported>>

Create(p) ==
  LET m == mem[p] IN
  /\ pc[p] = "create"
  /\ \/ /\ m.to = "decision"
        /\ Goto(p, "index", [m EXCEPT !.id = Len(decisions) + 1])
        /\ InsertDecision(p, m.note, m.since)
     \/ /\ m.to = "memory"
        /\ Goto(p, "index", [m EXCEPT !.id = Len(memory) + 1])
        /\ \E kind \in Kinds :
             InsertMemory(p, kind, [kind |-> "note", of |-> m.note], m.since)
     \/ Goto(p, "release", m) /\ UNCHANGED <<tables, events>>
  /\ UNCHANGED <<context, unreported>>

\* The claim is given back, unless that fails too.
Release(p) ==
  /\ pc[p] = "release"
  /\ Goto(p, "idle", Idle)
  /\ notes' \in {notes, [notes EXCEPT ![mem[p].note] = Unpromoted]}
  /\ UNCHANGED <<decisions, memory, dependencies, events, context, unreported>>

MarkPromoted(p) ==
  LET m == mem[p] IN
  /\ pc[p] = "mark"
  /\ Goto(p, "idle", Idle)
  /\ \/ /\ notes' = [notes EXCEPT ![m.note] = [to |-> m.to, id |-> m.id]]
        /\ Tell("note", m.note, "promoted", p, m.since)
        /\ UNCHANGED unreported
     \/ /\ unreported' = unreported \union {<<m.to, m.id>>}
        /\ UNCHANGED <<notes, events>>
  /\ UNCHANGED <<decisions, memory, dependencies, context>>

-----------------------------------------------------------------------------
(* RenderContext: memory first, then decisions, each as it then stands.    *)

\* Mutant: what was forgotten is listed all the same.
ShownMemory_Stale == {i \in DOMAIN memory : memory[i].status = "approved"}

ShownMemory == {i \in DOMAIN memory : memory[i].status = "approved" /\ ~memory[i].stale}

ShownDecisions == {i \in DOMAIN decisions : decisions[i].status = "accepted"}

RenderConstraints(p) ==
  /\ Start(p, "export", "render", [Idle EXCEPT !.shown = ShownMemory])
  /\ UNCHANGED <<tables, events, context, unreported>>

RenderDecisions(p) ==
  /\ pc[p] = "render"
  /\ Goto(p, "idle", Idle)
  /\ context' = [since |-> mem[p].since, until |-> Len(events),
                 memory |-> mem[p].shown, decisions |-> ShownDecisions]
  /\ UNCHANGED <<tables, events, unreported>>

-----------------------------------------------------------------------------
\* Killed: what it had not committed is lost, what it had read is forgotten.
Crash(p) ==
  /\ pc[p] # "idle"
  /\ Goto(p, "idle", Idle)
  /\ UNCHANGED <<tables, events, context, unreported>>

Step(p) ==
  \/ AddDecision(p) \/ AcceptDecision(p) \/ StartRetire(p) \/ Retire(p)
  \/ AddMemory(p) \/ ReviewMemory(p) \/ SetMemoryStale(p) \/ TouchMemory(p)
  \/ AddDependency(p) \/ VerifyDependency(p)
  \/ RecordFailure(p) \/ CountDrafts(p) \/ DraftFailurePattern(p)
  \/ AddNote(p) \/ Claim(p) \/ Create(p) \/ Release(p) \/ MarkPromoted(p)
  \/ Index(p) \/ RenderConstraints(p) \/ RenderDecisions(p)
  \/ Crash(p)

Next == \E p \in Procs : Step(p)

Spec == Init /\ [][Next]_vars

-----------------------------------------------------------------------------
(* Properties.                                                             *)

\* What the trail had told of a row when it had n events: the last thing said
\* about it among `words`, "none" before the first.
ToldLast(table, id, words, n) ==
  LET said == {k \in 1 .. n : /\ events[k].table = table /\ events[k].id = id
                              /\ events[k].to \in words}
  IN  IF said = {} THEN 0 ELSE CHOOSE k \in said : \A j \in said : j <= k

TrustedAt(table, id, n) ==
  CASE table = "decision" ->
         LET k == ToldLast(table, id, DecisionStatuses, n) IN k # 0 /\ events[k].to = "accepted"
    [] table = "memory" ->
         LET k == ToldLast(table, id, MemoryStatuses, n)
             f == ToldLast(table, id, {"forgotten", "restored"}, n)
         IN  k # 0 /\ events[k].to = "approved" /\ (f = 0 \/ events[f].to = "restored")
    [] table = "dependency" -> ToldLast(table, id, {"verified"}, n) # 0

\* Which records may be relied on can be told from the audit trail alone: a
\* change of trust and its event commit together (event.go, changeWithEvent).
TrailTellsTrust ==
  LET now == Len(events) IN
  /\ \A i \in DOMAIN decisions : (i \in ShownDecisions) = TrustedAt("decision", i, now)
  /\ \A i \in DOMAIN memory :
       (memory[i].status = "approved" /\ ~memory[i].stale) = TrustedAt("memory", i, now)
  /\ \A i \in DOMAIN dependencies : dependencies[i] = TrustedAt("dependency", i, now)

\* Nothing becomes trusted but by a person, or a holder of the token: an entry a
\* person writes is approved as it is recorded, an agent's own, and every draft
\* of a failure, whoever's command failed, only in a review of its own.
TrustTakesAPerson ==
  \A k \in DOMAIN events :
    /\ events[k].to \in {"accepted", "verified"} => events[k].by \in Deciders
    /\ events[k].table = "memory" /\ events[k].to = "approved" =>
         \/ events[k].by \in Deciders /\ \E j \in 1 .. (k - 1) :
              events[j].table = "memory" /\ events[j].id = events[k].id
         \/ events[k].by \notin Agents /\ memory[events[k].id].source.kind \notin Drafted

\* An agent without the token only ever retires a decision that was not accepted
\* when its command began: it may be overtaken by the acceptance, never ignore
\* it (decision.go, ErrAgentCannotRetireDecision).
RulesRetiredByPeople ==
  \A k \in DOMAIN events :
    (/\ events[k].table = "decision"
     /\ events[k].to \in {"rejected", "superseded", "deprecated"}
     /\ events[k].by \notin Deciders)
      => ~TrustedAt("decision", events[k].id, events[k].since)

\* However many checks fail, and whichever commands interleave, no more drafts
\* of one task and source wait for review than there are processes: each may
\* have counted none before the others inserted theirs (memory.go,
\* draftFailurePattern: "capped at one live draft per task and source").
DraftsCapped ==
  \A t \in Tasks, kind \in Drafted :
    Cardinality({i \in DOMAIN memory : /\ memory[i].source = [kind |-> kind, of |-> t]
                                       /\ memory[i].status = "pending"})
      <= Cardinality(Procs)

\* A note becomes one record, whoever promotes it at once and wherever they
\* fail, but for those whose promotion reported an error; and a note that leads
\* to a record leads to the one made of it (promote.go, PromoteNote).
MadeOf(n) ==
  {<<"decision", i>> : i \in {j \in DOMAIN decisions : decisions[j].from = n}}
    \union {<<"memory", i>> : i \in {j \in DOMAIN memory :
                                       memory[j].source = [kind |-> "note", of |-> n]}}
PromotedOnce ==
  \A n \in DOMAIN notes :
    /\ Cardinality(MadeOf(n) \ unreported) <= 1
    /\ notes[n].id # 0 => <<notes[n].to, notes[n].id>> \in MadeOf(n)
    /\ Cardinality({p \in Procs : pc[p] \in {"create", "index", "release", "mark"}
                                  /\ mem[p].note = n}) <= 1

\* Every rule and lesson in a context file was trusted, as the trail tells it,
\* at some moment while the file was rendered: one retired before the export
\* began is never handed to the next session (context.go).
ContextShowsWhatStood ==
  /\ \A i \in context.memory :
       \E n \in context.since .. context.until : TrustedAt("memory", i, n)
  /\ \A i \in context.decisions :
       \E n \in context.since .. context.until : TrustedAt("decision", i, n)

\* Whether a record is trusted is told by the trail, and no other is shown
\* (event.go, context.go).
TrustIsTold ==
  /\ TypeOK
  /\ TrailTellsTrust
  /\ ContextShowsWhatStood

\* It takes a person to trust a record, and to retire a rule that is trusted
\* (memory.go, decision.go, dependency.go).
TrustIsAPersonsCall ==
  /\ TrustTakesAPerson
  /\ RulesRetiredByPeople

\* What is made of a failure or a note is made once, or as often as processes
\* could not see each other (memory.go, promote.go).
MadeOnce ==
  /\ DraftsCapped
  /\ PromotedOnce

=============================================================================
