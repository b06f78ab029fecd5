-------------------------- MODULE OrchestratorProofs --------------------------
(***************************************************************************)
(* Theorems of Orchestrator: sessions exclude each other and are told once *)
(* in the trail, a run keeps to its budget and stops at a denial, and a    *)
(* session that confines is closed only by those who may, for any number   *)
(* of launchers, people, agents, projects and tasks, whichever calls fail. *)
(***************************************************************************)
EXTENDS Orchestrator, FiniteSetTheorems, WellFoundedInduction, TLAPS

-----------------------------------------------------------------------------
(* The inductive invariant.                                                *)

\* What a process remembers, as far as its steps depend on it.
Remembers(m) ==
  /\ DOMAIN m = DOMAIN Idle
  /\ m.mode \in Modes \union {"none"} /\ m.target \in Nat /\ m.cost \in Nat
  /\ m.mode \in {"run", "step"} => m.target \in Tasks \union {0}
  /\ m.last \in Nat /\ m.denials \in Nat /\ m.upto \in Nat
  /\ m.exit \in Outcomes \union {"none"}

\* Where a step's task is known, and where its agent has returned.
Routed     == {"consider", "look", "vacant", "begin", "chain"} \union Running
Unreturned == {"launched", "baseline", "mark", "hash", "running"}
Returned   == {"rehash", "count", "credit", "log", "judge"}
Finished   == {"ended", "dead"}

\* What a launcher at w knows of the step it is in.
InHand(w, m) ==
  /\ w \in Routed /\ m.mode \notin OneShot => m.route.task \in Tasks
  /\ w \in Running \union {"note"} => m.session # 0
  /\ w \in Unreturned => m.exit = "none"
  /\ w \in Returned => m.exit # "none"
  /\ w \in Choosing \union {"chain"} => m.exit \in {"none", "ok"}

\* What a run has counted is what its agents cost, but for what they did not
\* report and what it stops at.
Counted(w, m, paid, hidden) ==
  /\ w = "new" => paid = 0 /\ hidden = 0
  /\ m.mode = "run" /\ MaxCost > 0 =>
       /\ paid <= MaxCost + hidden /\ m.cost <= MaxCost
       /\ w \notin Finished /\ m.exit \in {"none", "ok"} => paid = m.cost + hidden

\* Where a step has been found to be free of denials.
Cleared(w, m) ==
  \/ w \in Choosing \union {"chain"}
  \/ w \in {"end", "close", "credit", "log", "judge"} /\ m.exit # "none" /\ m.denials = 0

Undenied(w, m, d) == Cleared(w, m) => DeniedInStep(d, m) = {} \/ "count" \in m.missed

Fits(w, m, d, paid, hidden) ==
  InHand(w, m) /\ Counted(w, m, paid, hidden) /\ Undenied(w, m, d) /\ m.upto <= Len(d.events)

LaunchInv(o) == Fits(pc[o], mem[o], db, spent[o], unread[o])

Told(d, type, id) == {i \in DOMAIN d.events : d.events[i] = [type |-> type, session |-> id]}

\* One start of every session, one end of those that are over, and nothing of a
\* session there is not.
Trail(d) ==
  /\ \A id \in DOMAIN d.sessions :
       /\ \E i \in DOMAIN d.events : Told(d, "session_started", id) = {i}
       /\ d.sessions[id].open => Told(d, "session_ended", id) = {}
       /\ ~d.sessions[id].open =>
            \E i \in DOMAIN d.events : Told(d, "session_ended", id) = {i}
  /\ \A i \in DOMAIN d.events : d.events[i].session <= Len(d.sessions)

Scoped(d) ==
  \A i, j \in OpenSessions(d.sessions) :
    i # j => /\ d.sessions[i].project # NoProject
             /\ d.sessions[i].project # d.sessions[j].project

\* A process that closes a session was allowed to when it read it.
Allowed(p) ==
  pc[p] = "ending" => mem[p].session # 0 /\ MayEnd(p, db.sessions[mem[p].session])

IInv ==
  /\ TypeOK /\ DOMAIN mem = Procs /\ \A p \in Procs : Remembers(mem[p])
  /\ Scoped(db) /\ Trail(db)
  /\ \A o \in Launchers : LaunchInv(o)
  /\ \A p \in Others : Allowed(p)

-----------------------------------------------------------------------------
(* Sequences, and the sessions table.                                      *)

LEMMA Appended ==
  ASSUME NEW R, NEW s \in Seq(R), NEW x \in R
  PROVE  /\ Append(s, x) \in Seq(R)
         /\ Len(Append(s, x)) = Len(s) + 1
         /\ DOMAIN Append(s, x) = DOMAIN s \union {Len(s) + 1}
         /\ Len(s) + 1 \notin DOMAIN s
         /\ \A i \in DOMAIN s : Append(s, x)[i] = s[i]
         /\ Append(s, x)[Len(s) + 1] = x
<1>1. /\ Append(s, x) \in Seq(R) /\ Len(Append(s, x)) = Len(s) + 1
      /\ Len(s) \in Nat /\ DOMAIN s = 1 .. Len(s) /\ DOMAIN Append(s, x) = 1 .. Len(s) + 1
  OBVIOUS
<1>2. (\A i \in 1 .. Len(s) : Append(s, x)[i] = s[i]) /\ Append(s, x)[Len(s) + 1] = x
  OBVIOUS
<1>3. QED
  BY <1>1, <1>2

\* A non-empty set of positions has a last one: measured from the end, the least.
LEMMA LargestIsThere ==
  ASSUME NEW n \in Nat, NEW S \in SUBSET (1 .. n), S # {}
  PROVE  Largest(S) \in S
<1> DEFINE T == {n - i : i \in S}
           R == {ss \in Nat \X Nat : ss[1] < ss[2]}
<1>1. T \subseteq Nat /\ T # {}
  <2>1. \A i \in S : n - i \in Nat
    OBVIOUS
  <2>2. PICK i \in S : TRUE
    OBVIOUS
  <2>3. n - i \in T
    BY <2>2
  <2>4. QED
    BY <2>1, <2>3
<1>2. IsWellFoundedOn(R, Nat)
  BY NatLessThanWellFounded DEF OpToRel
<1>3. PICK x \in T : \A y \in T : ~(<<y, x>> \in R)
  <2> HIDE DEF T, R
  <2>1. QED
    BY <1>1, <1>2, WFMin
<1>4. PICK i \in S : x = n - i
  BY <1>3
<1>5. \A j \in S : ~(n - j < n - i)
  BY <1>1, <1>3, <1>4
<1>6. \A j \in S : j <= i
  BY <1>5
<1>7. QED
  BY <1>6 DEF Largest

LEMMA CurrentSessionIsThere ==
  ASSUME NEW R, NEW sessions \in Seq(R), NEW here
  PROVE  CurrentSession(sessions, here) \in 0 .. Len(sessions)
<1> DEFINE newest(ids) == IF ids = {} THEN 0 ELSE Largest(ids)
<1>1. Len(sessions) \in Nat /\ OpenSessions(sessions) \in SUBSET (1 .. Len(sessions))
  BY DEF OpenSessions
<1>2. ASSUME NEW S \in SUBSET OpenSessions(sessions) PROVE newest(S) \in 0 .. Len(sessions)
  <2>1. CASE S = {}
    BY <1>1, <2>1
  <2>2. CASE S # {}
    <3>1. S \in SUBSET (1 .. Len(sessions))
      BY <1>1
    <3>2. Largest(S) \in S
      BY <1>1, <2>2, <3>1, LargestIsThere
    <3>3. Largest(S) \in 1 .. Len(sessions)
      BY <3>1, <3>2
    <3>4. Largest(S) \in 0 .. Len(sessions)
      BY <1>1, <3>3
    <3>5. QED
      BY <2>2, <3>4
  <2>3. QED
    BY <2>1, <2>2
<1>3. /\ {i \in OpenSessions(sessions) : sessions[i].project = here} \in SUBSET OpenSessions(sessions)
      /\ {i \in OpenSessions(sessions) : sessions[i].project = NoProject} \in SUBSET OpenSessions(sessions)
  OBVIOUS
<1>4. QED
  BY <1>2, <1>3 DEF CurrentSession

-----------------------------------------------------------------------------
(* What the operations on the database keep.                               *)

Sound(d) == /\ d \in Databases
            /\ \A t \in Tasks : d.tasks[t].open <= d.tasks[t].criteria
            /\ Scoped(d) /\ Trail(d)

\* Sessions keep what they are about; only Closed ones may have been closed.
KeepsSessions(d, e, Closed) ==
  /\ Len(d.sessions) <= Len(e.sessions)
  /\ \A id \in DOMAIN d.sessions :
       /\ e.sessions[id].project = d.sessions[id].project
       /\ e.sessions[id].role = d.sessions[id].role
       /\ e.sessions[id].restrictive = d.sessions[id].restrictive
       /\ d.sessions[id].open /\ id \notin Closed => e.sessions[id].open

\* Events are only added.
KeepsEvents(d, e) ==
  /\ Len(d.events) <= Len(e.events)
  /\ \A i \in DOMAIN d.events : e.events[i] = d.events[i]

Events == Seq([type : EventTypes, session : Nat])

LEMMA RowOf ==
  ASSUME NEW R, NEW s \in Seq(R), NEW i \in DOMAIN s
  PROVE  s[i] \in R
OBVIOUS

LEMMA EventRow ==
  ASSUME NEW events \in Events, NEW i \in DOMAIN events
  PROVE  events[i].type \in EventTypes /\ events[i].session \in Nat
<1>1. events[i] \in [type : EventTypes, session : Nat]
  BY RowOf DEF Events
<1>2. QED
  BY <1>1

LEMMA WithEvents ==
  ASSUME NEW d \in Databases, NEW events \in Events
  PROVE  /\ [d EXCEPT !.events = events] \in Databases
         /\ [d EXCEPT !.events = events].events = events
         /\ [d EXCEPT !.events = events].sessions = d.sessions
         /\ [d EXCEPT !.events = events].tasks = d.tasks
<1>1. /\ [d EXCEPT !.events = events].events = events
      /\ [d EXCEPT !.events = events].sessions = d.sessions
      /\ [d EXCEPT !.events = events].tasks = d.tasks
  BY DEF Databases
<1>2. [d EXCEPT !.events = events] \in Databases
  BY DEF Databases, Events
<1>3. QED
  BY <1>1, <1>2

LEMMA LogEventKeeps ==
  ASSUME NEW d, Sound(d), NEW type \in {"status_change", "orchestrator", "guard_denied"},
         NEW s \in 0 .. Len(d.sessions)
  PROVE  /\ Sound(LogEvent(d, type, s))
         /\ LogEvent(d, type, s).sessions = d.sessions
         /\ LogEvent(d, type, s).events = Append(d.events, [type |-> type, session |-> s])
         /\ KeepsEvents(d, LogEvent(d, type, s)) /\ KeepsSessions(d, LogEvent(d, type, s), {})
<1> DEFINE x == [type |-> type, session |-> s]
           e == LogEvent(d, type, s)
<1>1. d \in Databases /\ x \in [type : EventTypes, session : Nat] /\ Len(d.sessions) \in Nat
  BY DEF Sound, Databases, EventTypes
<1>2. d.events \in Events /\ Append(d.events, x) \in Events
  BY <1>1, Appended DEF Databases, Events
<1>3. /\ e \in Databases /\ e.events = Append(d.events, x)
      /\ e.sessions = d.sessions /\ e.tasks = d.tasks
  BY <1>1, <1>2, WithEvents DEF LogEvent
<1> HIDE DEF e
<1>4. /\ DOMAIN e.events = DOMAIN d.events \union {Len(d.events) + 1}
      /\ Len(e.events) = Len(d.events) + 1 /\ Len(d.events) \in Nat
      /\ \A i \in DOMAIN d.events : e.events[i] = d.events[i]
      /\ e.events[Len(d.events) + 1] = x
  BY <1>1, <1>2, <1>3, Appended DEF Events
<1>5. \A id : /\ Told(e, "session_started", id) = Told(d, "session_started", id)
              /\ Told(e, "session_ended", id) = Told(d, "session_ended", id)
  BY <1>4 DEF Told
<1>6. Trail(e)
  <2>1. \A i \in DOMAIN e.events : e.events[i].session <= Len(e.sessions)
    BY <1>3, <1>4 DEF Trail, Sound
  <2>2. DOMAIN d.events \subseteq DOMAIN e.events
    BY <1>4
  <2>3. QED
    BY <1>3, <1>5, <2>1, <2>2 DEF Trail, Sound
<1>7. Scoped(e)
  BY <1>3 DEF Scoped, Sound
<1>8. Sound(e)
  BY <1>3, <1>6, <1>7 DEF Sound
<1>9. KeepsEvents(d, e) /\ KeepsSessions(d, e, {})
  BY <1>1, <1>3, <1>4 DEF KeepsEvents, KeepsSessions
<1>10. QED
  BY <1>3, <1>8, <1>9 DEF e

LEMMA WithTask ==
  ASSUME NEW d \in Databases, NEW t \in Tasks, NEW row \in TaskRow
  PROVE  /\ [d EXCEPT !.tasks[t] = row] \in Databases
         /\ [d EXCEPT !.tasks[t] = row].events = d.events
         /\ [d EXCEPT !.tasks[t] = row].sessions = d.sessions
         /\ [d EXCEPT !.tasks[t] = row].tasks = [d.tasks EXCEPT ![t] = row]
<1> DEFINE e == [d EXCEPT !.tasks[t] = row]
<1>1. /\ e.events = d.events /\ e.sessions = d.sessions
      /\ e.tasks = [d.tasks EXCEPT ![t] = row]
  BY DEF Databases
<1>2. e.tasks \in [Tasks -> TaskRow]
  BY <1>1 DEF Databases
<1>3. e \in Databases
  BY <1>2 DEF Databases
<1>4. QED
  BY <1>1, <1>3

LEMMA InsertSessionKeeps ==
  ASSUME NEW d, Sound(d), NEW project \in Projects \union {NoProject},
         NEW task \in Tasks \union {NoTask}, NEW role \in SessionRoles,
         NEW restrictive \in BOOLEAN, Conflicts(d.sessions, project) = {}
  PROVE  LET e == InsertSession(d, project, task, role, restrictive) IN
         /\ Sound(e)
         /\ Len(e.sessions) = Len(d.sessions) + 1
         /\ KeepsSessions(d, e, {}) /\ KeepsEvents(d, e)
<1> DEFINE row == [project |-> project, task |-> task, role |-> role,
                   restrictive |-> restrictive, open |-> TRUE]
           n == Len(d.sessions) + 1
           x == [type |-> "session_started", session |-> n]
           e == InsertSession(d, project, task, role, restrictive)
<1>1. /\ d \in Databases /\ d.events \in Events
      /\ d.sessions \in Seq(SessionRows(Tasks, Projects))
  BY DEF Sound, Databases, Events
<1>2. n \in Nat /\ x \in [type : EventTypes, session : Nat] /\ row \in SessionRows(Tasks, Projects)
  BY <1>1 DEF EventTypes, SessionRows
<1>3. Append(d.events, x) \in Events /\ Append(d.sessions, row) \in Seq(SessionRows(Tasks, Projects))
  BY <1>1, <1>2, Appended DEF Events
<1>4. /\ e \in Databases /\ e.events = Append(d.events, x)
      /\ e.sessions = Append(d.sessions, row) /\ e.tasks = d.tasks
  <2>1. e = [d EXCEPT !.sessions = Append(d.sessions, row), !.events = Append(d.events, x)]
    BY DEF InsertSession
  <2> HIDE DEF e, x, row
  <2>2. /\ e.events = Append(d.events, x)
        /\ e.sessions = Append(d.sessions, row) /\ e.tasks = d.tasks
    BY <1>1, <2>1 DEF Databases
  <2>3. e \in Databases
    BY <1>1, <1>3, <2>1 DEF Databases, Events
  <2>4. QED
    BY <2>2, <2>3
<1>5. /\ DOMAIN e.events = DOMAIN d.events \union {Len(d.events) + 1}
      /\ Len(e.events) = Len(d.events) + 1 /\ Len(d.events) \in Nat
      /\ Len(d.events) + 1 \notin DOMAIN d.events
      /\ \A i \in DOMAIN d.events : e.events[i] = d.events[i]
      /\ e.events[Len(d.events) + 1] = x
  BY <1>1, <1>2, <1>4, Appended DEF Events
<1>6. /\ DOMAIN e.sessions = DOMAIN d.sessions \union {n}
      /\ Len(e.sessions) = n /\ n \notin DOMAIN d.sessions
      /\ \A i \in DOMAIN d.sessions : e.sessions[i] = d.sessions[i]
      /\ e.sessions[n] = row
  BY <1>1, <1>2, <1>4, Appended
<1> HIDE DEF e
<1>7. KeepsSessions(d, e, {}) /\ KeepsEvents(d, e)
  BY <1>1, <1>5, <1>6 DEF KeepsSessions, KeepsEvents
<1>8. Scoped(e)
  <2>1. OpenSessions(e.sessions) = OpenSessions(d.sessions) \union {n}
    BY <1>6 DEF OpenSessions
  <2>2. \A i \in OpenSessions(d.sessions) :
          /\ i \in DOMAIN d.sessions /\ project # NoProject
          /\ d.sessions[i].project # project /\ d.sessions[i].project # NoProject
    BY DEF Conflicts, OpenSessions
  <2>3. QED
    BY <1>6, <2>1, <2>2 DEF Scoped, Sound
<1>9. Trail(e)
  <2>1. \A i \in DOMAIN e.events : e.events[i].session <= Len(e.sessions)
    <3>1. \A i \in DOMAIN d.events : d.events[i].session \in Nat
      BY <1>1, EventRow
    <3>2. \A i \in DOMAIN d.events : d.events[i].session <= Len(d.sessions)
      BY DEF Sound, Trail
    <3>3. QED
      BY <1>1, <1>5, <1>6, <3>1, <3>2
  <2>2. \A id \in DOMAIN d.sessions :
          /\ Told(e, "session_started", id) = Told(d, "session_started", id)
          /\ Told(e, "session_ended", id) = Told(d, "session_ended", id)
    BY <1>5, <1>6 DEF Told
  <2>3. Told(d, "session_started", n) = {} /\ Told(d, "session_ended", n) = {}
    BY <1>1 DEF Told, Sound, Trail
  <2>4. Told(e, "session_started", n) = {Len(d.events) + 1} /\ Told(e, "session_ended", n) = {}
    BY <1>5, <2>3 DEF Told
  <2>5. \A id \in DOMAIN d.sessions :
          /\ \E i \in DOMAIN e.events : Told(e, "session_started", id) = {i}
          /\ e.sessions[id].open => Told(e, "session_ended", id) = {}
          /\ ~e.sessions[id].open =>
               \E i \in DOMAIN e.events : Told(e, "session_ended", id) = {i}
    BY <1>5, <1>6, <2>2 DEF Sound, Trail
  <2>6. e.sessions[n].open /\ Len(d.events) + 1 \in DOMAIN e.events
    BY <1>5, <1>6
  <2>7. QED
    BY <1>6, <2>1, <2>4, <2>5, <2>6 DEF Trail
<1>10. Sound(e)
  BY <1>4, <1>8, <1>9 DEF Sound, e
<1>11. QED
  BY <1>6, <1>7, <1>10 DEF e

LEMMA SoundCarries ==
  ASSUME NEW d, Sound(d), NEW e \in Databases,
         \A t \in Tasks : e.tasks[t].open <= e.tasks[t].criteria,
         e.sessions = d.sessions, e.events = d.events
  PROVE  Sound(e) /\ KeepsSessions(d, e, {}) /\ KeepsEvents(d, e)
<1>1. Scoped(e) /\ Trail(e)
  BY DEF Sound, Scoped, Trail, Told
<1>2. Len(d.sessions) \in Nat /\ Len(d.events) \in Nat
  BY DEF Sound, Databases
<1>3. KeepsSessions(d, e, {}) /\ KeepsEvents(d, e)
  BY <1>2 DEF KeepsSessions, KeepsEvents
<1>4. QED
  BY <1>1, <1>3 DEF Sound

\* A task's row replaced by one of which no more criteria are open than it has.
LEMMA RowReplaced ==
  ASSUME NEW d, Sound(d), NEW t \in Tasks, NEW row \in TaskRow, row.open <= row.criteria
  PROVE  LET e == [d EXCEPT !.tasks[t] = row] IN
         Sound(e) /\ KeepsSessions(d, e, {}) /\ KeepsEvents(d, e) /\ e.sessions = d.sessions
<1> DEFINE e == [d EXCEPT !.tasks[t] = row]
<1>1. d \in Databases /\ d.tasks \in [Tasks -> TaskRow]
  BY DEF Sound, Databases
<1>2. /\ e \in Databases /\ e.sessions = d.sessions /\ e.events = d.events
      /\ e.tasks = [d.tasks EXCEPT ![t] = row]
  BY <1>1, WithTask
<1> HIDE DEF e
<1>3. \A u \in Tasks : e.tasks[u].open <= e.tasks[u].criteria
  BY <1>1, <1>2 DEF Sound
<1>4. QED
  BY <1>2, <1>3, SoundCarries DEF e

LEMMA StartTaskKeeps ==
  ASSUME NEW d, Sound(d), NEW t \in Tasks \union {NoTask}
  PROVE  LET e == StartTask(d, t) IN
         Sound(e) /\ e.sessions = d.sessions /\ KeepsEvents(d, e)
<1>1. CASE t = NoTask
  <2>1. Len(d.events) \in Nat
    BY DEF Sound, Databases
  <2>2. KeepsEvents(d, d)
    BY <2>1 DEF KeepsEvents
  <2>3. QED
    BY <1>1, <2>2 DEF StartTask
<1>2. CASE t # NoTask
  <2> DEFINE row == [d.tasks[t] EXCEPT !.status = "in_progress"]
             e == [d EXCEPT !.tasks[t] = row]
             x == [type |-> "status_change", session |-> 0]
  <2>1. t \in Tasks /\ d \in Databases /\ d.tasks[t] \in TaskRow
    BY <1>2 DEF Sound, Databases
  <2>2. row \in TaskRow /\ row.open = d.tasks[t].open /\ row.criteria = d.tasks[t].criteria
    BY <2>1 DEF TaskRow, TaskStatuses
  <2>3. /\ Sound(e) /\ e.sessions = d.sessions
        /\ e \in Databases /\ e.events = d.events /\ e.tasks = [d.tasks EXCEPT ![t] = row]
    <3>1. row.open <= row.criteria
      BY <2>1, <2>2 DEF Sound
    <3> HIDE DEF row
    <3>2. QED
      BY <2>1, <2>2, <3>1, RowReplaced, WithTask
  <2>4. StartTask(d, t) = LogEvent(e, "status_change", 0)
    BY <1>2, <2>1 DEF StartTask, LogEvent, Databases
  <2>5. 0 \in 0 .. Len(e.sessions)
    BY <2>3 DEF Databases
  <2> HIDE DEF e
  <2>6. /\ Sound(LogEvent(e, "status_change", 0))
        /\ LogEvent(e, "status_change", 0).sessions = e.sessions
        /\ LogEvent(e, "status_change", 0).events = Append(e.events, x)
    BY <2>3, <2>5, LogEventKeeps
  <2>7. d.events \in Events /\ x \in [type : EventTypes, session : Nat]
    BY <2>1 DEF Databases, Events, EventTypes
  <2>8. KeepsEvents(d, StartTask(d, t))
    BY <2>3, <2>4, <2>6, <2>7, Appended DEF KeepsEvents, Events
  <2>9. QED
    BY <2>3, <2>4, <2>6, <2>8
<1>3. QED
  BY <1>1, <1>2

LEMMA FinishSessionKeeps ==
  ASSUME NEW d, Sound(d), NEW id \in DOMAIN d.sessions
  PROVE  LET e == FinishSession(d, id) IN
         /\ Sound(e) /\ Len(e.sessions) = Len(d.sessions)
         /\ KeepsSessions(d, e, {id}) /\ KeepsEvents(d, e)
<1> DEFINE e == FinishSession(d, id)
           x == [type |-> "session_ended", session |-> id]
<1>1. /\ d \in Databases /\ d.events \in Events
      /\ d.sessions \in Seq(SessionRows(Tasks, Projects))
      /\ Len(d.sessions) \in Nat /\ Len(d.events) \in Nat
      /\ DOMAIN d.sessions = 1 .. Len(d.sessions)
  BY DEF Sound, Databases, Events
<1>2. CASE ~d.sessions[id].open
  <2>1. KeepsSessions(d, d, {id}) /\ KeepsEvents(d, d)
    BY <1>1 DEF KeepsSessions, KeepsEvents
  <2>2. QED
    BY <1>2, <2>1 DEF FinishSession
<1>3. CASE d.sessions[id].open
  <2> DEFINE sessions == [d.sessions EXCEPT ![id].open = FALSE]
  <2>1. d.sessions[id] \in SessionRows(Tasks, Projects) /\ id \in Nat
    BY <1>1, RowOf
  <2>2. /\ sessions \in Seq(SessionRows(Tasks, Projects)) /\ Len(sessions) = Len(d.sessions)
        /\ DOMAIN sessions = DOMAIN d.sessions
        /\ \A i \in DOMAIN d.sessions :
             /\ i # id => sessions[i] = d.sessions[i]
             /\ sessions[i].project = d.sessions[i].project
             /\ sessions[i].role = d.sessions[i].role
             /\ sessions[i].restrictive = d.sessions[i].restrictive
        /\ ~sessions[id].open
    <3>1. [d.sessions[id] EXCEPT !.open = FALSE] \in SessionRows(Tasks, Projects)
      BY <2>1 DEF SessionRows
    <3>2. sessions \in Seq(SessionRows(Tasks, Projects))
      BY <1>1, <3>1
    <3>3. Len(sessions) = Len(d.sessions) /\ DOMAIN sessions = DOMAIN d.sessions
      BY <1>1
    <3>4. /\ ~sessions[id].open /\ sessions[id].project = d.sessions[id].project
          /\ sessions[id].role = d.sessions[id].role
          /\ sessions[id].restrictive = d.sessions[id].restrictive
      BY <2>1 DEF SessionRows
    <3>5. \A i \in DOMAIN d.sessions : i # id => sessions[i] = d.sessions[i]
      BY <1>1
    <3>6. QED
      BY <3>2, <3>3, <3>4, <3>5
  <2>3. x \in [type : EventTypes, session : Nat] /\ Append(d.events, x) \in Events
    BY <1>1, <2>1, Appended DEF EventTypes, Events
  <2>4. e = [d EXCEPT !.sessions = sessions, !.events = Append(d.events, x)]
    BY <1>1, <1>3 DEF FinishSession, Databases
  <2> HIDE DEF e, sessions
  <2>5. e.events = Append(d.events, x) /\ e.sessions = sessions /\ e.tasks = d.tasks
    BY <1>1, <2>4 DEF Databases
  <2>6. e \in Databases
    BY <1>1, <2>2, <2>3, <2>4 DEF Databases, Events
  <2>7. /\ DOMAIN e.events = DOMAIN d.events \union {Len(d.events) + 1}
        /\ Len(e.events) = Len(d.events) + 1
        /\ Len(d.events) + 1 \notin DOMAIN d.events
        /\ \A i \in DOMAIN d.events : e.events[i] = d.events[i]
        /\ e.events[Len(d.events) + 1] = x
    BY <1>1, <2>3, <2>5, Appended DEF Events
  <2>8. KeepsSessions(d, e, {id}) /\ KeepsEvents(d, e)
    BY <1>1, <2>2, <2>5, <2>7 DEF KeepsSessions, KeepsEvents
  <2>9. Scoped(e)
    <3>1. OpenSessions(e.sessions) \subseteq OpenSessions(d.sessions)
      BY <2>2, <2>5 DEF OpenSessions
    <3>2. \A i \in OpenSessions(d.sessions) : i \in DOMAIN d.sessions
      BY DEF OpenSessions
    <3>3. QED
      BY <2>2, <2>5, <3>1, <3>2 DEF Scoped, Sound
  <2>10. Trail(e)
    <3>1. \A i \in DOMAIN e.events : e.events[i].session <= Len(e.sessions)
      BY <1>1, <2>2, <2>5, <2>7 DEF Trail, Sound
    <3>2. \A i : Told(e, "session_started", i) = Told(d, "session_started", i)
      BY <2>7 DEF Told
    <3>3. \A i : i # id => Told(e, "session_ended", i) = Told(d, "session_ended", i)
      BY <2>7 DEF Told
    <3>4. Told(e, "session_ended", id) = {Len(d.events) + 1}
      <4>1. Told(d, "session_ended", id) = {}
        BY <1>3 DEF Trail, Sound
      <4>2. QED
        BY <2>7, <4>1 DEF Told
    <3>5. DOMAIN d.events \subseteq DOMAIN e.events /\ Len(d.events) + 1 \in DOMAIN e.events
      BY <2>7
    <3>6. \A i \in DOMAIN e.sessions :
            /\ \E j \in DOMAIN e.events : Told(e, "session_started", i) = {j}
            /\ i # id => /\ e.sessions[i].open => Told(e, "session_ended", i) = {}
                         /\ ~e.sessions[i].open =>
                              \E j \in DOMAIN e.events : Told(e, "session_ended", i) = {j}
      <4> SUFFICES ASSUME NEW i \in DOMAIN d.sessions
                   PROVE  /\ \E j \in DOMAIN e.events : Told(e, "session_started", i) = {j}
                          /\ i # id =>
                               /\ e.sessions[i].open => Told(e, "session_ended", i) = {}
                               /\ ~e.sessions[i].open =>
                                    \E j \in DOMAIN e.events : Told(e, "session_ended", i) = {j}
        BY <2>2, <2>5
      <4>1. /\ \E j \in DOMAIN d.events : Told(d, "session_started", i) = {j}
            /\ d.sessions[i].open => Told(d, "session_ended", i) = {}
            /\ ~d.sessions[i].open => \E j \in DOMAIN d.events : Told(d, "session_ended", i) = {j}
        BY DEF Trail, Sound
      <4>2. i # id => e.sessions[i] = d.sessions[i]
        BY <2>2, <2>5
      <4>3. QED
        BY <3>2, <3>3, <3>5, <4>1, <4>2
    <3>7. QED
      BY <2>2, <2>5, <3>1, <3>4, <3>5, <3>6 DEF Trail
  <2>11. Sound(e)
    BY <2>5, <2>6, <2>9, <2>10 DEF Sound
  <2>12. QED
    BY <2>2, <2>5, <2>8, <2>11 DEF e
<1>4. QED
  BY <1>2, <1>3

LEMMA KeepsEventsTwice ==
  ASSUME NEW d \in Databases, NEW e \in Databases, NEW f \in Databases,
         KeepsEvents(d, e), KeepsEvents(e, f)
  PROVE  KeepsEvents(d, f)
<1>1. /\ Len(d.events) \in Nat /\ DOMAIN d.events = 1 .. Len(d.events)
      /\ Len(e.events) \in Nat /\ DOMAIN e.events = 1 .. Len(e.events)
      /\ Len(f.events) \in Nat
  BY DEF Databases
<1>2. DOMAIN d.events \subseteq DOMAIN e.events
  BY <1>1 DEF KeepsEvents
<1>3. QED
  BY <1>1, <1>2 DEF KeepsEvents

LEMMA BeginSessionKeeps ==
  ASSUME NEW d, Sound(d), NEW project \in Projects \union {NoProject},
         NEW task \in Tasks \union {NoTask}, NEW role \in SessionRoles,
         NEW restrictive \in BOOLEAN, MayBegin(d, project, task)
  PROVE  LET e == BeginSession(d, project, task, role, restrictive) IN
         /\ Sound(e)
         /\ Len(e.sessions) = Len(d.sessions) + 1
         /\ KeepsSessions(d, e, {}) /\ KeepsEvents(d, e)
<1> DEFINE s == StartTask(d, task)
           e == InsertSession(s, project, task, role, restrictive)
<1>1. Sound(s) /\ s.sessions = d.sessions /\ KeepsEvents(d, s)
  BY StartTaskKeeps
<1>2. Conflicts(s.sessions, project) = {}
  BY <1>1 DEF MayBegin
<1> HIDE DEF s
<1>3. Sound(e) /\ Len(e.sessions) = Len(s.sessions) + 1 /\ KeepsSessions(s, e, {}) /\ KeepsEvents(s, e)
  BY <1>1, <1>2, InsertSessionKeeps
<1> HIDE DEF e
<1>4. KeepsSessions(d, e, {})
  BY <1>1, <1>3 DEF KeepsSessions
<1>5. KeepsEvents(d, e)
  <2>1. d \in Databases /\ s \in Databases /\ e \in Databases
    BY <1>1, <1>3 DEF Sound
  <2>2. QED
    BY <1>1, <1>3, <2>1, KeepsEventsTwice
<1>6. QED
  BY <1>1, <1>3, <1>4, <1>5 DEF BeginSession, s, e
-----------------------------------------------------------------------------
(* The task a route is for.                                                *)

\* Among tasks there is one of the least priority and, of those, of the least id.
LEMMA FirstTaskIsThere ==
  ASSUME NEW rows \in [Tasks -> TaskRow], NEW S \in SUBSET Tasks, S # {}
  PROVE  \E t \in S : \A u \in S \ {t} : Before(rows, t, u)
<1> DEFINE R == {ss \in Nat \X Nat : ss[1] < ss[2]}
           P == {rows[t].priority : t \in S}
<1>1. Tasks \subseteq Nat /\ \A t \in S : rows[t].priority \in Nat /\ t \in Nat
  BY OrchestratorAssumption DEF TaskRow
<1>2. IsWellFoundedOn(R, Nat)
  BY NatLessThanWellFounded DEF OpToRel
<1>3. PICK least \in P : \A y \in P : ~(<<y, least>> \in R)
  <2>1. P \subseteq Nat /\ P # {}
    BY <1>1
  <2> HIDE DEF P, R
  <2>2. QED
    BY <1>2, <2>1, WFMin
<1> DEFINE Q == {t \in S : rows[t].priority = least}
<1>4. PICK first \in Q : \A u \in Q : ~(<<u, first>> \in R)
  <2>1. Q \subseteq Nat /\ Q # {}
    BY <1>1, <1>3
  <2> HIDE DEF Q, R
  <2>2. QED
    BY <1>2, <2>1, WFMin
<1>5. first \in S /\ rows[first].priority = least
  BY <1>4
<1>6. \A t \in S : ~(rows[t].priority < least)
  <2> SUFFICES ASSUME NEW t \in S, rows[t].priority < least PROVE FALSE
    OBVIOUS
  <2>1. rows[t].priority \in P /\ rows[t].priority \in Nat /\ least \in Nat
    BY <1>1, <1>3
  <2>2. <<rows[t].priority, least>> \in R
    BY <2>1
  <2>3. QED
    BY <1>3, <2>1, <2>2
<1>7. \A t \in Q : ~(t < first)
  BY <1>1, <1>4, <1>5
<1>8. ASSUME NEW t \in S \ {first} PROVE Before(rows, first, t)
  <2>1. rows[t].priority \in Nat /\ least \in Nat /\ t \in Nat /\ first \in Nat /\ t # first
    BY <1>1, <1>5
  <2>2. CASE rows[t].priority = least
    <3>1. ~(t < first)
      BY <1>7, <2>2
    <3>2. QED
      BY <1>5, <2>1, <2>2, <3>1 DEF Before
  <2>3. CASE rows[t].priority # least
    BY <1>5, <1>6, <2>1, <2>3 DEF Before
  <2>4. QED
    BY <2>2, <2>3
<1>9. QED
  BY <1>5, <1>8

LEMMA FirstRouteIsThere ==
  ASSUME NEW rows \in [Tasks -> TaskRow], NEW links, NEW scope \in SUBSET Tasks,
         NEW wanted \in SUBSET LiveRoutes(rows, links, scope),
         FirstRoute(rows, wanted, LiveRoutes(rows, links, scope)) # <<>>
  PROVE  FirstRoute(rows, wanted, LiveRoutes(rows, links, scope))[1].task \in Tasks
<1> DEFINE live == LiveRoutes(rows, links, scope)
           among == IF wanted # {} THEN wanted ELSE live
           tasks == {r.task : r \in among}
<1>1. among \subseteq live /\ among # {}
      /\ FirstRoute(rows, wanted, live) = <<ListedFirst(rows, among)>>
  BY DEF FirstRoute
<1>2. \A r \in live : r.task \in Tasks /\ r = RouteTask(rows, links, r.task)
  <2>1. ASSUME NEW t PROVE RouteTask(rows, links, t).task = t
    BY DEF RouteTask
  <2>2. ASSUME NEW r \in live PROVE r.task \in Tasks /\ r = RouteTask(rows, links, r.task)
    <3>1. PICK t \in scope : r = RouteTask(rows, links, t)
      BY DEF LiveRoutes
    <3>2. QED
      BY <2>1, <3>1
  <2>3. QED
    BY <2>2
<1> HIDE DEF live, among
<1>3. tasks \in SUBSET Tasks /\ tasks # {}
  BY <1>1, <1>2
<1>4. PICK t \in tasks : \A u \in tasks \ {t} : Before(rows, t, u)
  <2> HIDE DEF tasks
  <2>1. QED
    BY <1>3, FirstTaskIsThere
<1>5. PICK r \in among : r.task = t
  BY <1>4
<1>6. \A s \in among \ {r} : Before(rows, r.task, s.task)
  <2> SUFFICES ASSUME NEW s \in among \ {r} PROVE s.task \in tasks \ {t}
    BY <1>4, <1>5
  <2>1. r = RouteTask(rows, links, t) /\ s = RouteTask(rows, links, s.task)
    BY <1>1, <1>2, <1>5
  <2>2. s.task # t
    BY <2>1
  <2>3. QED
    BY <2>2
<1>7. ListedFirst(rows, among) \in among
  BY <1>5, <1>6 DEF ListedFirst
<1>8. QED
  BY <1>1, <1>2, <1>7 DEF live

LEMMA ChosenTask ==
  ASSUME NEW o, NEW m, Sound(db), m.target \in Tasks \union {0}, Chosen(o, m) # <<>>
  PROVE  Chosen(o, m)[1].task \in Tasks
<1>1. db.tasks \in [Tasks -> TaskRow] /\ Scope(o) \in SUBSET Tasks
  BY DEF Sound, Databases, Scope
<1>2. CASE m.target # 0
  BY <1>2 DEF Chosen, RouteTask
<1>3. CASE m.target = 0
  <2> DEFINE live == LiveRoutes(db.tasks, db.links, Scope(o))
             wanted == {r \in live : Eligible(db.tasks[r.task], r) = "none"}
  <2>1. wanted \in SUBSET live
    OBVIOUS
  <2>2. Chosen(o, m) = FirstRoute(db.tasks, wanted, live)
    BY <1>3 DEF Chosen, Pick
  <2> HIDE DEF wanted
  <2>3. QED
    BY <1>1, <2>1, <2>2, FirstRouteIsThere
<1>4. QED
  BY <1>2, <1>3

LEMMA NextTaskIsThere ==
  ASSUME NEW p, Sound(db), NextTask(db.tasks, db.links, Scope(p)) # <<>>
  PROVE  NextTask(db.tasks, db.links, Scope(p))[1].task \in Tasks
<1> DEFINE live == LiveRoutes(db.tasks, db.links, Scope(p))
           forAgent(r) == ~r.human /\ r.action # "wait_on_dependency"
           wanted == {r \in live : forAgent(r)}
<1>1. db.tasks \in [Tasks -> TaskRow] /\ Scope(p) \in SUBSET Tasks
  BY DEF Sound, Databases, Scope
<1>2. wanted \in SUBSET live
  OBVIOUS
<1>3. NextTask(db.tasks, db.links, Scope(p)) = FirstRoute(db.tasks, wanted, live)
  BY DEF NextTask
<1> HIDE DEF wanted
<1>4. QED
  BY <1>1, <1>2, <1>3, FirstRouteIsThere

-----------------------------------------------------------------------------
(* What a step leaves alone.                                               *)

LEMMA SameDatabase ==
  ASSUME NEW d, Sound(d)
  PROVE  KeepsSessions(d, d, {}) /\ KeepsEvents(d, d)
<1>1. Len(d.sessions) \in Nat /\ Len(d.events) \in Nat
  BY DEF Sound, Databases
<1>2. QED
  BY <1>1 DEF KeepsSessions, KeepsEvents

\* What a step was denied is told by the events there were when its agent returned.
LEMMA DenialsKept ==
  ASSUME NEW d \in Databases, NEW e \in Databases, KeepsEvents(d, e),
         NEW m, m.upto \in Nat, m.upto <= Len(d.events)
  PROVE  DeniedInStep(e, m) = DeniedInStep(d, m) /\ m.upto <= Len(e.events)
<1>1. /\ Len(d.events) \in Nat /\ DOMAIN d.events = 1 .. Len(d.events)
      /\ Len(e.events) \in Nat /\ DOMAIN e.events = 1 .. Len(e.events)
      /\ Len(d.events) <= Len(e.events)
  BY DEF Databases, KeepsEvents
<1>2. \A i : i \in DOMAIN e.events /\ i <= m.upto <=> i \in DOMAIN d.events /\ i <= m.upto
  BY <1>1
<1>3. \A i \in DOMAIN d.events : e.events[i] = d.events[i]
  BY DEF KeepsEvents
<1>4. DeniedInStep(e, m) = DeniedInStep(d, m)
  BY <1>2, <1>3 DEF DeniedInStep, DenialsAfter
<1>5. QED
  BY <1>1, <1>4

\* What a launcher has settled stays so while others work.
LEMMA FitsStill ==
  ASSUME NEW d \in Databases, NEW e \in Databases, KeepsEvents(d, e),
         NEW w, NEW m, NEW paid, NEW hidden, m.upto \in Nat, Fits(w, m, d, paid, hidden)
  PROVE  Fits(w, m, e, paid, hidden)
<1>1. m.upto <= Len(d.events)
  BY DEF Fits
<1>2. DeniedInStep(e, m) = DeniedInStep(d, m) /\ m.upto <= Len(e.events)
  BY <1>1, DenialsKept
<1>3. QED
  BY <1>2 DEF Fits, Undenied

\* Process p goes to w and remembers m; the others stay where they are.
Moves(p, w, m) ==
  /\ pc' \in [Procs -> Points] /\ DOMAIN mem' = Procs
  /\ pc'[p] = w /\ mem'[p] = m
  /\ \A q \in Procs \ {p} : pc'[q] = pc[q] /\ mem'[q] = mem[q]

TreesOk == tree' \in [Projects \union {NoProject} -> Trees \union {UnknownTree}]

\* Only p may have paid.
Pays(p) ==
  /\ spent' \in [Launchers -> Nat] /\ unread' \in [Launchers -> Nat]
  /\ \A o \in Launchers \ {p} : spent'[o] = spent[o] /\ unread'[o] = unread[o]

LEMMA IInvFacts ==
  ASSUME IInv
  PROVE  /\ Sound(db) /\ db \in Databases /\ Len(db.sessions) \in Nat /\ Len(db.events) \in Nat
         /\ DOMAIN db.sessions = 1 .. Len(db.sessions)
         /\ tree \in [Projects \union {NoProject} -> Trees \union {UnknownTree}]
         /\ calls \in 0 .. MaxCalls /\ spent \in [Launchers -> Nat] /\ unread \in [Launchers -> Nat]
         /\ pc \in [Procs -> Points] /\ DOMAIN mem = Procs
         /\ \A p \in Procs : Remembers(mem[p]) /\ mem[p].session \in 0 .. Len(db.sessions)
         /\ \A o \in Launchers : o \in Procs /\ o \notin Others /\ LaunchInv(o)
         /\ \A p \in Others : p \in Procs /\ p \notin Launchers /\ Allowed(p)
<1>1. Sound(db) /\ db \in Databases
  BY DEF IInv, TypeOK, Sound
<1>2. Len(db.sessions) \in Nat /\ DOMAIN db.sessions = 1 .. Len(db.sessions) /\ Len(db.events) \in Nat
  BY <1>1 DEF Databases
<1>3. \A o \in Launchers : o \in Procs /\ o \notin Others
  BY OrchestratorAssumption DEF Procs
<1>4. \A p \in Others : p \in Procs /\ p \notin Launchers
  BY OrchestratorAssumption DEF Procs
<1>5. QED
  BY <1>1, <1>2, <1>3, <1>4 DEF IInv, TypeOK

LEMMA Moved ==
  ASSUME IInv, NEW p \in Procs
  PROVE  /\ \A w \in Points : \A m : Goto(p, w) /\ Keep(p, m) => Moves(p, w, m)
         /\ \A w \in Points : Goto(p, w) /\ UNCHANGED mem => Moves(p, w, mem[p])
         /\ \A m : UNCHANGED pc /\ Keep(p, m) => Moves(p, pc[p], m)
         /\ UNCHANGED <<pc, mem>> => Moves(p, pc[p], mem[p])
<1>1. pc \in [Procs -> Points] /\ DOMAIN mem = Procs
  BY IInvFacts
<1>2. QED
  BY <1>1 DEF Goto, Keep, Moves

LEMMA NothingElse ==
  ASSUME IInv
  PROVE  /\ UNCHANGED tree => TreesOk
         /\ UNCHANGED <<spent, unread>> => \A p : Pays(p)
         /\ UNCHANGED Outside => TreesOk /\ UNCHANGED <<spent, unread>> /\ \A p : Pays(p)
BY IInvFacts DEF TreesOk, Pays, Outside

LEMMA CallsCount ==
  ASSUME IInv
  PROVE  /\ Failed => calls' \in 0 .. MaxCalls
         /\ Worked => calls' \in 0 .. MaxCalls
         /\ \A p, call : Command(p, call) => calls' \in 0 .. MaxCalls
<1>1. calls \in 0 .. MaxCalls /\ MaxCalls \in Nat
  BY IInvFacts, OrchestratorAssumption
<1>2. QED
  BY <1>1 DEF Failed, Worked, Command

\* A step of process p, from what it does to the database and to p's own state.
LEMMA StepOf ==
  ASSUME IInv, NEW p \in Procs, NEW w, NEW m, Moves(p, w, m), NEW Closed,
         Sound(db'), KeepsSessions(db, db', Closed), KeepsEvents(db, db'),
         TreesOk, calls' \in 0 .. MaxCalls, Pays(p),
         Remembers(m), m.session \in 0 .. Len(db'.sessions),
         p \in Launchers => Fits(w, m, db', spent'[p], unread'[p]),
         p \in Others => Allowed(p)'
  PROVE  IInv'
<1>1. /\ TypeOK /\ DOMAIN mem = Procs
      /\ \A q \in Procs : Remembers(mem[q]) /\ mem[q].session \in 0 .. Len(db.sessions)
      /\ \A o \in Launchers : LaunchInv(o)
      /\ \A q \in Others : Allowed(q)
  BY DEF IInv, TypeOK
<1>2. /\ Len(db.sessions) \in Nat /\ Len(db'.sessions) \in Nat
      /\ Len(db.sessions) <= Len(db'.sessions) /\ DOMAIN db.sessions = 1 .. Len(db.sessions)
      /\ db \in Databases /\ db' \in Databases
  BY <1>1 DEF TypeOK, Databases, KeepsSessions, Sound
<1>3. /\ pc'[p] = w /\ mem'[p] = m /\ DOMAIN mem' = Procs /\ pc' \in [Procs -> Points]
      /\ \A q \in Procs \ {p} : pc'[q] = pc[q] /\ mem'[q] = mem[q]
  BY DEF Moves
<1>4. \A q \in Procs : mem'[q].session \in 0 .. Len(db'.sessions)
  BY <1>1, <1>2, <1>3
<1>5. TypeOK'
  BY <1>3, <1>4 DEF TypeOK, Sound, TreesOk, Pays
<1>6. \A q \in Procs : Remembers(mem'[q])
  BY <1>1, <1>3
<1>7. ASSUME NEW o \in Launchers PROVE LaunchInv(o)'
  <2>1. CASE o = p
    BY <1>3, <2>1 DEF LaunchInv
  <2>2. CASE o # p
    <3>1. /\ pc'[o] = pc[o] /\ mem'[o] = mem[o] /\ spent'[o] = spent[o] /\ unread'[o] = unread[o]
          /\ Fits(pc[o], mem[o], db, spent[o], unread[o]) /\ mem[o].upto \in Nat
      BY <1>1, <1>3, <2>2 DEF Procs, Pays, LaunchInv, Remembers
    <3>2. Fits(pc[o], mem[o], db', spent[o], unread[o])
      BY <1>2, <3>1, FitsStill
    <3>3. QED
      BY <3>1, <3>2 DEF LaunchInv
  <2>3. QED
    BY <2>1, <2>2
<1>8. ASSUME NEW q \in Others PROVE Allowed(q)'
  <2>1. CASE q = p
    BY <2>1
  <2>2. CASE q # p
    <3>1. pc'[q] = pc[q] /\ mem'[q] = mem[q] /\ Allowed(q) /\ mem[q].session \in 0 .. Len(db.sessions)
      BY <1>1, <1>3, <2>2 DEF Procs
    <3> SUFFICES ASSUME pc[q] = "ending"
                 PROVE  mem[q].session # 0 /\ MayEnd(q, db'.sessions[mem[q].session])
      BY <3>1 DEF Allowed
    <3>2. mem[q].session \in DOMAIN db.sessions /\ MayEnd(q, db.sessions[mem[q].session])
      BY <1>2, <3>1 DEF Allowed
    <3>3. QED
      BY <1>2, <3>2 DEF MayEnd, KeepsSessions
  <2>3. QED
    BY <2>1, <2>2
<1>9. QED
  BY <1>3, <1>5, <1>6, <1>7, <1>8 DEF IInv, Sound

-----------------------------------------------------------------------------
(* The steps of a launcher.                                                *)

\* A step of a launcher that writes what it writes whole, and pays nothing.
LEMMA LaunchStep ==
  ASSUME IInv, NEW o \in Launchers, NEW w, NEW m, Moves(o, w, m), NEW Closed,
         Sound(db'), KeepsSessions(db, db', Closed), KeepsEvents(db, db'),
         TreesOk, UNCHANGED <<spent, unread>>, calls' \in 0 .. MaxCalls,
         Remembers(m), m.session \in {0, mem[o].session},
         Fits(w, m, db, spent[o], unread[o])
  PROVE  IInv'
<1>1. /\ o \in Procs /\ o \notin Others /\ Pays(o) /\ mem[o].session \in 0 .. Len(db.sessions)
      /\ Len(db.sessions) \in Nat /\ db \in Databases
  BY IInvFacts, NothingElse
<1>2. Len(db'.sessions) \in Nat /\ Len(db.sessions) <= Len(db'.sessions) /\ db' \in Databases
  BY DEF KeepsSessions, Sound, Databases
<1>3. m.session \in 0 .. Len(db'.sessions)
  BY <1>1, <1>2
<1>4. Fits(w, m, db', spent'[o], unread'[o])
  <2>1. m.upto \in Nat /\ spent'[o] = spent[o] /\ unread'[o] = unread[o]
    BY DEF Remembers
  <2>2. Fits(w, m, db', spent[o], unread[o])
    BY <1>1, <1>2, <2>1, FitsStill
  <2>3. QED
    BY <2>1, <2>2
<1>5. QED
  BY <1>1, <1>3, <1>4, StepOf

\* One that only reads the database.
LEMMA ReadingStep ==
  ASSUME IInv, NEW o \in Launchers, NEW w, NEW m, Moves(o, w, m),
         UNCHANGED db, UNCHANGED Outside, calls' \in 0 .. MaxCalls,
         Remembers(m), m.session \in {0, mem[o].session},
         Fits(w, m, db, spent[o], unread[o])
  PROVE  IInv'
<1>1. TreesOk /\ UNCHANGED <<spent, unread>> /\ Sound(db)
  BY NothingElse, IInvFacts
<1>2. Sound(db') /\ KeepsSessions(db, db', {}) /\ KeepsEvents(db, db')
  BY <1>1, SameDatabase
<1>3. QED
  BY <1>1, <1>2, LaunchStep

\* What a launcher at w that remembers m may go on with: the same step.
Continues(m, n) ==
  /\ n.mode = m.mode /\ n.cost = m.cost /\ n.exit = m.exit /\ n.route = m.route
  /\ n.session = m.session /\ n.last = m.last /\ n.upto = m.upto /\ n.denials = m.denials
  /\ m.missed \subseteq n.missed

LEMMA FitsOn ==
  ASSUME NEW w, NEW m, NEW d, NEW paid, NEW hidden, Fits(w, m, d, paid, hidden),
         NEW v, NEW n, Continues(m, n), v # "new",
         w \notin Finished \/ v \in Finished, InHand(v, n), Cleared(v, n) => Cleared(w, m)
  PROVE  Fits(v, n, d, paid, hidden)
<1>1. Counted(v, n, paid, hidden)
  BY DEF Fits, Counted, Continues
<1>2. DeniedInStep(d, n) = DeniedInStep(d, m)
  BY DEF Continues, DeniedInStep
<1>3. Undenied(v, n, d)
  BY <1>2 DEF Fits, Undenied, Continues
<1>4. QED
  BY <1>1, <1>3 DEF Fits, Continues

LEMMA ContinuesSame == \A m : Continues(m, m)
BY DEF Continues

\* A launcher that stops keeps what it has paid.
LEMMA OverFits ==
  ASSUME NEW w, NEW m, Remembers(m), NEW d \in Databases, NEW paid \in Nat, NEW hidden \in Nat,
         Fits(w, m, d, paid, hidden), NEW why, NEW v \in Finished
  PROVE  LET n == Over(m, why) IN
         Remembers(n) /\ n.session = m.session /\ Fits(v, n, d, paid, hidden)
<1> DEFINE n == Over(m, why)
<1>1. /\ Remembers(n) /\ n.session = m.session /\ n.mode = m.mode /\ n.cost = 0 /\ n.upto = 0
  BY DEF Over, Fresh, Idle, Remembers
<1>2. MaxCost \in Nat /\ Len(d.events) \in Nat
  BY OrchestratorAssumption DEF Databases
<1> HIDE DEF n
<1>3. Counted(v, n, paid, hidden)
  BY <1>1, <1>2 DEF Counted, Fits, Finished
<1>4. InHand(v, n) /\ Undenied(v, n, d)
  BY DEF InHand, Undenied, Cleared, Finished, Routed, Running, Unreturned, Returned, Choosing
<1>5. QED
  BY <1>1, <1>2, <1>3, <1>4 DEF Fits, n

\* The last step of a launch, which may leave a note.
LEMMA EndedWriting ==
  ASSUME IInv, NEW o \in Launchers, NEW m, NEW v, NEW why, Remembers(m),
         m.session = mem[o].session, Fits(v, m, db, spent[o], unread[o]),
         Ended(o, m, why), UNCHANGED Outside, calls' \in 0 .. MaxCalls, NEW Closed,
         Sound(db'), KeepsSessions(db, db', Closed), KeepsEvents(db, db')
  PROVE  IInv'
<1> DEFINE n == Over(m, why)
<1>1. /\ db \in Databases /\ spent[o] \in Nat /\ unread[o] \in Nat /\ o \in Procs
      /\ TreesOk /\ UNCHANGED <<spent, unread>>
  BY IInvFacts, NothingElse
<1>2. "ended" \in Finished /\ "ended" \in Points
  BY DEF Finished, Points
<1>3. Remembers(n) /\ n.session = m.session /\ Fits("ended", n, db, spent[o], unread[o])
  BY <1>1, <1>2, OverFits
<1>4. Goto(o, "ended") /\ Keep(o, n)
  BY DEF Ended
<1> HIDE DEF n
<1>5. Moves(o, "ended", n)
  BY <1>1, <1>2, <1>4, Moved
<1>6. QED
  BY <1>1, <1>3, <1>5, LaunchStep

LEMMA EndedKeeps ==
  ASSUME IInv, NEW o \in Launchers, NEW why, Ended(o, mem[o], why), UNCHANGED db,
         UNCHANGED Outside, calls' \in 0 .. MaxCalls
  PROVE  IInv'
<1>1. /\ Sound(db) /\ Remembers(mem[o]) /\ Fits(pc[o], mem[o], db, spent[o], unread[o])
  BY IInvFacts DEF LaunchInv
<1>2. Sound(db') /\ KeepsSessions(db, db', {}) /\ KeepsEvents(db, db')
  BY <1>1, SameDatabase
<1>3. QED
  BY <1>1, <1>2, EndedWriting

\* A step that only reads, and goes on with what the launcher knows.
LEMMA GoingOn ==
  ASSUME IInv, NEW o \in Launchers, NEW v \in Points, NEW n, Moves(o, v, n), Remembers(n),
         Continues(mem[o], n), v # "new", pc[o] \notin Finished, InHand(v, n),
         Cleared(v, n) => Cleared(pc[o], mem[o]),
         UNCHANGED db, UNCHANGED Outside, calls' \in 0 .. MaxCalls
  PROVE  IInv'
<1>1. Fits(pc[o], mem[o], db, spent[o], unread[o])
  BY IInvFacts DEF LaunchInv
<1>2. Fits(v, n, db, spent[o], unread[o])
  BY <1>1, FitsOn
<1>3. n.session = mem[o].session
  BY DEF Continues
<1>4. QED
  BY <1>2, <1>3, ReadingStep

LEMMA Places ==
  /\ Choosing \subseteq Points /\ Running \subseteq Points
  /\ {"note", "chain", "ended", "dead"} \subseteq Points
  /\ \A w \in Choosing \union Running \union {"note", "chain"} : w \notin Finished /\ w # "new"
BY DEF Points, Choosing, Running, Finished

LEMMA LaunchKeeps ==
  ASSUME IInv, NEW o \in Launchers, Launch(o)
  PROVE  IInv'
<1>1. PICK mode \in Modes :
        /\ \E target \in CASE mode \in {"run", "step"} -> Tasks \union {0}
                           [] mode = "plan" -> DOMAIN db.specs
                           [] OTHER -> {0} : Keep(o, Fresh(mode, target))
        /\ Goto(o, IF mode \in {"spec", "research"} THEN "look" ELSE "choose")
  BY DEF Launch
<1>2. PICK target \in CASE mode \in {"run", "step"} -> Tasks \union {0}
                        [] mode = "plan" -> DOMAIN db.specs
                        [] OTHER -> {0} : Keep(o, Fresh(mode, target))
  BY <1>1
<1> DEFINE m == Fresh(mode, target)
           w == IF mode \in {"spec", "research"} THEN "look" ELSE "choose"
<1>3. /\ pc[o] = "new" /\ Goto(o, w) /\ Keep(o, m) /\ UNCHANGED db /\ UNCHANGED calls
      /\ UNCHANGED Outside /\ calls' \in 0 .. MaxCalls /\ o \in Procs
  BY <1>1, <1>2, IInvFacts DEF Launch
<1>4. target \in Nat /\ (mode \in {"run", "step"} => target \in Tasks \union {0})
  <2>1. db.specs \in Seq([status : {"approved", "draft"}])
    BY IInvFacts DEF Databases
  <2>2. DOMAIN db.specs \subseteq Nat /\ Tasks \subseteq Nat
    BY <2>1, OrchestratorAssumption
  <2>3. QED
    BY <1>2, <2>2
<1>5. /\ Remembers(m) /\ m.session = 0 /\ m.mode = mode /\ m.cost = 0
      /\ m.exit = "none" /\ m.last = 0 /\ m.upto = 0
  BY <1>4 DEF Remembers, Fresh, Idle
<1>6. w \in Points /\ w \in Choosing /\ (w = "look" => mode \in OneShot)
  BY DEF Points, Choosing, OneShot
<1>7. spent[o] = 0 /\ unread[o] = 0
  BY <1>3, IInvFacts DEF LaunchInv, Fits, Counted
<1> HIDE DEF m
<1>8. Fits(w, m, db, spent[o], unread[o])
  <2>1. MaxCost \in Nat
    BY OrchestratorAssumption
  <2>2. Counted(w, m, spent[o], unread[o])
    BY <1>5, <1>7, <2>1 DEF Counted
  <2>3. DeniedInStep(db, m) = {} /\ m.upto <= Len(db.events)
    <3>1. Len(db.events) \in Nat /\ DOMAIN db.events = 1 .. Len(db.events)
      BY IInvFacts DEF Databases
    <3>2. QED
      BY <1>5, <3>1 DEF DeniedInStep, DenialsAfter
  <2>4. InHand(w, m)
    BY <1>5, <1>6 DEF InHand, Routed, Running, Unreturned, Returned
  <2>5. QED
    BY <2>2, <2>3, <2>4 DEF Fits, Undenied
<1> HIDE DEF w
<1>9. Moves(o, w, m)
  BY <1>3, <1>6, Moved
<1>10. QED
  BY <1>3, <1>5, <1>8, <1>9, ReadingStep

LEMMA ChooseKeeps ==
  ASSUME IInv, NEW o \in Launchers, Choose(o)
  PROVE  IInv'
<1> DEFINE m == mem[o]
           chosen == Chosen(o, m)
           n == [m EXCEPT !.route = chosen[1]]
<1>1. /\ pc[o] = "choose" /\ m.mode \in {"run", "step"} /\ UNCHANGED db /\ UNCHANGED Outside
      /\ calls' \in 0 .. MaxCalls
  BY CallsCount DEF Choose
<1>2. CASE \E why : Ended(o, m, why)
  BY <1>1, <1>2, EndedKeeps
<1>3. CASE chosen # <<>> /\ Keep(o, n) /\ Goto(o, "consider")
  <2>1. Remembers(m) /\ LaunchInv(o) /\ Sound(db) /\ o \in Procs
    BY IInvFacts
  <2>2. chosen[1].task \in Tasks
    BY <1>1, <1>3, <2>1, ChosenTask DEF Remembers
  <2>3. Remembers(n) /\ n.route = chosen[1] /\ n.mode = m.mode /\ n.session = m.session
        /\ n.cost = m.cost /\ n.exit = m.exit /\ n.last = m.last /\ n.upto = m.upto
        /\ n.denials = m.denials /\ n.missed = m.missed
    BY <2>1 DEF Remembers, Idle, Fresh
  <2>4. "consider" \in Points /\ "consider" # "new" /\ "consider" \notin Finished
    BY DEF Points, Choosing, Finished
  <2> HIDE DEF n
  <2>5. Moves(o, "consider", n)
    BY <1>3, <2>1, <2>4, Moved
  <2>6. Fits("consider", n, db, spent[o], unread[o])
    <3>1. Fits(pc[o], m, db, spent[o], unread[o])
      BY <2>1 DEF LaunchInv
    <3>2. InHand("consider", n)
      BY <1>1, <2>2, <2>3, <3>1
         DEF InHand, Fits, Routed, Running, Unreturned, Returned, Choosing
    <3>3. Counted("consider", n, spent[o], unread[o])
      BY <1>1, <2>3, <3>1 DEF Counted, Fits, Finished
    <3>4. DeniedInStep(db, n) = DeniedInStep(db, m)
      BY <2>3 DEF DeniedInStep
    <3>5. Undenied("consider", n, db)
      BY <1>1, <2>3, <3>1, <3>4 DEF Undenied, Fits, Cleared, Choosing
    <3>6. QED
      BY <2>3, <3>1, <3>2, <3>3, <3>5 DEF Fits
  <2>7. QED
    BY <1>1, <2>3, <2>5, <2>6, ReadingStep
<1>4. QED
  BY <1>2, <1>3 DEF Choose

\* A step on to v that changes nothing the launcher remembers.
LEMMA Onward ==
  ASSUME IInv, NEW o \in Launchers, NEW v \in Choosing \union Running \union {"chain"},
         Goto(o, v), UNCHANGED mem, pc[o] \notin Finished, InHand(v, mem[o]),
         Cleared(v, mem[o]) => Cleared(pc[o], mem[o]),
         UNCHANGED db, UNCHANGED Outside, calls' \in 0 .. MaxCalls
  PROVE  IInv'
<1>1. o \in Procs /\ Remembers(mem[o])
  BY IInvFacts
<1>2. v \in Points /\ v # "new"
  BY Places
<1>3. Moves(o, v, mem[o])
  BY <1>1, <1>2, Moved
<1>4. Continues(mem[o], mem[o])
  BY ContinuesSame
<1>5. QED
  BY <1>1, <1>2, <1>3, <1>4, GoingOn

\* Choosing goes on from one place to the next, its task in hand.
LEMMA ChoosingOn ==
  ASSUME IInv, NEW o \in Launchers, pc[o] \in Choosing, NEW v \in Choosing, Goto(o, v),
         UNCHANGED mem, UNCHANGED db, UNCHANGED Outside, calls' \in 0 .. MaxCalls,
         mem[o].mode \notin OneShot => pc[o] \in Routed
  PROVE  IInv'
<1>1. Fits(pc[o], mem[o], db, spent[o], unread[o])
  BY IInvFacts DEF LaunchInv
<1>2. /\ v \notin Running \union {"note"} /\ v \notin Unreturned /\ v \notin Returned
      /\ pc[o] \notin Finished
  BY DEF Choosing, Running, Unreturned, Returned, Finished
<1>3. InHand(v, mem[o])
  BY <1>1, <1>2 DEF Fits, InHand
<1>4. Cleared(pc[o], mem[o])
  BY DEF Cleared
<1>5. QED
  BY <1>2, <1>3, <1>4, Onward

LEMMA ChoosingKeeps ==
  ASSUME IInv, NEW o \in Launchers, Consider(o) \/ Look(o) \/ Vacant(o) \/ Prepare(o)
  PROVE  IInv'
<1>1. /\ UNCHANGED db /\ UNCHANGED Outside /\ calls' \in 0 .. MaxCalls
  <2>1. CASE Look(o)
    BY <2>1, IInvFacts DEF Look
  <2>2. CASE Consider(o) \/ Vacant(o) \/ Prepare(o)
    BY <2>2, CallsCount DEF Consider, Vacant, Prepare
  <2>3. QED
    BY <2>1, <2>2
<1>2. CASE \E why : Ended(o, mem[o], why)
  BY <1>1, <1>2, EndedKeeps
<1>3. CASE pc[o] \in {"consider", "look", "vacant"} /\ UNCHANGED mem
           /\ \E v \in {"look", "vacant", "begin"} : Goto(o, v)
  <2>1. pc[o] \in Choosing /\ pc[o] \in Routed /\ {"look", "vacant", "begin"} \subseteq Choosing
    BY <1>3 DEF Choosing, Routed
  <2>2. QED
    BY <1>1, <1>3, <2>1, ChoosingOn
<1>4. CASE mem[o].mode = "plan" /\ pc[o] \in {"choose", "drafts", "awaiting"} /\ UNCHANGED mem
           /\ \E v \in {"drafts", "awaiting", "look"} : Goto(o, v)
  <2>1. /\ pc[o] \in Choosing /\ mem[o].mode \in OneShot
        /\ {"drafts", "awaiting", "look"} \subseteq Choosing
    BY <1>4 DEF Choosing, OneShot
  <2>2. QED
    BY <1>1, <1>4, <2>1, ChoosingOn
<1>5. CASE Consider(o)
  BY <1>2, <1>3, <1>5 DEF Consider
<1>6. CASE Look(o)
  BY <1>2, <1>3, <1>6 DEF Look
<1>7. CASE Vacant(o)
  BY <1>2, <1>3, <1>7 DEF Vacant
<1>8. CASE Prepare(o)
  BY <1>2, <1>4, <1>8 DEF Prepare
<1>9. QED
  BY <1>5, <1>6, <1>7, <1>8

LEMMA SessionForIsOne ==
  ASSUME IInv, NEW o \in Launchers, pc[o] = "begin"
  PROVE  LET s == SessionFor(o, mem[o]) IN
         /\ s.project \in Projects \union {NoProject} /\ s.task \in Tasks \union {NoTask}
         /\ s.role \in SessionRoles
<1>1. Here[o] \in Projects \union {NoProject}
  BY OrchestratorAssumption DEF Others
<1>2. CASE mem[o].mode \in OneShot
  BY <1>1, <1>2 DEF SessionFor, SessionRoles
<1>3. CASE mem[o].mode \notin OneShot
  <2>1. mem[o].route.task \in Tasks /\ db.tasks \in [Tasks -> TaskRow]
    BY <1>3, IInvFacts DEF LaunchInv, Fits, InHand, Routed, Databases
  <2>2. db.tasks[mem[o].route.task].project \in Projects \union {NoProject}
    BY <2>1 DEF TaskRow
  <2>3. CASE mem[o].route.action = "define_criteria"
    BY <1>3, <2>2, <2>3 DEF SessionFor, SessionRoles
  <2>4. CASE mem[o].route.action # "define_criteria"
    BY <1>3, <2>1, <2>2, <2>4 DEF SessionFor, SessionRoles
  <2>5. QED
    BY <2>3, <2>4
<1>4. QED
  BY <1>2, <1>3

LEMMA BeginAsKeeps ==
  ASSUME IInv, NEW o \in Launchers, pc[o] = "begin", UNCHANGED Outside, calls' \in 0 .. MaxCalls,
         NEW s, s.project \in Projects \union {NoProject}, s.task \in Tasks \union {NoTask},
         s.role \in SessionRoles, BeginAs(o, mem[o], s)
  PROVE  IInv' /\ KeepsSessions(db, db', {})
<1> DEFINE m == mem[o]
           id == Len(db.sessions) + 1
           n == [m EXCEPT !.session = id, !.steps = @ + 1, !.exit = "none", !.denials = 0,
                          !.missed = {}]
<1>1. /\ Remembers(m) /\ Fits("begin", m, db, spent[o], unread[o]) /\ o \in Procs /\ o \notin Others
      /\ Sound(db) /\ db \in Databases /\ Len(db.sessions) \in Nat
      /\ TreesOk /\ UNCHANGED <<spent, unread>> /\ Pays(o)
  BY IInvFacts, NothingElse DEF LaunchInv
<1>2. CASE ~MayBegin(db, s.project, s.task)
  <2>1. UNCHANGED db /\ \E why : Ended(o, m, why)
    BY <1>2 DEF BeginAs
  <2>2. KeepsSessions(db, db', {})
    BY <1>1, <2>1 DEF KeepsSessions
  <2>3. QED
    BY <2>1, <2>2, EndedKeeps
<1>3. CASE MayBegin(db, s.project, s.task)
  <2>1. /\ db' = BeginSession(db, s.project, s.task, s.role, FALSE)
        /\ Keep(o, n) /\ Goto(o, "launched")
    BY <1>3 DEF BeginAs
  <2>2. /\ Sound(db') /\ Len(db'.sessions) = id
        /\ KeepsSessions(db, db', {}) /\ KeepsEvents(db, db')
    BY <1>1, <1>3, <2>1, BeginSessionKeeps
  <2>3. /\ Remembers(n) /\ n.mode = m.mode /\ n.session = id /\ n.cost = m.cost /\ n.exit = "none"
        /\ n.route = m.route /\ n.last = m.last /\ n.upto = m.upto
    BY <1>1 DEF Remembers, Idle, Fresh, Outcomes
  <2> HIDE DEF n
  <2>4. "launched" \in Points /\ "launched" # "new" /\ ~Cleared("launched", n)
    BY DEF Points, Running, Cleared, Choosing
  <2>5. Moves(o, "launched", n)
    BY <1>1, <2>1, <2>4, Moved
  <2>6. Fits("launched", n, db, spent[o], unread[o])
    <3>1. InHand("launched", n)
      BY <1>1, <2>3 DEF Fits, InHand, Routed, Running, Unreturned, Returned, Choosing
    <3>2. Counted("launched", n, spent[o], unread[o])
      BY <1>1, <2>3 DEF Fits, Counted, InHand, Choosing, Finished
    <3>3. QED
      BY <1>1, <2>3, <2>4, <3>1, <3>2 DEF Fits, Undenied
  <2>7. Fits("launched", n, db', spent'[o], unread'[o])
    <3>1. n.upto \in Nat /\ db' \in Databases
      BY <2>2, <2>3 DEF Remembers, Sound
    <3>2. QED
      BY <1>1, <2>2, <2>6, <3>1, FitsStill
  <2>8. n.session \in 0 .. Len(db'.sessions)
    BY <1>1, <2>2, <2>3
  <2>9. QED
    BY <1>1, <2>2, <2>3, <2>5, <2>7, <2>8, StepOf
<1>4. QED
  BY <1>2, <1>3

LEMMA BeginKeeps ==
  ASSUME IInv, NEW o \in Launchers, Begin(o)
  PROVE  IInv' /\ KeepsSessions(db, db', {})
<1> DEFINE s == SessionFor(o, mem[o])
           r == [s EXCEPT !.role = "none"]
<1>1. pc[o] = "begin" /\ UNCHANGED Outside /\ calls' \in 0 .. MaxCalls
  BY CallsCount DEF Begin
<1>2. /\ s.project \in Projects \union {NoProject} /\ s.task \in Tasks \union {NoTask}
      /\ s.role \in SessionRoles
  BY <1>1, SessionForIsOne
<1>3. r.project = s.project /\ r.task = s.task /\ r.role \in SessionRoles
  BY DEF SessionFor, SessionRoles
<1>4. BeginAs(o, mem[o], s) \/ BeginAs(o, mem[o], r) \/ (Ended(o, mem[o], "error") /\ UNCHANGED db)
  BY DEF Begin
<1> HIDE DEF s, r
<1>5. CASE Ended(o, mem[o], "error") /\ UNCHANGED db
  BY <1>1, <1>5, EndedKeeps, SameDatabase, IInvFacts
<1>6. QED
  BY <1>1, <1>2, <1>3, <1>4, <1>5, BeginAsKeeps

\* logDispatch tells of the step, in its session, or fails.
LEMMA LogKeeps ==
  ASSUME IInv, NEW o \in Launchers, Launched(o) \/ LogFinish(o)
  PROVE  IInv' /\ KeepsSessions(db, db', {})
<1> DEFINE v == IF pc[o] = "launched" THEN "baseline" ELSE "judge"
<1>1. /\ pc[o] \in {"launched", "log"} /\ Goto(o, v) /\ UNCHANGED mem /\ LogDispatch(o)
      /\ UNCHANGED Outside
  BY DEF Launched, LogFinish
<1>2. /\ Remembers(mem[o]) /\ Fits(pc[o], mem[o], db, spent[o], unread[o]) /\ o \in Procs
      /\ Sound(db) /\ mem[o].session \in 0 .. Len(db.sessions)
      /\ TreesOk /\ UNCHANGED <<spent, unread>>
  BY <1>1, IInvFacts, NothingElse DEF LaunchInv
<1>3. calls' \in 0 .. MaxCalls
  BY <1>1, CallsCount DEF LogDispatch
<1>4. Sound(db') /\ KeepsSessions(db, db', {}) /\ KeepsEvents(db, db')
  <2>1. CASE db' = LogEvent(db, "orchestrator", mem[o].session)
    BY <1>2, <2>1, LogEventKeeps
  <2>2. CASE UNCHANGED db
    BY <1>2, <2>2, SameDatabase
  <2>3. QED
    BY <1>1, <2>1, <2>2 DEF LogDispatch
<1>5. /\ v \in Points /\ v # "new" /\ pc[o] \notin Finished
      /\ (Cleared(v, mem[o]) => Cleared(pc[o], mem[o]))
  BY <1>1 DEF Points, Running, Finished, Cleared, Choosing
<1>6. InHand(v, mem[o])
  BY <1>1, <1>2 DEF Fits, InHand, Routed, Running, Unreturned, Returned, Choosing
<1> HIDE DEF v
<1>7. Moves(o, v, mem[o])
  BY <1>1, <1>2, <1>5, Moved
<1>8. Fits(v, mem[o], db, spent[o], unread[o])
  BY <1>2, <1>5, <1>6, ContinuesSame, FitsOn
<1>9. QED
  BY <1>2, <1>3, <1>4, <1>7, <1>8, LaunchStep

\* What a process remembers, with something new in a field no rule here reads.
LEMMA RemembersMore ==
  ASSUME NEW m, Remembers(m), NEW x
  PROVE  /\ LET n == [m EXCEPT !.seen = x] IN Remembers(n) /\ Continues(m, n)
         /\ LET n == [m EXCEPT !.base = x] IN Remembers(n) /\ Continues(m, n)
         /\ LET n == [m EXCEPT !.before = x] IN Remembers(n) /\ Continues(m, n)
         /\ LET n == [m EXCEPT !.edited = x] IN Remembers(n) /\ Continues(m, n)
         /\ LET n == [m EXCEPT !.stop = x] IN Remembers(n) /\ Continues(m, n)
         /\ LET n == [m EXCEPT !.interrupted = x] IN Remembers(n) /\ Continues(m, n)
BY DEF Remembers, Continues, Idle, Fresh

\* A step inside the session, on to where nothing is settled or what was before.
LEMMA InSessionOn ==
  ASSUME IInv, NEW o \in Launchers, NEW n, NEW v \in Running \union {"note", "chain"},
         Goto(o, v), Keep(o, n), Remembers(n), Continues(mem[o], n),
         pc[o] \in Running, (v \in Unreturned => pc[o] \in Unreturned),
         (v \in Returned => n.exit # "none"), (v = "chain" => n.exit = "ok"),
         Cleared(v, n) => Cleared(pc[o], mem[o]),
         UNCHANGED db, UNCHANGED Outside, calls' \in 0 .. MaxCalls
  PROVE  IInv'
<1>1. o \in Procs /\ Fits(pc[o], mem[o], db, spent[o], unread[o])
  BY IInvFacts DEF LaunchInv
<1>2. /\ v \in Points /\ v # "new" /\ v \notin Choosing
      /\ pc[o] \in Routed /\ pc[o] \notin Finished
  BY DEF Points, Routed, Finished, Running, Choosing
<1>3. InHand(v, n)
  BY <1>1, <1>2 DEF Fits, InHand, Continues
<1>4. Moves(o, v, n)
  BY <1>1, <1>2, Moved
<1>5. QED
  BY <1>2, <1>3, <1>4, GoingOn

LEMMA BaselineKeeps ==
  ASSUME IInv, NEW o \in Launchers, Baseline(o)
  PROVE  IInv'
<1>1. /\ pc[o] = "baseline" /\ UNCHANGED db /\ UNCHANGED Outside /\ calls' \in 0 .. MaxCalls
      /\ Remembers(mem[o]) /\ Fits(pc[o], mem[o], db, spent[o], unread[o])
  BY CallsCount, IInvFacts DEF Baseline, LaunchInv
<1>2. /\ pc[o] \in Running /\ pc[o] \in Unreturned /\ {"mark", "end"} \subseteq Running
      /\ "mark" \notin Returned /\ "end" \notin Returned /\ "end" \notin Unreturned
      /\ \A m : ~Cleared("mark", m) /\ (m.exit = "none" => ~Cleared("end", m))
      /\ mem[o].exit = "none"
  BY <1>1 DEF Running, Unreturned, Returned, Cleared, Choosing, Fits, InHand
<1>3. CASE Goto(o, "mark") /\ \E x : Keep(o, [mem[o] EXCEPT !.seen = x])
  BY <1>1, <1>2, <1>3, RemembersMore, InSessionOn
<1>4. CASE Goto(o, "mark") /\ \E x : Keep(o, [mem[o] EXCEPT !.base = x])
  BY <1>1, <1>2, <1>4, RemembersMore, InSessionOn
<1>5. CASE Goto(o, "end") /\ UNCHANGED mem
  <2>1. InHand("end", mem[o])
    BY <1>1, <1>2 DEF Fits, InHand, Routed, Running, Choosing
  <2>2. pc[o] \notin Finished
    BY <1>1 DEF Finished
  <2>3. QED
    BY <1>1, <1>2, <1>5, <2>1, <2>2, Onward
<1>6. QED
  BY <1>3, <1>4, <1>5 DEF Baseline

LEMMA MarkKeeps ==
  ASSUME IInv, NEW o \in Launchers, Mark(o)
  PROVE  IInv'
<1>1. PICK last \in {Len(db.events), 0} : Keep(o, [mem[o] EXCEPT !.last = last])
  BY DEF Mark
<1> DEFINE m == mem[o]
           n == [m EXCEPT !.last = last]
<1>2. /\ pc[o] = "mark" /\ Goto(o, "hash") /\ UNCHANGED db /\ UNCHANGED Outside
      /\ calls' \in 0 .. MaxCalls /\ Remembers(m) /\ Fits(pc[o], m, db, spent[o], unread[o])
      /\ o \in Procs /\ Len(db.events) \in Nat
  BY CallsCount, IInvFacts DEF Mark, LaunchInv
<1>3. /\ Remembers(n) /\ n.mode = m.mode /\ n.session = m.session /\ n.cost = m.cost
      /\ n.route = m.route /\ n.exit = m.exit /\ n.upto = m.upto
  BY <1>2 DEF Remembers, Idle, Fresh
<1>4. Keep(o, n)
  BY <1>1
<1> HIDE DEF n
<1>5. "hash" \in Points /\ ~Cleared("hash", n)
  BY DEF Points, Running, Cleared, Choosing
<1>6. Moves(o, "hash", n)
  BY <1>2, <1>4, <1>5, Moved
<1>7. Fits("hash", n, db, spent[o], unread[o])
  <2>1. InHand("hash", n)
    BY <1>2, <1>3 DEF Fits, InHand, Routed, Running, Unreturned, Returned, Choosing
  <2>2. Counted("hash", n, spent[o], unread[o])
    BY <1>2, <1>3 DEF Fits, Counted, Finished
  <2>3. QED
    BY <1>2, <1>3, <1>5, <2>1, <2>2 DEF Fits, Undenied
<1>8. QED
  BY <1>2, <1>3, <1>6, <1>7, ReadingStep

LEMMA HashKeeps ==
  ASSUME IInv, NEW o \in Launchers, Hash(o) \/ Rehash(o)
  PROVE  IInv'
<1>1. /\ UNCHANGED db /\ UNCHANGED Outside /\ calls' \in 0 .. MaxCalls
      /\ Remembers(mem[o]) /\ Fits(pc[o], mem[o], db, spent[o], unread[o])
  BY IInvFacts DEF Hash, Rehash, LaunchInv
<1>2. CASE Hash(o)
  <2>1. pc[o] = "hash" /\ Goto(o, "running") /\ \E x : Keep(o, [mem[o] EXCEPT !.before = x])
    BY <1>2 DEF Hash
  <2>2. /\ pc[o] \in Running /\ pc[o] \in Unreturned /\ "running" \in Running
        /\ "running" \notin Returned /\ \A m : ~Cleared("running", m)
    BY <2>1 DEF Running, Unreturned, Returned, Cleared, Choosing
  <2>3. QED
    BY <1>1, <2>1, <2>2, RemembersMore, InSessionOn
<1>3. CASE Rehash(o)
  <2>1. pc[o] = "rehash" /\ Goto(o, "count") /\ \E x : Keep(o, [mem[o] EXCEPT !.edited = x])
    BY <1>3 DEF Rehash
  <2>2. /\ pc[o] \in Running /\ "count" \in Running /\ "count" \notin Unreturned
        /\ mem[o].exit # "none" /\ \A m : ~Cleared("count", m)
    BY <1>1, <2>1 DEF Fits, InHand, Running, Unreturned, Returned, Cleared, Choosing
  <2>3. \A x : [mem[o] EXCEPT !.edited = x].exit = mem[o].exit
    BY RemembersMore, <1>1 DEF Continues
  <2>4. QED
    BY <1>1, <2>1, <2>2, <2>3, RemembersMore, InSessionOn
<1>4. QED
  BY <1>2, <1>3

\* What an agent costs is within what is left of its run's budget.
LEMMA BudgetLeft ==
  ASSUME NEW m, m.cost \in Nat
  PROVE  m.mode = "run" /\ MaxCost > 0 /\ m.cost <= MaxCost =>
           BudgetOf(m) \in Nat /\ m.cost + BudgetOf(m) <= MaxCost
<1>1. MaxCost \in Nat /\ StepBudget \in Nat
  BY OrchestratorAssumption
<1>2. QED
  BY <1>1 DEF BudgetOf

LEMMA AgentExitsKeeps ==
  ASSUME IInv, NEW o \in Launchers, AgentExits(o)
  PROVE  IInv'
<1> DEFINE m == mem[o]
<1>1. /\ pc[o] = "running" /\ Goto(o, "rehash") /\ UNCHANGED <<db, tree, stopFile, calls>>
      /\ Remembers(m) /\ Fits(pc[o], m, db, spent[o], unread[o]) /\ o \in Procs /\ o \notin Others
      /\ spent \in [Launchers -> Nat] /\ unread \in [Launchers -> Nat] /\ Len(db.events) \in Nat
      /\ Sound(db) /\ m.session \in 0 .. Len(db.sessions) /\ calls' \in 0 .. MaxCalls /\ TreesOk
  BY IInvFacts, NothingElse DEF AgentExits, LaunchInv
<1>2. PICK how \in Outcomes, cost \in 0 .. BudgetOf(m) : \E counted \in {0, cost} :
        /\ Keep(o, [m EXCEPT !.exit = how, !.cost = @ + counted, !.upto = Len(db.events)])
        /\ spent' = [spent EXCEPT ![o] = @ + cost]
        /\ unread' = [unread EXCEPT ![o] = IF how = "ok" THEN @ + (cost - counted) ELSE @]
  BY DEF AgentExits
<1>3. PICK counted \in {0, cost} :
        /\ Keep(o, [m EXCEPT !.exit = how, !.cost = @ + counted, !.upto = Len(db.events)])
        /\ spent' = [spent EXCEPT ![o] = @ + cost]
        /\ unread' = [unread EXCEPT ![o] = IF how = "ok" THEN @ + (cost - counted) ELSE @]
  BY <1>2
<1> DEFINE n == [m EXCEPT !.exit = how, !.cost = @ + counted, !.upto = Len(db.events)]
           hidden == IF how = "ok" THEN unread[o] + (cost - counted) ELSE unread[o]
<1>4. m.cost \in Nat /\ spent[o] \in Nat /\ unread[o] \in Nat /\ MaxCost \in Nat /\ StepBudget \in Nat
  BY <1>1, OrchestratorAssumption DEF Remembers
<1>5. m.mode = "run" /\ MaxCost > 0 =>
        spent[o] = m.cost + unread[o] /\ m.cost <= MaxCost
  BY <1>1 DEF Fits, Counted, InHand, Unreturned, Finished
<1>6. cost \in Nat /\ counted \in Nat /\ counted <= cost
      /\ (m.mode = "run" /\ MaxCost > 0 => m.cost + cost <= MaxCost)
  <2>1. CASE m.mode = "run" /\ MaxCost > 0
    <3>1. BudgetOf(m) \in Nat /\ m.cost + BudgetOf(m) <= MaxCost
      BY <1>4, <1>5, <2>1, BudgetLeft
    <3>2. QED
      BY <1>4, <3>1
  <2>2. CASE ~(m.mode = "run" /\ MaxCost > 0)
    BY <1>4, <2>2 DEF BudgetOf
  <2>3. QED
    BY <2>1, <2>2
<1>7. hidden \in Nat /\ (how # "ok" => hidden = unread[o])
      /\ (how = "ok" => hidden = unread[o] + (cost - counted))
  BY <1>4, <1>6
<1>8. /\ Remembers(n) /\ n.mode = m.mode /\ n.session = m.session /\ n.route = m.route
      /\ n.exit = how /\ n.cost = m.cost + counted /\ n.upto = Len(db.events)
  <2>1. m.cost + counted \in Nat
    BY <1>4, <1>6
  <2>2. QED
    BY <1>1, <2>1 DEF Remembers, Idle, Fresh
<1>9. Keep(o, n)
  BY <1>3
<1> HIDE DEF n
<1>10. /\ spent' \in [Launchers -> Nat] /\ unread' \in [Launchers -> Nat]
      /\ spent'[o] = spent[o] + cost /\ unread'[o] = hidden
      /\ \A q \in Launchers \ {o} : spent'[q] = spent[q] /\ unread'[q] = unread[q]
  <2>1. spent[o] + cost \in Nat
    BY <1>4, <1>6
  <2>2. unread' = [unread EXCEPT ![o] = hidden]
    BY <1>1, <1>3
  <2> HIDE DEF hidden
  <2>3. QED
    BY <1>1, <1>3, <1>7, <2>1, <2>2
<1> HIDE DEF hidden
<1>11. Pays(o)
  BY <1>10 DEF Pays
<1>12. "rehash" \in Points /\ ~Cleared("rehash", n)
  BY DEF Points, Running, Cleared, Choosing
<1>13. Moves(o, "rehash", n)
  BY <1>1, <1>9, <1>12, Moved
<1>14. Fits("rehash", n, db, spent[o] + cost, hidden)
  <2>1. InHand("rehash", n)
    <3>1. how # "none"
      BY DEF Outcomes
    <3>2. QED
      BY <1>1, <1>8, <3>1 DEF Fits, InHand, Routed, Running, Unreturned, Returned, Choosing
  <2>2. Counted("rehash", n, spent[o] + cost, hidden)
    <3> SUFFICES ASSUME m.mode = "run", MaxCost > 0
                 PROVE  /\ spent[o] + cost <= MaxCost + hidden /\ n.cost <= MaxCost
                        /\ n.exit \in {"none", "ok"} => spent[o] + cost = n.cost + hidden
      BY <1>8 DEF Counted
    <3>1. how \in {"none", "ok"} => how = "ok"
      BY DEF Outcomes
    <3>2. n.cost <= MaxCost /\ spent[o] + cost <= MaxCost + hidden
      <4>1. unread[o] <= hidden
        BY <1>4, <1>6, <1>7
      <4>2. spent[o] = m.cost + unread[o] /\ m.cost + cost <= MaxCost /\ n.cost = m.cost + counted
        BY <1>5, <1>6, <1>8
      <4>3. QED
        BY <1>4, <1>6, <1>7, <4>1, <4>2
    <3>3. how = "ok" => spent[o] + cost = n.cost + hidden
      BY <1>4, <1>5, <1>6, <1>7, <1>8
    <3>4. QED
      BY <1>8, <3>1, <3>2, <3>3
  <2>3. QED
    BY <1>1, <1>8, <1>12, <2>1, <2>2 DEF Fits, Undenied
<1>15. db' = db
  BY <1>1
<1>16. Fits("rehash", n, db', spent'[o], unread'[o])
  BY <1>10, <1>14, <1>15
<1>17. Sound(db') /\ KeepsSessions(db, db', {}) /\ KeepsEvents(db, db')
  BY <1>1, <1>15, SameDatabase
<1>18. n.session \in 0 .. Len(db'.sessions)
  BY <1>1, <1>8, <1>15
<1>19. QED
  BY <1>1, <1>8, <1>11, <1>13, <1>16, <1>17, <1>18, StepOf

LEMMA CountKeeps ==
  ASSUME IInv, NEW o \in Launchers, Count(o)
  PROVE  IInv'
<1> DEFINE m == mem[o]
           denials == DenialsAfter(db, m.session, m.last)
           counted == [m EXCEPT !.denials = Cardinality(denials)]
           uncounted == [m EXCEPT !.denials = 0, !.missed = @ \union {"count"}]
<1>1. /\ pc[o] = "count" /\ Goto(o, "end") /\ UNCHANGED db /\ UNCHANGED Outside
      /\ calls' \in 0 .. MaxCalls /\ Remembers(m) /\ Fits(pc[o], m, db, spent[o], unread[o])
      /\ o \in Procs /\ db \in Databases
  BY CallsCount, IInvFacts DEF Count, LaunchInv
<1>2. IsFiniteSet(denials) /\ Cardinality(denials) \in Nat
  <2>1. DOMAIN db.events = 1 .. Len(db.events) /\ Len(db.events) \in Int /\ 1 \in Int
    BY <1>1 DEF Databases
  <2>2. denials \subseteq DOMAIN db.events
    BY DEF DenialsAfter
  <2>3. IsFiniteSet(1 .. Len(db.events))
    BY <2>1, FS_Interval
  <2> HIDE DEF denials
  <2>4. IsFiniteSet(denials)
    BY <2>1, <2>2, <2>3, FS_Subset
  <2>5. QED
    BY <2>4, FS_CardinalityType
<1>3. PICK n \in {counted, uncounted} : Keep(o, n)
  BY DEF Count
<1>4. /\ Remembers(n) /\ n.mode = m.mode /\ n.session = m.session /\ n.cost = m.cost
      /\ n.route = m.route /\ n.exit = m.exit /\ n.last = m.last /\ n.upto = m.upto
      /\ n.denials = Cardinality(denials) \/ "count" \in n.missed
  <2> HIDE DEF denials
  <2>1. CASE n = counted
    BY <1>1, <1>2, <2>1 DEF Remembers, Idle, Fresh
  <2>2. CASE n = uncounted
    BY <1>1, <2>2 DEF Remembers, Idle, Fresh
  <2>3. QED
    BY <2>1, <2>2
<1>5. DeniedInStep(db, n) = {} \/ "count" \in n.missed \/ n.denials # 0
  <2> SUFFICES ASSUME n.denials = 0, n.denials = Cardinality(denials) PROVE DeniedInStep(db, n) = {}
    BY <1>4
  <2>1. denials = {}
    <3> HIDE DEF denials
    <3>1. QED
      BY <1>2, FS_EmptySet
  <2>2. QED
    BY <1>4, <2>1 DEF DeniedInStep
<1>6. "end" \in Points
  BY DEF Points, Running
<1>7. Moves(o, "end", n)
  BY <1>1, <1>3, <1>6, Moved
<1>8. Fits("end", n, db, spent[o], unread[o])
  <2>1. InHand("end", n)
    BY <1>1, <1>4 DEF Fits, InHand, Routed, Running, Unreturned, Returned, Choosing
  <2>2. Counted("end", n, spent[o], unread[o])
    BY <1>1, <1>4 DEF Fits, Counted, Finished
  <2>3. Undenied("end", n, db)
    BY <1>5 DEF Undenied, Cleared, Choosing
  <2>4. QED
    BY <1>1, <1>4, <2>1, <2>2, <2>3 DEF Fits
<1>9. QED
  BY <1>1, <1>4, <1>7, <1>8, ReadingStep

LEMMA UnclosedContinues ==
  ASSUME NEW m, Remembers(m)
  PROVE  Remembers(Unclosed(m)) /\ Continues(m, Unclosed(m))
BY DEF Unclosed, Remembers, Continues, Idle, Fresh

\* Once endSession is over, whatever it did.
LEMMA AfterEndKeeps ==
  ASSUME IInv, NEW o \in Launchers, pc[o] \in {"end", "close"}, NEW m, Remembers(m),
         Continues(mem[o], m), AfterEnd(o, m), UNCHANGED Outside, calls' \in 0 .. MaxCalls,
         NEW Closed, Sound(db'), KeepsSessions(db, db', Closed), KeepsEvents(db, db')
  PROVE  IInv'
<1> DEFINE v == IF m.mode \in OneShot THEN "credit" ELSE "log"
<1>1. /\ Fits(pc[o], mem[o], db, spent[o], unread[o]) /\ o \in Procs
      /\ TreesOk /\ UNCHANGED <<spent, unread>> /\ m.session = mem[o].session
  BY IInvFacts, NothingElse DEF LaunchInv, Continues
<1>2. CASE m.exit = "none"
  <2>1. Ended(o, m, "error")
    BY <1>2 DEF AfterEnd
  <2>2. "ended" # "new" /\ "ended" \in Finished /\ ~Cleared("ended", m) /\ InHand("ended", m)
    BY DEF Finished, Cleared, Choosing, InHand, Routed, Running, Unreturned, Returned
  <2>3. Fits("ended", m, db, spent[o], unread[o])
    BY <1>1, <2>2, FitsOn
  <2>4. QED
    BY <1>1, <2>1, <2>3, EndedWriting
<1>3. CASE m.exit # "none"
  <2>1. Goto(o, v) /\ Keep(o, m)
    BY <1>3 DEF AfterEnd
  <2>2. /\ v \in Points /\ v # "new" /\ pc[o] \notin Finished
        /\ (Cleared(v, m) => Cleared(pc[o], mem[o]))
    BY <1>3 DEF Points, Running, Finished, Cleared, Choosing, Continues
  <2>3. InHand(v, m)
    BY <1>1, <1>3 DEF Fits, InHand, Routed, Running, Unreturned, Returned, Choosing, Continues
  <2> HIDE DEF v
  <2>4. Moves(o, v, m)
    BY <1>1, <2>1, <2>2, Moved
  <2>5. Fits(v, m, db, spent[o], unread[o])
    BY <1>1, <2>2, <2>3, FitsOn
  <2>6. QED
    BY <1>1, <2>4, <2>5, LaunchStep
<1>4. QED
  BY <1>2, <1>3

LEMMA EndSessionKeeps ==
  ASSUME IInv, NEW o \in Launchers, EndSession(o)
  PROVE  IInv'
<1>1. /\ pc[o] = "end" /\ UNCHANGED db /\ UNCHANGED Outside /\ calls' \in 0 .. MaxCalls
      /\ Remembers(mem[o]) /\ Fits(pc[o], mem[o], db, spent[o], unread[o])
  BY CallsCount, IInvFacts DEF EndSession, LaunchInv
<1>2. Sound(db') /\ KeepsSessions(db, db', {}) /\ KeepsEvents(db, db')
  BY <1>1, SameDatabase, IInvFacts
<1>3. CASE Goto(o, "close") /\ UNCHANGED mem
  <2>1. /\ "close" \in Running /\ pc[o] \notin Finished
        /\ (Cleared("close", mem[o]) => Cleared(pc[o], mem[o]))
    BY <1>1 DEF Running, Finished, Cleared, Choosing
  <2>2. InHand("close", mem[o])
    BY <1>1 DEF Fits, InHand, Routed, Running, Unreturned, Returned, Choosing
  <2>3. QED
    BY <1>1, <1>3, <2>1, <2>2, Onward
<1>4. CASE AfterEnd(o, mem[o])
  BY <1>1, <1>2, <1>4, ContinuesSame, AfterEndKeeps
<1>5. CASE AfterEnd(o, Unclosed(mem[o]))
  BY <1>1, <1>2, <1>5, UnclosedContinues, AfterEndKeeps
<1>6. QED
  BY <1>3, <1>4, <1>5 DEF EndSession

LEMMA EndLaunchedSessionKeeps ==
  ASSUME IInv, NEW o \in Launchers, EndLaunchedSession(o)
  PROVE  IInv' /\ KeepsSessions(db, db', {mem[o].session})
<1> DEFINE id == mem[o].session
<1>1. /\ pc[o] = "close" /\ UNCHANGED Outside /\ calls' \in 0 .. MaxCalls
      /\ Remembers(mem[o]) /\ Sound(db) /\ id \in DOMAIN db.sessions
  <2>1. /\ pc[o] = "close" /\ Fits(pc[o], mem[o], db, spent[o], unread[o])
        /\ id \in 0 .. Len(db.sessions) /\ DOMAIN db.sessions = 1 .. Len(db.sessions)
        /\ Len(db.sessions) \in Nat
    BY IInvFacts DEF EndLaunchedSession, LaunchInv
  <2>2. id # 0
    BY <2>1 DEF Fits, InHand, Running
  <2>3. QED
    BY <2>1, <2>2, CallsCount, IInvFacts DEF EndLaunchedSession
<1>2. CASE db' = FinishSession(db, id) /\ AfterEnd(o, mem[o])
  <2>1. Sound(db') /\ KeepsSessions(db, db', {id}) /\ KeepsEvents(db, db')
    BY <1>1, <1>2, FinishSessionKeeps
  <2>2. QED
    BY <1>1, <1>2, <2>1, ContinuesSame, AfterEndKeeps
<1>3. CASE UNCHANGED db /\ AfterEnd(o, Unclosed(mem[o]))
  <2>1. Sound(db') /\ KeepsSessions(db, db', {}) /\ KeepsEvents(db, db')
    BY <1>1, <1>3, SameDatabase
  <2>2. KeepsSessions(db, db', {id})
    BY <2>1 DEF KeepsSessions
  <2>3. QED
    BY <1>1, <1>3, <2>1, <2>2, UnclosedContinues, AfterEndKeeps
<1>4. QED
  BY <1>2, <1>3 DEF EndLaunchedSession

LEMMA FindCreditKeeps ==
  ASSUME IInv, NEW o \in Launchers, FindCredit(o)
  PROVE  IInv'
<1>1. /\ pc[o] = "credit" /\ Goto(o, "log") /\ UNCHANGED db /\ UNCHANGED Outside
      /\ calls' \in 0 .. MaxCalls
      /\ Remembers(mem[o]) /\ Fits(pc[o], mem[o], db, spent[o], unread[o])
  BY CallsCount, IInvFacts DEF FindCredit, LaunchInv
<1>2. PICK id, note, cites :
        Keep(o, [mem[o] EXCEPT !.credit = id, !.note = note, !.cites = cites])
  BY DEF FindCredit
<1> DEFINE n == [mem[o] EXCEPT !.credit = id, !.note = note, !.cites = cites]
<1>3. Remembers(n) /\ Continues(mem[o], n)
  BY <1>1 DEF Remembers, Continues, Idle, Fresh
<1>4. Keep(o, n)
  BY <1>2
<1> HIDE DEF n
<1>5. /\ pc[o] \in Running /\ "log" \in Running /\ "log" \notin Unreturned
      /\ n.exit # "none" /\ (Cleared("log", n) => Cleared(pc[o], mem[o]))
  BY <1>1, <1>3 DEF Fits, InHand, Running, Unreturned, Returned, Cleared, Choosing, Continues
<1>6. QED
  BY <1>1, <1>3, <1>4, <1>5, InSessionOn

\* A step is gone on from only when its agent ended by itself, undenied.
LEMMA JudgedNone ==
  ASSUME NEW m, Remembers(m), m.exit # "none", NEW unchanged, JudgeStep(m, unchanged) = "none"
  PROVE  m.exit = "ok" /\ m.denials = 0
<1>1. m.exit \notin {"unstartable", "failed", "timeout"} /\ ~(m.denials > 0)
  BY DEF JudgeStep
<1>2. QED
  BY <1>1 DEF Remembers, Outcomes

LEMMA JudgeKeeps ==
  ASSUME IInv, NEW o \in Launchers, Judge(o)
  PROVE  IInv'
<1> DEFINE m == mem[o]
<1>1. /\ pc[o] = "judge" /\ UNCHANGED db /\ UNCHANGED Outside /\ calls' \in 0 .. MaxCalls
      /\ Remembers(m) /\ Fits(pc[o], m, db, spent[o], unread[o]) /\ pc[o] \in Running
  BY CallsCount, IInvFacts DEF Judge, LaunchInv, Running
<1>2. m.exit # "none"
  BY <1>1 DEF Fits, InHand, Returned
<1>3. Ended(o, m, "error") \/ \E unchanged : Judged(o, JudgeStep(m, unchanged))
  BY DEF Judge
<1>4. CASE \E why : Ended(o, m, why)
  BY <1>1, <1>4, EndedKeeps
<1>5. CASE Goto(o, "note") /\ \E x : Keep(o, [m EXCEPT !.stop = x])
  <2>1. /\ "note" \notin Unreturned /\ "note" \notin Returned /\ "note" # "chain"
        /\ \A n : ~Cleared("note", n)
    BY DEF Unreturned, Returned, Cleared, Choosing
  <2>2. QED
    BY <1>1, <1>5, <2>1, RemembersMore, InSessionOn
<1>6. ASSUME NEW unchanged, JudgeStep(m, unchanged) = "none", Goto(o, "chain"), UNCHANGED mem
      PROVE  IInv'
  <2>1. m.exit = "ok" /\ m.denials = 0
    BY <1>1, <1>2, <1>6, JudgedNone
  <2>2. InHand("chain", m)
    BY <1>1, <2>1 DEF Fits, InHand, Routed, Running, Unreturned, Returned
  <2>3. Cleared(pc[o], m) /\ pc[o] \notin Finished
    BY <1>1, <2>1 DEF Cleared, Finished
  <2>4. QED
    BY <1>1, <1>6, <2>2, <2>3, Onward
<1>7. QED
  BY <1>3, <1>4, <1>5, <1>6 DEF Judged

LEMMA ReportKeeps ==
  ASSUME IInv, NEW o \in Launchers, Report(o)
  PROVE  IInv'
<1> DEFINE m == mem[o]
<1>1. /\ pc[o] = "judge" /\ UNCHANGED db /\ UNCHANGED Outside /\ calls' \in 0 .. MaxCalls
      /\ Remembers(m) /\ pc[o] \in Running
  BY IInvFacts DEF Report, Running
<1>2. CASE \E why : Ended(o, m, why)
  BY <1>1, <1>2, EndedKeeps
<1>3. CASE Goto(o, "note") /\ \E x : Keep(o, [m EXCEPT !.stop = x])
  <2>1. /\ "note" \notin Unreturned /\ "note" \notin Returned /\ "note" # "chain"
        /\ \A n : ~Cleared("note", n)
    BY DEF Unreturned, Returned, Cleared, Choosing
  <2>2. QED
    BY <1>1, <1>3, <2>1, RemembersMore, InSessionOn
<1>4. QED
  BY <1>2, <1>3 DEF Report

\* Rows of the other tables are added without a word in the trail.
LEMMA AddNoteKeeps ==
  ASSUME NEW d, Sound(d), NEW o \in Launchers
  PROVE  /\ Sound(AddNote(d, o)) /\ KeepsSessions(d, AddNote(d, o), {})
         /\ KeepsEvents(d, AddNote(d, o))
<1>1. d \in Databases /\ d.notes \in Seq(Launchers) /\ Append(d.notes, o) \in Seq(Launchers)
  BY Appended DEF Sound, Databases
<1>2. /\ AddNote(d, o).sessions = d.sessions /\ AddNote(d, o).events = d.events
      /\ AddNote(d, o).tasks = d.tasks
  BY <1>1 DEF AddNote, Databases
<1>3. AddNote(d, o) \in Databases
  BY <1>1 DEF AddNote, Databases
<1>4. QED
  BY <1>2, <1>3, SoundCarries DEF Sound

LEMMA NoteKeeps ==
  ASSUME IInv, NEW o \in Launchers, Note(o)
  PROVE  IInv' /\ KeepsSessions(db, db', {})
<1>1. /\ pc[o] = "note" /\ Ended(o, mem[o], mem[o].stop) /\ UNCHANGED Outside
      /\ calls' \in 0 .. MaxCalls
      /\ Sound(db) /\ Remembers(mem[o]) /\ Fits(pc[o], mem[o], db, spent[o], unread[o])
      /\ mem[o].session \in 0 .. Len(db.sessions)
  BY CallsCount, IInvFacts DEF Note, LaunchInv
<1>2. Sound(db') /\ KeepsSessions(db, db', {}) /\ KeepsEvents(db, db')
  <2>1. CASE db' = AddNote(db, o)
    BY <1>1, <2>1, AddNoteKeeps
  <2>2. CASE db' = LogEvent(db, "orchestrator", mem[o].session)
    BY <1>1, <2>2, LogEventKeeps
  <2>3. CASE UNCHANGED db
    BY <1>1, <2>3, SameDatabase
  <2>4. QED
    BY <2>1, <2>2, <2>3 DEF Note
<1>3. QED
  BY <1>1, <1>2, EndedWriting

LEMMA ChainKeeps ==
  ASSUME IInv, NEW o \in Launchers, Chain(o)
  PROVE  IInv'
<1>1. /\ pc[o] = "chain" /\ UNCHANGED db /\ UNCHANGED Outside /\ calls' \in 0 .. MaxCalls
      /\ Fits(pc[o], mem[o], db, spent[o], unread[o])
  BY CallsCount, IInvFacts DEF Chain, LaunchInv
<1>2. CASE Ended(o, mem[o], "review_point")
  BY <1>1, <1>2, EndedKeeps
<1>3. CASE Goto(o, "choose") /\ UNCHANGED mem
  <2>1. "choose" \in Choosing /\ pc[o] \notin Finished /\ Cleared(pc[o], mem[o])
    BY <1>1 DEF Choosing, Finished, Cleared
  <2>2. InHand("choose", mem[o])
    BY <1>1 DEF Fits, InHand, Routed, Running, Unreturned, Returned
  <2>3. QED
    BY <1>1, <1>3, <2>1, <2>2, Onward
<1>4. QED
  BY <1>2, <1>3 DEF Chain

LEMMA InterruptKeeps ==
  ASSUME IInv, NEW o \in Launchers, Interrupt(o)
  PROVE  IInv'
<1> DEFINE n == [mem[o] EXCEPT !.interrupted = TRUE]
<1>1. /\ UNCHANGED <<db, pc, Outside>> /\ Keep(o, n) /\ pc[o] \notin {"new", "ended", "dead"}
      /\ Remembers(mem[o]) /\ Fits(pc[o], mem[o], db, spent[o], unread[o]) /\ o \in Procs
      /\ pc[o] \in Points
  BY IInvFacts DEF Interrupt, LaunchInv
<1>2. calls' \in 0 .. MaxCalls
  <2>1. calls \in 0 .. MaxCalls /\ MaxCalls \in Nat
    BY IInvFacts, OrchestratorAssumption
  <2>2. QED
    BY <2>1 DEF Interrupt
<1>3. Remembers(n) /\ Continues(mem[o], n)
  BY <1>1, RemembersMore
<1> HIDE DEF n
<1>4. Moves(o, pc[o], n)
  BY <1>1, Moved
<1>5. InHand(pc[o], n) /\ pc[o] \notin Finished /\ (Cleared(pc[o], n) => Cleared(pc[o], mem[o]))
  BY <1>1, <1>3 DEF Fits, InHand, Continues, Finished, Cleared
<1>6. QED
  BY <1>1, <1>2, <1>3, <1>4, <1>5, GoingOn

LEMMA KillKeeps ==
  ASSUME IInv, NEW o \in Launchers, Kill(o)
  PROVE  IInv'
<1> DEFINE n == Over(mem[o], "dead")
<1>1. /\ UNCHANGED <<db, calls, Outside>> /\ Goto(o, "dead") /\ Keep(o, n)
      /\ Remembers(mem[o]) /\ Fits(pc[o], mem[o], db, spent[o], unread[o]) /\ o \in Procs
      /\ db \in Databases /\ spent[o] \in Nat /\ unread[o] \in Nat /\ calls' \in 0 .. MaxCalls
  BY IInvFacts DEF Kill, LaunchInv
<1>2. "dead" \in Finished /\ "dead" \in Points
  BY DEF Finished, Points
<1>3. Remembers(n) /\ n.session = mem[o].session /\ Fits("dead", n, db, spent[o], unread[o])
  BY <1>1, <1>2, OverFits
<1> HIDE DEF n
<1>4. Moves(o, "dead", n)
  BY <1>1, <1>2, Moved
<1>5. QED
  BY <1>1, <1>3, <1>4, ReadingStep

-----------------------------------------------------------------------------
(* The steps of an agent.                                                  *)

LEMMA ActedKeeps ==
  ASSUME IInv, NEW o \in Launchers, Act(o), TreesOk,
         Sound(db'), KeepsSessions(db, db', {}), KeepsEvents(db, db')
  PROVE  IInv'
<1> DEFINE m == mem[o]
           n == [m EXCEPT !.acts = m.acts + 1]
<1>1. /\ pc[o] = "running" /\ UNCHANGED <<spent, unread>> /\ calls' \in 0 .. MaxCalls
      /\ UNCHANGED pc /\ Remembers(m) /\ Fits(pc[o], m, db, spent[o], unread[o])
      /\ o \in Procs /\ DOMAIN mem = Procs
  BY IInvFacts DEF Act, LaunchInv
<1>2. Keep(o, n)
  <2>1. "acts" \in DOMAIN m
    BY <1>1 DEF Remembers, Idle, Fresh
  <2>2. QED
    BY <1>1, <2>1 DEF Act, Keep
<1>3. Remembers(n) /\ Continues(m, n)
  BY <1>1 DEF Remembers, Continues, Idle, Fresh
<1> HIDE DEF n
<1>4. Moves(o, pc[o], n)
  BY <1>1, <1>2, Moved
<1>5. InHand(pc[o], n) /\ pc[o] \notin Finished /\ pc[o] # "new" /\ ~Cleared(pc[o], n)
  BY <1>1, <1>3 DEF Fits, InHand, Continues, Finished, Cleared, Choosing
<1>6. Fits(pc[o], n, db, spent[o], unread[o])
  BY <1>1, <1>3, <1>5, FitsOn
<1>7. n.session = m.session
  BY <1>3 DEF Continues
<1>8. QED
  BY <1>1, <1>3, <1>4, <1>6, <1>7, LaunchStep

LEMMA AgentTask ==
  ASSUME IInv, NEW o \in Launchers, pc[o] = "running", NEW actions, OnTask(o, actions)
  PROVE  mem[o].route.task \in Tasks /\ db.tasks[mem[o].route.task] \in TaskRow
<1>1. mem[o].route.task \in Tasks
  BY IInvFacts DEF LaunchInv, Fits, InHand, Routed, Running, OnTask
<1>2. QED
  BY <1>1, IInvFacts DEF Databases

LEMMA AgentKeeps ==
  ASSUME IInv, NEW o \in Launchers, Agent(o)
  PROVE  IInv' /\ KeepsSessions(db, db', {})
<1> DEFINE t == mem[o].route.task
           row == db.tasks[t]
<1>1. /\ Sound(db) /\ db \in Databases /\ KeepsSessions(db, db, {}) /\ KeepsEvents(db, db)
      /\ tree \in [Projects \union {NoProject} -> Trees \union {UnknownTree}]
  BY IInvFacts, SameDatabase
<1>2. ASSUME Act(o), UNCHANGED tree,
             Sound(db'), KeepsSessions(db, db', {}), KeepsEvents(db, db')
      PROVE  IInv' /\ KeepsSessions(db, db', {})
  BY <1>2, NothingElse, ActedKeeps
<1>3. CASE AgentDefines(o)
  <2>1. Act(o) /\ pc[o] = "running" /\ UNCHANGED tree
    BY <1>3 DEF AgentDefines, Act
  <2>2. t \in Tasks /\ row \in TaskRow
    BY <1>3, <2>1, AgentTask DEF AgentDefines
  <2>3. Defined(row) \in TaskRow /\ Defined(row).open <= Defined(row).criteria
    <3>1. row.open <= row.criteria /\ row.open \in Nat /\ row.criteria \in Nat
      BY <1>1, <2>2 DEF Sound, TaskRow
    <3> HIDE DEF row
    <3>2. Defined(row).open = row.open + 1 /\ Defined(row).criteria = row.criteria + 1
      BY <2>2 DEF Defined, TaskRow
    <3>3. row.open + 1 \in Nat /\ row.criteria + 1 \in Nat /\ row.open + 1 <= row.criteria + 1
      BY <3>1
    <3>4. Defined(row) \in TaskRow
      BY <2>2, <3>3 DEF Defined, TaskRow
    <3>5. QED
      BY <3>2, <3>3, <3>4
  <2>4. db' = [db EXCEPT !.tasks[t] = Defined(row)]
    BY <1>1, <1>3, <2>2 DEF AgentDefines, Databases
  <2>5. Sound(db') /\ KeepsSessions(db, db', {}) /\ KeepsEvents(db, db')
    BY <1>1, <2>2, <2>3, <2>4, RowReplaced
  <2>6. QED
    BY <1>2, <2>1, <2>5
<1>4. CASE AgentChecks(o)
  <2>1. Act(o) /\ pc[o] = "running" /\ UNCHANGED tree
    BY <1>4 DEF AgentChecks, Act
  <2>2. t \in Tasks /\ row \in TaskRow
    BY <1>4, <2>1, AgentTask DEF AgentChecks
  <2>3. PICK status \in {"pass", "fail"}, detail \in Details :
          db' = [db EXCEPT !.tasks[t].checks =
                   Append(db.tasks[t].checks,
                          [kind |-> "test", status |-> status, source |-> "runner",
                           by |-> "agent", tree |-> NoTree, detail |-> detail])]
    BY <1>1, <1>4, <2>2 DEF AgentChecks, Databases, TaskRow
  <2> DEFINE c == [kind |-> "test", status |-> status, source |-> "runner",
                   by |-> "agent", tree |-> NoTree, detail |-> detail]
             new == [row EXCEPT !.checks = Append(row.checks, c)]
  <2>4. new \in TaskRow /\ new.open <= new.criteria
    <3>1. c \in Checks /\ row.checks \in Seq(Checks)
      BY <2>2 DEF Checks, CheckKinds, CheckStatuses, CheckSources, ActorTypes, TaskRow
    <3> HIDE DEF c
    <3>2. Append(row.checks, c) \in Seq(Checks)
      BY <3>1, Appended
    <3>3. row.open <= row.criteria
      BY <1>1, <2>2 DEF Sound
    <3>4. QED
      BY <2>2, <3>2, <3>3 DEF TaskRow
  <2>5. db' = [db EXCEPT !.tasks[t] = new]
    BY <1>1, <2>2, <2>3 DEF Databases
  <2> HIDE DEF new
  <2>6. Sound(db') /\ KeepsSessions(db, db', {}) /\ KeepsEvents(db, db')
    BY <1>1, <2>2, <2>4, <2>5, RowReplaced
  <2>7. QED
    BY <1>2, <2>1, <2>6
<1>5. CASE AgentEdits(o)
  <2>1. Act(o) /\ UNCHANGED db /\ TreesOk
    BY <1>1, <1>5 DEF AgentEdits, TreesOk
  <2>2. QED
    BY <1>1, <2>1, ActedKeeps
<1>6. CASE AgentDenied(o)
  <2> DEFINE s == CurrentSession(db.sessions, DirOf(o, mem[o]))
  <2>1. Act(o) /\ UNCHANGED tree /\ db' = LogEvent(db, "guard_denied", s)
    BY <1>6 DEF AgentDenied
  <2>2. s \in 0 .. Len(db.sessions)
    BY <1>1, CurrentSessionIsThere DEF Databases
  <2> HIDE DEF s
  <2>3. Sound(db') /\ KeepsSessions(db, db', {}) /\ KeepsEvents(db, db')
    BY <1>1, <2>1, <2>2, LogEventKeeps
  <2>4. QED
    BY <1>2, <2>1, <2>3
<1>7. CASE AgentSubmits(o)
  <2>1. Act(o) /\ pc[o] = "running" /\ UNCHANGED tree
    BY <1>7 DEF AgentSubmits, Act
  <2>2. /\ db' \in Databases /\ db'.tasks = db.tasks
        /\ db'.sessions = db.sessions /\ db'.events = db.events
    <3>1. CASE db' = AddPlan(db, mem[o].target)
      <4>1. Append(db.plans, [spec |-> mem[o].target, status |-> "draft"])
              \in Seq([spec : Nat, status : {"draft", "approved", "rejected"}])
        <5>1. mem[o].target \in Nat
          BY IInvFacts DEF Remembers
        <5>2. QED
          BY <1>1, <5>1, Appended DEF Databases
      <4>2. QED
        BY <1>1, <3>1, <4>1 DEF AddPlan, Databases
    <3>2. CASE db' = [db EXCEPT !.specs = Append(db.specs, [status |-> "draft"])]
      <4>1. Append(db.specs, [status |-> "draft"]) \in Seq([status : {"approved", "draft"}])
        BY <1>1, Appended DEF Databases
      <4>2. QED
        BY <1>1, <3>2, <4>1 DEF Databases
    <3>3. ASSUME NEW cited \in BOOLEAN,
                 db' = [db EXCEPT !.decisions = Append(db.decisions, [cited |-> cited])]
          PROVE  /\ db' \in Databases /\ db'.tasks = db.tasks
                 /\ db'.sessions = db.sessions /\ db'.events = db.events
      <4>1. Append(db.decisions, [cited |-> cited]) \in Seq([cited : BOOLEAN])
        BY <1>1, Appended DEF Databases
      <4>2. QED
        BY <1>1, <3>3, <4>1 DEF Databases
    <3>4. CASE db' = AddNote(db, o)
      <4>1. Append(db.notes, o) \in Seq(Launchers)
        BY <1>1, Appended DEF Databases
      <4>2. QED
        BY <1>1, <3>4, <4>1 DEF AddNote, Databases
    <3>5. QED
      BY <1>1, <1>7, <3>1, <3>2, <3>3, <3>4 DEF AgentSubmits, Databases
  <2>3. Sound(db') /\ KeepsSessions(db, db', {}) /\ KeepsEvents(db, db')
    BY <1>1, <2>2, SoundCarries DEF Sound
  <2>4. QED
    BY <1>2, <2>1, <2>3
<1>8. QED
  BY <1>3, <1>4, <1>5, <1>6, <1>7 DEF Agent
-----------------------------------------------------------------------------
(* The steps of the others.                                                *)

\* What the process that closes a session was allowed outlasts what others do.
LEMMA AllowedStill ==
  ASSUME IInv, NEW p \in Others, NEW Closed, KeepsSessions(db, db', Closed), Sound(db'),
         UNCHANGED <<pc, mem>>
  PROVE  Allowed(p)' /\ mem[p].session \in 0 .. Len(db'.sessions)
<1>1. /\ Allowed(p) /\ mem[p].session \in 0 .. Len(db.sessions)
      /\ DOMAIN db.sessions = 1 .. Len(db.sessions) /\ Len(db.sessions) \in Nat
  BY IInvFacts
<1>2. Len(db'.sessions) \in Nat /\ Len(db.sessions) <= Len(db'.sessions)
  BY DEF KeepsSessions, Sound, Databases
<1>3. pc[p] = "ending" => mem[p].session \in DOMAIN db.sessions
  BY <1>1 DEF Allowed
<1>4. QED
  BY <1>1, <1>2, <1>3 DEF Allowed, MayEnd, KeepsSessions

LEMMA OtherStep ==
  ASSUME IInv, NEW p \in Others, Sound(db'), KeepsSessions(db, db', {}), KeepsEvents(db, db'),
         UNCHANGED <<tree, pc, mem, spent, unread>>, calls' \in 0 .. MaxCalls
  PROVE  IInv'
<1>1. /\ p \in Procs /\ p \notin Launchers /\ Remembers(mem[p]) /\ TreesOk /\ Pays(p)
  BY IInvFacts, NothingElse
<1>2. Moves(p, pc[p], mem[p])
  BY <1>1, Moved
<1>3. Allowed(p)' /\ mem[p].session \in 0 .. Len(db'.sessions)
  BY AllowedStill
<1>4. QED
  BY <1>1, <1>2, <1>3, StepOf

LEMMA StartSessionKeeps ==
  ASSUME IInv, NEW p \in Others, StartSession(p)
  PROVE  IInv' /\ KeepsSessions(db, db', {})
<1>1. /\ Command(p, "start") /\ UNCHANGED <<tree, pc, mem, spent, unread>>
      /\ Sound(db) /\ db.tasks \in [Tasks -> TaskRow]
  BY IInvFacts DEF StartSession, Outside, Databases
<1>2. PICK role \in {"none", "read_only"}, restrictive \in BOOLEAN,
           next \in {<<>>, NextTask(db.tasks, db.links, Scope(p))} :
        LET task    == IF next = <<>> THEN NoTask ELSE next[1].task
            project == IF task # NoTask /\ db.tasks[task].project # NoProject
                       THEN db.tasks[task].project ELSE Here[p]
        IN  /\ MayBegin(db, project, task)
            /\ db' = BeginSession(db, project, task, role, restrictive)
  BY DEF StartSession
<1> DEFINE task    == IF next = <<>> THEN NoTask ELSE next[1].task
           project == IF task # NoTask /\ db.tasks[task].project # NoProject
                      THEN db.tasks[task].project ELSE Here[p]
<1>3. task \in Tasks \union {NoTask}
  BY <1>1, NextTaskIsThere
<1>4. project \in Projects \union {NoProject}
  <2>1. Here[p] \in Projects \union {NoProject}
    BY OrchestratorAssumption
  <2> HIDE DEF task
  <2>2. task # NoTask => db.tasks[task].project \in Projects \union {NoProject}
    BY <1>1, <1>3 DEF TaskRow
  <2>3. QED
    BY <2>1, <2>2
<1>5. role \in SessionRoles
  BY DEF SessionRoles
<1>6. MayBegin(db, project, task) /\ db' = BeginSession(db, project, task, role, restrictive)
  BY <1>2
<1> HIDE DEF project, task
<1>7. Sound(db') /\ KeepsSessions(db, db', {}) /\ KeepsEvents(db, db')
  BY <1>1, <1>3, <1>4, <1>5, <1>6, BeginSessionKeeps
<1>8. QED
  BY <1>1, <1>7, CallsCount, OtherStep

LEMMA ReadSessionKeeps ==
  ASSUME IInv, NEW p \in Others, ReadSession(p)
  PROVE  IInv' /\ KeepsSessions(db, db', {})
<1> DEFINE id == CurrentSession(db.sessions, Here[p])
           n == [mem[p] EXCEPT !.session = id]
<1>1. /\ UNCHANGED db /\ UNCHANGED Outside /\ calls' \in 0 .. MaxCalls
      /\ id # 0 /\ MayEnd(p, db.sessions[id]) /\ Goto(p, "ending") /\ Keep(p, n)
  BY CallsCount DEF ReadSession
<1>2. /\ Sound(db) /\ Remembers(mem[p]) /\ p \in Procs /\ p \notin Launchers
      /\ TreesOk /\ Pays(p)
  BY <1>1, IInvFacts, NothingElse
<1>3. id \in 0 .. Len(db.sessions)
  BY IInvFacts, CurrentSessionIsThere DEF Databases
<1> HIDE DEF id
<1>4. Remembers(n) /\ n.session = id
  BY <1>2 DEF Remembers, Idle, Fresh
<1> HIDE DEF n
<1>5. "ending" \in Points
  BY DEF Points
<1>6. Moves(p, "ending", n)
  BY <1>1, <1>2, <1>5, Moved
<1>7. Allowed(p)'
  BY <1>1, <1>4, <1>6 DEF Allowed, Moves
<1>8. Sound(db') /\ KeepsSessions(db, db', {}) /\ KeepsEvents(db, db')
  BY <1>1, <1>2, SameDatabase
<1>9. n.session \in 0 .. Len(db'.sessions)
  BY <1>1, <1>3, <1>4
<1>10. QED
  BY <1>1, <1>2, <1>4, <1>6, <1>7, <1>8, <1>9, StepOf

LEMMA CloseSessionKeeps ==
  ASSUME IInv, NEW p \in Others, CloseSession(p)
  PROVE  IInv' /\ KeepsSessions(db, db', {mem[p].session})
<1> DEFINE id == mem[p].session
<1>1. /\ pc[p] = "ending" /\ UNCHANGED Outside /\ UNCHANGED calls /\ db' = FinishSession(db, id)
      /\ Goto(p, "idle") /\ Keep(p, Idle)
  BY DEF CloseSession, Ending
<1>2. /\ Sound(db) /\ p \in Procs /\ p \notin Launchers /\ TreesOk /\ Pays(p)
      /\ calls' \in 0 .. MaxCalls
  BY <1>1, IInvFacts, NothingElse
<1>3. id \in DOMAIN db.sessions
  BY <1>1, IInvFacts DEF Allowed
<1>4. Sound(db') /\ KeepsSessions(db, db', {id}) /\ KeepsEvents(db, db')
  BY <1>1, <1>2, <1>3, FinishSessionKeeps
<1>5. Remembers(Idle) /\ Idle.session = 0
  BY DEF Remembers, Idle, Fresh
<1>6. "idle" \in Points
  BY DEF Points
<1>7. Moves(p, "idle", Idle)
  BY <1>1, <1>2, <1>6, Moved
<1>8. Allowed(p)'
  BY <1>7 DEF Allowed, Moves
<1>9. 0 \in 0 .. Len(db'.sessions)
  BY <1>4 DEF Sound, Databases
<1>10. QED
  BY <1>2, <1>4, <1>5, <1>7, <1>8, <1>9, StepOf

LEMMA SetStatusKeeps ==
  ASSUME IInv, NEW p \in Others, SetStatus(p)
  PROVE  IInv' /\ KeepsSessions(db, db', {})
<1>1. PICK t \in Tasks, status \in {"todo", "blocked", "done"} :
        db' = [db EXCEPT !.tasks[t].status = status]
  BY DEF SetStatus
<1>2. /\ UNCHANGED <<tree, pc, mem, spent, unread>> /\ calls' \in 0 .. MaxCalls
      /\ Sound(db) /\ db \in Databases /\ db.tasks[t] \in TaskRow
  BY IInvFacts, CallsCount DEF SetStatus, Outside, Databases
<1> DEFINE row == [db.tasks[t] EXCEPT !.status = status]
<1>3. row \in TaskRow /\ row.open = db.tasks[t].open /\ row.criteria = db.tasks[t].criteria
  BY <1>2 DEF TaskRow, TaskStatuses
<1>4. db' = [db EXCEPT !.tasks[t] = row]
  BY <1>1, <1>2 DEF Databases
<1>5. row.open <= row.criteria
  BY <1>2, <1>3 DEF Sound
<1> HIDE DEF row
<1>6. Sound(db') /\ KeepsSessions(db, db', {}) /\ KeepsEvents(db, db')
  BY <1>2, <1>3, <1>4, <1>5, RowReplaced
<1>7. QED
  BY <1>2, <1>6, OtherStep

LEMMA ApproveKeeps ==
  ASSUME IInv, NEW p \in Others, Approve(p)
  PROVE  IInv' /\ KeepsSessions(db, db', {})
<1>1. /\ UNCHANGED <<tree, pc, mem, spent, unread>> /\ calls' \in 0 .. MaxCalls
      /\ Sound(db) /\ db \in Databases /\ db.tasks \in [Tasks -> TaskRow]
  BY IInvFacts, CallsCount DEF Approve, Outside, Databases
<1>2. PICK t \in Tasks, role \in {"none", "approver"} :
        db' = [db EXCEPT !.tasks[t].approvals =
                 Append(db.tasks[t].approvals, [kind |-> "code_review", decision |-> "approved",
                                                role |-> role, tree |-> NoTree])]
  BY <1>1 DEF Approve, Outside, AwaitingApproval, Databases, TaskRow
<1> DEFINE a == [kind |-> "code_review", decision |-> "approved", role |-> role, tree |-> NoTree]
           row == [db.tasks[t] EXCEPT !.approvals = Append(db.tasks[t].approvals, a)]
<1>3. db' = [db EXCEPT !.tasks[t] = row]
  BY <1>1, <1>2 DEF Databases
<1>4. row \in TaskRow /\ row.open = db.tasks[t].open /\ row.criteria = db.tasks[t].criteria
  <2>1. a \in ApprovalRecords({}) /\ db.tasks[t].approvals \in Seq(ApprovalRecords({}))
    BY <1>1 DEF ApprovalRecords, TaskRow
  <2> HIDE DEF a
  <2>2. Append(db.tasks[t].approvals, a) \in Seq(ApprovalRecords({}))
    BY <2>1, Appended
  <2>3. QED
    BY <1>1, <2>2 DEF TaskRow
<1>5. row.open <= row.criteria
  BY <1>1, <1>4 DEF Sound
<1> HIDE DEF row
<1>6. Sound(db') /\ KeepsSessions(db, db', {}) /\ KeepsEvents(db, db')
  BY <1>1, <1>3, <1>4, <1>5, RowReplaced
<1>7. QED
  BY <1>1, <1>6, OtherStep

LEMMA DecidePlanKeeps ==
  ASSUME IInv, NEW p \in Others, DecidePlan(p)
  PROVE  IInv' /\ KeepsSessions(db, db', {})
<1> DEFINE Row == [spec : Nat, status : {"draft", "approved", "rejected"}]
<1>1. /\ UNCHANGED <<tree, pc, mem, spent, unread>> /\ calls' \in 0 .. MaxCalls
      /\ Sound(db) /\ db \in Databases /\ db.plans \in Seq(Row)
  BY IInvFacts, CallsCount DEF DecidePlan, Outside, Databases
<1>2. PICK i \in DOMAIN db.plans, to \in {"approved", "rejected"} :
        db' = [db EXCEPT !.plans[i].status = to]
  BY DEF DecidePlan
<1> DEFINE plans == [db.plans EXCEPT ![i].status = to]
<1>3. plans \in Seq(Row)
  <2>1. db.plans[i] \in Row
    <3> HIDE DEF Row
    <3>1. QED
      BY <1>1, RowOf
  <2>2. [db.plans[i] EXCEPT !.status = to] \in Row
    BY <2>1
  <2> HIDE DEF Row
  <2>3. QED
    BY <1>1, <2>2
<1>4. db' = [db EXCEPT !.plans = plans]
  BY <1>1, <1>2 DEF Databases
<1> HIDE DEF plans
<1>5. /\ db' \in Databases /\ db'.tasks = db.tasks
      /\ db'.sessions = db.sessions /\ db'.events = db.events
  BY <1>1, <1>3, <1>4 DEF Databases
<1>6. Sound(db') /\ KeepsSessions(db, db', {}) /\ KeepsEvents(db, db')
  BY <1>1, <1>5, SoundCarries DEF Sound
<1>7. QED
  BY <1>1, <1>6, OtherStep

LEMMA OtherDeniedKeeps ==
  ASSUME IInv, NEW p \in Others, OtherDenied(p)
  PROVE  IInv' /\ KeepsSessions(db, db', {})
<1> DEFINE s == CurrentSession(db.sessions, Here[p])
<1>1. /\ UNCHANGED <<tree, pc, mem, spent, unread>> /\ calls' \in 0 .. MaxCalls
      /\ Sound(db) /\ db' = LogEvent(db, "guard_denied", s)
  BY IInvFacts, CallsCount DEF OtherDenied, Outside
<1>2. s \in 0 .. Len(db.sessions)
  BY IInvFacts, CurrentSessionIsThere DEF Databases
<1> HIDE DEF s
<1>3. Sound(db') /\ KeepsSessions(db, db', {}) /\ KeepsEvents(db, db')
  BY <1>1, <1>2, LogEventKeeps
<1>4. QED
  BY <1>1, <1>3, OtherStep

LEMMA StopFileKeeps ==
  ASSUME IInv, NEW p \in Others, StopFile(p)
  PROVE  IInv' /\ KeepsSessions(db, db', {})
<1>1. /\ UNCHANGED <<db, tree, pc, mem, spent, unread>> /\ calls' \in 0 .. MaxCalls
      /\ Sound(db) /\ KeepsSessions(db, db, {}) /\ KeepsEvents(db, db)
  BY IInvFacts, SameDatabase, CallsCount DEF StopFile
<1>2. QED
  BY <1>1, OtherStep

-----------------------------------------------------------------------------
(* The theorems.                                                           *)

LEMMA InitKeeps == Init => IInv
<1> SUFFICES ASSUME Init PROVE IInv
  OBVIOUS
<1>1. PICK rows \in TaskRows :
        db = [tasks |-> rows, links |-> {}, sessions |-> <<>>, events |-> <<>>,
              specs |-> <<[status |-> "approved"]>>, plans |-> <<>>,
              decisions |-> <<>>, notes |-> <<>>]
  BY DEF Init
<1>2. /\ tree = [d \in Projects \union {NoProject} |-> CHOOSE t \in Trees : TRUE]
      /\ pc = [p \in Procs |-> IF p \in Launchers THEN "new" ELSE "idle"]
      /\ mem = [p \in Procs |-> Idle]
      /\ spent = [o \in Launchers |-> 0] /\ unread = [o \in Launchers |-> 0] /\ calls = 0
  BY DEF Init
<1>3. /\ Remembers(Idle) /\ Idle.session = 0 /\ Idle.mode = "none" /\ Idle.upto = 0
  BY DEF Remembers, Idle, Fresh
<1>4. /\ db.tasks \in [Tasks -> TaskRow]
      /\ \A t \in Tasks : db.tasks[t].open <= db.tasks[t].criteria
      /\ db.sessions = <<>> /\ db.events = <<>>
  BY <1>1, OrchestratorAssumption
<1>5. db \in Databases
  BY <1>1, <1>4 DEF Databases
<1>6. TypeOK
  <2>1. tree \in [Projects \union {NoProject} -> Trees \union {UnknownTree}]
    BY <1>2, OrchestratorAssumption
  <2>2. calls \in 0 .. MaxCalls
    BY <1>2, OrchestratorAssumption
  <2>3. \A p \in Procs : mem[p].session \in 0 .. Len(db.sessions)
    BY <1>2, <1>3, <1>4
  <2>4. pc \in [Procs -> Points]
    BY <1>2 DEF Points
  <2>5. QED
    BY <1>2, <1>4, <1>5, <2>1, <2>2, <2>3, <2>4 DEF TypeOK
<1>7. Scoped(db) /\ Trail(db)
  BY <1>4 DEF Scoped, Trail, OpenSessions
<1>8. (DOMAIN mem = Procs) /\ \A p \in Procs : Remembers(mem[p])
  BY <1>2, <1>3
<1>9. ASSUME NEW o \in Launchers PROVE LaunchInv(o)
  <2>1. pc[o] = "new" /\ mem[o] = Idle /\ spent[o] = 0 /\ unread[o] = 0 /\ Len(db.events) = 0
    BY <1>2, <1>4 DEF Procs
  <2>2. InHand("new", Idle) /\ ~Cleared("new", Idle)
    BY DEF InHand, Cleared, Routed, Running, Unreturned, Returned, Choosing
  <2>3. Counted("new", Idle, 0, 0)
    BY <1>3 DEF Counted
  <2>4. QED
    BY <1>3, <2>1, <2>2, <2>3 DEF LaunchInv, Fits, Undenied
<1>10. ASSUME NEW p \in Others PROVE Allowed(p)
  <2>1. pc[p] # "ending"
    BY <1>2 DEF Procs
  <2>2. QED
    BY <2>1 DEF Allowed
<1>11. QED
  BY <1>6, <1>7, <1>8, <1>9, <1>10 DEF IInv

\* Every step keeps the invariant, and only two kinds of step close a session.
LEMMA NextKeeps ==
  ASSUME IInv, [Next]_vars
  PROVE  /\ IInv'
         /\ \/ KeepsSessions(db, db', {})
            \/ \E o \in Launchers :
                 EndLaunchedSession(o) /\ KeepsSessions(db, db', {mem[o].session})
            \/ \E p \in Others : CloseSession(p) /\ KeepsSessions(db, db', {mem[p].session})
<1>1. Sound(db) /\ KeepsSessions(db, db, {})
  BY IInvFacts, SameDatabase
<1>2. CASE UNCHANGED vars
  <2>1. UNCHANGED <<db, tree, pc, mem, spent, unread, calls>>
    BY <1>2 DEF vars
  <2>2. TypeOK' /\ Scoped(db)' /\ Trail(db)'
    BY <2>1 DEF IInv, TypeOK
  <2>3. \A o \in Launchers : LaunchInv(o)'
    BY <2>1 DEF IInv, LaunchInv
  <2>4. \A p \in Others : Allowed(p)'
    BY <2>1 DEF IInv, Allowed
  <2>5. QED
    BY <1>1, <2>1, <2>2, <2>3, <2>4 DEF IInv
<1>3. ASSUME NEW o \in Launchers,
             \/ Launch(o) \/ Choose(o) \/ Consider(o) \/ Look(o) \/ Vacant(o) \/ Prepare(o)
             \/ Baseline(o) \/ Mark(o) \/ Hash(o) \/ AgentExits(o) \/ Rehash(o) \/ Count(o)
             \/ EndSession(o) \/ FindCredit(o) \/ Judge(o) \/ Report(o) \/ Chain(o)
             \/ Interrupt(o) \/ Kill(o)
      PROVE  IInv' /\ KeepsSessions(db, db', {})
  <2>1. UNCHANGED db
    BY <1>3 DEF Launch, Choose, Consider, Look, Vacant, Prepare, Baseline, Mark, Hash,
       AgentExits, Rehash, Count, EndSession, FindCredit, Judge, Report, Chain, Interrupt, Kill
  <2>2. IInv'
    BY <1>3, LaunchKeeps, ChooseKeeps, ChoosingKeeps, BaselineKeeps, MarkKeeps, HashKeeps,
       AgentExitsKeeps, CountKeeps, EndSessionKeeps, FindCreditKeeps, JudgeKeeps, ReportKeeps,
       ChainKeeps, InterruptKeeps, KillKeeps
  <2>3. QED
    BY <1>1, <2>1, <2>2
<1>4. ASSUME NEW o \in Launchers,
             Begin(o) \/ Launched(o) \/ LogFinish(o) \/ Note(o) \/ Agent(o)
      PROVE  IInv' /\ KeepsSessions(db, db', {})
  BY <1>4, BeginKeeps, LogKeeps, NoteKeeps, AgentKeeps
<1>5. ASSUME NEW o \in Launchers, EndLaunchedSession(o)
      PROVE  IInv' /\ KeepsSessions(db, db', {mem[o].session})
  BY <1>5, EndLaunchedSessionKeeps
<1>6. ASSUME NEW p \in Others,
             StartSession(p) \/ ReadSession(p) \/ SetStatus(p) \/ Approve(p) \/ DecidePlan(p)
               \/ OtherDenied(p) \/ StopFile(p)
      PROVE  IInv' /\ KeepsSessions(db, db', {})
  BY <1>6, StartSessionKeeps, ReadSessionKeeps, SetStatusKeeps, ApproveKeeps,
     DecidePlanKeeps, OtherDeniedKeeps, StopFileKeeps
<1>7. ASSUME NEW p \in Others, CloseSession(p)
      PROVE  IInv' /\ KeepsSessions(db, db', {mem[p].session})
  BY <1>7, CloseSessionKeeps
<1>8. CASE Next
  <2>1. ASSUME NEW o \in Launchers, Orchestrate(o)
        PROVE  \/ Choose(o) \/ Consider(o) \/ Look(o) \/ Vacant(o) \/ Prepare(o) \/ Begin(o)
               \/ Launched(o) \/ Baseline(o) \/ Mark(o) \/ Hash(o) \/ AgentExits(o) \/ Rehash(o)
               \/ Count(o) \/ EndSession(o) \/ EndLaunchedSession(o) \/ FindCredit(o)
               \/ LogFinish(o) \/ Judge(o) \/ Report(o) \/ Note(o) \/ Chain(o)
    BY <2>1 DEF Orchestrate, Run, Plan, DraftSpec, Research, InSession
  <2>2. CASE \E o \in Launchers : Launch(o) \/ Orchestrate(o) \/ Agent(o) \/ Interrupt(o) \/ Kill(o)
    BY <1>3, <1>4, <1>5, <2>1, <2>2
  <2>3. CASE \E p \in Others : Other(p)
    BY <1>6, <1>7, <2>3 DEF Other
  <2>4. QED
    BY <1>8, <2>2, <2>3 DEF Next
<1>9. QED
  BY <1>2, <1>8

\* The invariant is one of the orchestrator whatever the fairness.
LEMMA Invariance == Spec => []IInv
<1>1. IInv /\ [Next]_vars => IInv'
  BY NextKeeps
<1>2. QED
  BY InitKeeps, <1>1, PTL DEF Spec

\* However starts, steps and ends interleave, two open sessions never apply to
\* one directory, and the trail has one start of every session and one end of
\* each that is over (BeginSession, insertSession, finishSession).
THEOREM SessionsStayInOrder == Spec => []SessionsInOrder
<1>1. IInv => SessionsInOrder
  <2> SUFFICES ASSUME IInv PROVE SessionsInOrder
    OBVIOUS
  <2>1. TypeOK /\ Scoped(db) /\ Trail(db)
    BY DEF IInv
  <2>2. OneSessionPerScope
    BY <2>1 DEF OneSessionPerScope, Scoped
  <2>3. ASSUME NEW id \in DOMAIN db.sessions
        PROVE  /\ Cardinality(Told(db, "session_started", id)) = 1
               /\ Cardinality(Told(db, "session_ended", id)) =
                    IF db.sessions[id].open THEN 0 ELSE 1
    <3>1. PICK i : Told(db, "session_started", id) = {i}
      BY <2>1, <2>3 DEF Trail
    <3>2. CASE db.sessions[id].open
      BY <2>1, <2>3, <3>1, <3>2, FS_Singleton, FS_EmptySet DEF Trail
    <3>3. CASE ~db.sessions[id].open
      <4>1. PICK j : Told(db, "session_ended", id) = {j}
        BY <2>1, <2>3, <3>3 DEF Trail
      <4>2. QED
        BY <3>1, <3>3, <4>1, FS_Singleton
    <3>4. QED
      BY <3>2, <3>3
  <2>4. SessionsInTheTrail
    BY <2>3 DEF SessionsInTheTrail, Told
  <2>5. QED
    BY <2>1, <2>2, <2>4 DEF SessionsInOrder
<1>2. QED
  BY <1>1, Invariance, PTL

\* A run never spends more than it may, counting the agents that failed or were
\* killed, save for what an agent that exited 0 did not report; and it launches
\* nothing more once a step of it was denied something before its agent
\* returned, unless the count failed (Run, parseReport, judgeStep).
THEOREM RunsStayWithinLimits == Spec => []RunsKeepTheirLimits
<1>1. IInv => RunsKeepTheirLimits
  BY DEF IInv, LaunchInv, Fits, Counted, Undenied, Cleared, RunsKeepTheirLimits, SpendCapHolds,
     DenialStopsTheRun
<1>2. QED
  BY <1>1, Invariance, PTL

\* A session is closed only by the launcher that began it, as its step ends, or by
\* a process that could end it when it read it and still can: one of those that
\* present the token, persons or agents (endSession, newSessionEndCmd).
THEOREM SessionsConfineUntilAllowed == Spec => ConfinedUntilAllowed
<1> DEFINE Closes(id) ==
      \/ \E o \in Launchers : pc[o] = "close" /\ pc'[o] # "close" /\ mem[o].session = id
      \/ \E p \in Others : pc[p] = "ending" /\ pc'[p] = "idle" /\ MayEnd(p, db.sessions[id])
           Confined ==
      \A id \in DOMAIN db.sessions :
        db.sessions[id].open /\ ~db'.sessions[id].open => Closes(id)
<1>1. IInv /\ [Next]_vars => [Confined]_vars
  <2> SUFFICES ASSUME IInv, [Next]_vars, NEW id \in DOMAIN db.sessions,
                      db.sessions[id].open, ~db'.sessions[id].open
               PROVE  Closes(id)
    OBVIOUS
  <2>1. ~KeepsSessions(db, db', {})
    BY DEF KeepsSessions
  <2>2. CASE \E o \in Launchers :
               EndLaunchedSession(o) /\ KeepsSessions(db, db', {mem[o].session})
    <3>1. PICK o \in Launchers :
            EndLaunchedSession(o) /\ KeepsSessions(db, db', {mem[o].session})
      BY <2>2
    <3>2. mem[o].session = id
      BY <3>1 DEF KeepsSessions
    <3>3. pc[o] = "close" /\ pc'[o] # "close"
      BY <3>1, IInvFacts DEF EndLaunchedSession, AfterEnd, Ended, Goto
    <3>4. QED
      BY <3>2, <3>3
  <2>3. CASE \E p \in Others : CloseSession(p) /\ KeepsSessions(db, db', {mem[p].session})
    <3>1. PICK p \in Others : CloseSession(p) /\ KeepsSessions(db, db', {mem[p].session})
      BY <2>3
    <3>2. mem[p].session = id
      BY <3>1 DEF KeepsSessions
    <3>3. pc[p] = "ending" /\ pc'[p] = "idle"
      BY <3>1, IInvFacts DEF CloseSession, Goto
    <3>4. MayEnd(p, db.sessions[id])
      BY <3>2, <3>3, IInvFacts DEF Allowed
    <3>5. QED
      BY <3>3, <3>4
  <2>4. QED
    BY <2>1, <2>2, <2>3, NextKeeps
<1>2. QED
  BY <1>1, Invariance, PTL DEF Spec, ConfinedUntilAllowed

=============================================================================
