------------------------------ MODULE Sessions ------------------------------
(***************************************************************************)
(* Work sessions: internal/store/session.go.  Operators on the sessions    *)
(* table and the events that go with it; a session's id is its index, and  *)
(* an event's id is its index.                                             *)
(***************************************************************************)
EXTENDS Integers, Sequences, FiniteSets

\* project_id that is NULL, and a directory no project is registered for.
NoProject == "no project"
NoTask    == 0

\* role: all a session's rules tell of role_id.
SessionRoles == {"none", "editing", "read_only"}

SessionRows(tasks, projects) ==
  [project : projects \union {NoProject}, task : tasks \union {NoTask},
   role : SessionRoles, restrictive : BOOLEAN, open : BOOLEAN]

OpenSessions(sessions) == {i \in DOMAIN sessions : sessions[i].open}

Largest(ids) == CHOOSE i \in ids : \A j \in ids : j <= i

\* Mutant: an unscoped session conflicts only with unscoped ones.
Conflicts_SameScope(sessions, project) ==
  {i \in OpenSessions(sessions) : sessions[i].project = project}

\* The open sessions a new one for this project may not run beside.
Conflicts(sessions, project) ==
  {i \in OpenSessions(sessions) :
     \/ project = NoProject
     \/ sessions[i].project \in {project, NoProject}}

\* CurrentSession where the working directory resolves to `here`: that
\* project's own session before an unscoped one; anywhere else the newest.  0
\* stands for ErrNoActiveSession.
CurrentSession(sessions, here) ==
  LET own      == {i \in OpenSessions(sessions) : sessions[i].project = here}
      unscoped == {i \in OpenSessions(sessions) : sessions[i].project = NoProject}
      every    == OpenSessions(sessions)
      newest(ids) == IF ids = {} THEN 0 ELSE Largest(ids)
  IN  CASE here = NoProject -> newest(every)
        [] here # NoProject /\ own # {} -> newest(own)
        [] OTHER -> newest(unscoped)

\* insertSession: the row, and its session_started event.
InsertSession(db, project, task, role, restrictive) ==
  [db EXCEPT !.sessions = Append(@, [project |-> project, task |-> task, role |-> role,
                                     restrictive |-> restrictive, open |-> TRUE]),
             !.events = Append(@, [type |-> "session_started", session |-> Len(db.sessions) + 1])]

\* Mutant: closing is recorded whether or not this call closed it.
FinishSession_Always(db, id) ==
  [db EXCEPT !.sessions[id].open = FALSE,
             !.events = Append(@, [type |-> "session_ended", session |-> id])]

\* finishSession: the update closes an open row only, and the event is written
\* when it did.
FinishSession(db, id) ==
  IF db.sessions[id].open
  THEN [db EXCEPT !.sessions[id].open = FALSE,
                  !.events = Append(@, [type |-> "session_ended", session |-> id])]
  ELSE db

\* The events of a session after event `last`, of the types that stop a step.
DenialsAfter(db, id, last) ==
  {i \in DOMAIN db.events : /\ i > last
                            /\ db.events[i].session = id
                            /\ db.events[i].type \in {"policy_violation", "guard_denied"}}

=============================================================================
