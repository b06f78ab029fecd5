---------------------------- MODULE MCOrchestrator ----------------------------
(* Orchestrator on small instances: a launcher, a person with the token     *)
(* and an agent of its own, two projects with a task each.                  *)
EXTENDS Orchestrator

CONSTANTS o1, person, outsider

OneLauncher == {o1}
MCPeople    == {person}
MCOutsiders == {outsider}
NoOutsiders == {}

Row(project, autonomy, criteria) ==
  [status |-> "todo", deferred |-> FALSE, risk |-> "low", autonomy |-> autonomy,
   project |-> project, priority |-> 2, spec |-> "none", criteria |-> criteria,
   open |-> criteria, checks |-> <<>>, approvals |-> <<>>, roled |-> FALSE]

With(row, status) ==
  [row EXCEPT !.checks = <<[kind |-> "test", status |-> status, source |-> "runner",
                            by |-> "agent", tree |-> NoTree, detail |-> "d1"]>>]

\* A task no agent has begun next to one of another project, tested and waiting
\* for a person in a role of that project.
MCRows == {<<Row("A", "auto", 0), [With(Row("B", "hitl", 1), "pass") EXCEPT !.roled = TRUE]>>}

\* A task to define criteria for and begin, or one whose tests fail.
EndRows == {<<Row("A", "auto", 0), Row("B", "hotl", 1)>>,
            <<With(Row("A", "auto", 1), "fail"), Row("B", "hotl", 1)>>}

\* The other agent works where no project is registered.
MCHere == [p \in {o1, person, outsider} |-> IF p = outsider THEN NoProject ELSE "A"]
HomeHere == [p \in {o1, person} |-> "A"]
=============================================================================
