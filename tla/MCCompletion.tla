---------------------------- MODULE MCCompletion ----------------------------
(* Completion on small instances: an agent and a person at two terminals.  *)
EXTENDS Completion, TLC

CONSTANTS agent, person, t1, t2

MCProcs    == {agent, person}
MCAgents   == {agent}
MCHolders  == {person}
MCTrees    == {t1, t2}
MCSymmetry == Permutations(MCTrees)

Scenario(agents, persons, max, mayFail, risks, kinds) ==
  [calls |-> [p \in MCProcs |-> IF p = agent THEN agents ELSE persons], max |-> max,
   mayFail |-> mayFail, risks |-> risks, kinds |-> kinds]

\* Completing against everything that moves the gate, with calls enough to use
\* up the attempts of one completion; who may vouch, while the token is switched
\* on and off, roles are added and the tree is edited; the runner's checks; and
\* a risk lowered and raised again while an agent completes.
Vouching == {"complete", "approve", "token", "status", "role", "edit"}
MCScenarios ==
  {Scenario({"complete", "type", "level"}, {"complete", "reject"}, 4, FALSE, {"low", "high"},
            {"test"}),
   Scenario({"level"}, {"complete", "type", "level"}, 3, FALSE, {"low", "high"}, {"test"}),
   Scenario(Vouching, Vouching \union {"type"}, 3, FALSE, {"low"}, {"human_review"}),
   Scenario({"run"}, {"complete", "approve", "edit", "adhoc"}, 2, TRUE, {"high"}, {"test"}),
   Scenario({"complete"}, {"type", "level"}, 4, FALSE, {"high"}, {"human_review"})}
=============================================================================
