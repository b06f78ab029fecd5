------------------------------ MODULE MCRecords ------------------------------
(* Records on small instances: an agent and a person.   *)
EXTENDS Records, TLC

CONSTANTS agent, person

MCProcs    == {agent, person}
MCAgents   == {agent}
MCDeciders == {person}

\* What is decided and shown; what is learned and shown; what fails; what is
\* promoted; what is depended on.
MCFamilies ==
  {[commands |-> {"decision", "accept", "reject", "supersede", "deprecate"}, max |-> 4],
   [commands |-> {"decision", "accept", "reject", "memory", "review", "forget", "export"}, max |-> 4],
   [commands |-> {"memory", "review", "touch"}, max |-> 4],
   [commands |-> {"fail", "review"}, max |-> 5],
   [commands |-> {"note", "promote"}, max |-> 4],
   [commands |-> {"dependency", "verify"}, max |-> 4]}
=============================================================================
