------------------------------- MODULE MCPlans -------------------------------
(* Plans on small instances: an agent and a person at two terminals.       *)
EXTENDS Plans, TLC

CONSTANTS agent, person, s1, s2, x, y, i1, i2, w1, w2

MCProcs     == {agent, person}
MCAgents    == {agent}
MCDeciders  == {person}
MCHolders   == {agent, person}
MCSpecIds   == {s1}
MCTwoSpecs  == {s1, s2}
MCText      == {x}
MCTexts     == {x, y}
MCRef       == {i1}
MCRefs      == {i1, i2}
MCWording   == {w1}
MCWordings  == {w1, w2}
MCSymmetry  == Permutations(MCRefs) \union Permutations(MCWordings)
=============================================================================
