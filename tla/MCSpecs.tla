------------------------------- MODULE MCSpecs -------------------------------
(* Specs on small instances: an agent and a person at two terminals.       *)
EXTENDS Specs, TLC

CONSTANTS agent, person, s1, s2, x, y

MCProcs    == {agent, person}
MCDeciders == {person}
MCOne      == {s1}
MCSpecIds  == {s1, s2}
MCTexts    == {x, y}
MCSymmetry == Permutations(MCTexts)
=============================================================================
