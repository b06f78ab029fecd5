------------------------------ MODULE MCShell ------------------------------
(***************************************************************************)
(* Shell for TLC: two tabs at a time, two items of the kinds those tabs   *)
(* list, with and without the approval token and typing ahead.            *)
(***************************************************************************)
EXTENDS Shell

Setup(tabs, kinds, token, ahead, acts, commits) ==
    [tabs |-> tabs, kinds |-> kinds, token |-> token, ahead |-> ahead,
     acts |-> acts, commits |-> commits]

SetupsValue ==
    {Setup(<<"tasks", "review">>, <<"task", "spec">>, FALSE, FALSE, {"approve"}, 1),
     Setup(<<"review", "tasks">>, <<"spec", "task">>, FALSE, TRUE, {"reject"}, 1),
     Setup(<<"tasks", "audit">>, <<"task", "task">>, FALSE, FALSE, {"check"}, 1),
     Setup(<<"tasks", "review">>, <<"task", "task">>, FALSE, TRUE, {"check"}, 0),
     Setup(<<"specs", "memory">>, <<"plan", "memory">>, TRUE, FALSE, {"reject", "edit"}, 1),
     Setup(<<"dashboard", "memory">>, <<"memory", "memory">>, TRUE, TRUE, {"approve"}, 1),
     Setup(<<"orchestrator", "audit">>, <<"task", "task">>, TRUE, FALSE, {"seal"}, 1),
     Setup(<<"audit", "orchestrator">>, <<"task", "task">>, FALSE, TRUE, {}, 0)}
=============================================================================
