----------------------------- MODULE MCTaskBoard -----------------------------
(* TaskBoard on small instances: an agent and a person.                      *)
EXTENDS TaskBoard, TLC

CONSTANTS agent, person

MCProcs    == {agent, person}
MCAgents   == {agent}
MCDeciders == {person}

\* A home directory with a checkout in it, and a link to the checkout.
Root     == <<>>
HomeDir  == <<"home">>
Checkout == <<"home", "app">>
Inner    == <<"home", "app", "sub">>
Link     == <<"link">>
Linked   == <<"link", "sub">>

MCDirs == {Root, HomeDir, Checkout, Inner, Link, Linked}
MCReal == [d \in MCDirs |-> CASE d = Link -> Checkout [] d = Linked -> Inner [] OTHER -> d]

\* Two projects, the second registered when auto could still be a default; and
\* the checkout beside a project without a path.
Defaults == <<[name |-> "a", path |-> {Checkout}, default |-> "hitl"],
              [name |-> "b", path |-> {}, default |-> "auto"]>>
Tracked  == <<[name |-> "a", path |-> {Inner}, default |-> "hotl"],
              [name |-> "b", path |-> {}, default |-> "hotl"]>>

Family(commands, statuses, levels, dirs, rows, count, max) ==
  [commands |-> commands, statuses |-> statuses, levels |-> levels, dirs |-> dirs,
   projects |-> rows, tasks |-> count, max |-> max]

\* What is added and updated; what is linked; what is measured and promoted;
\* what directories mean while projects are registered, and while marked.
MCFamilies ==
  {Family({"add", "update"}, {"in_progress"}, Autonomies, {}, Defaults, 0, 2),
   Family({"update", "defer"}, {"in_progress", "cancelled"}, Autonomies, {}, Defaults, 1, 3),
   Family({"milestone"}, {}, {}, {}, Defaults, 0, 2),
   Family({"link"}, {}, {}, {}, Defaults, 3, 3),
   Family({"eval", "promote"}, {}, {"hitl", "auto"}, {}, Defaults, 2, 3),
   Family({"add", "promote", "eval"}, {}, {"auto"}, {}, Defaults, 0, 3),
   Family({"register", "add"}, {}, {}, {Root, Checkout, Inner, Link, Linked}, <<>>, 0, 3),
   Family({"use", "mark", "add"}, {}, {}, {HomeDir, Checkout, Inner, Linked}, Tracked, 0, 3)}
=============================================================================
