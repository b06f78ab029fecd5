------------------------------- MODULE Links --------------------------------
(***************************************************************************)
(* Task links and prerequisites: internal/store/deps.go.  A link is a row  *)
(* of task_links; "depends_on" and "blocks" order two tasks, "related"     *)
(* orders nothing.                                                         *)
(***************************************************************************)
EXTENDS Integers, FiniteSets

Relations == {"depends_on", "blocks", "related"}

LinkRows(tasks) == [task : tasks, related : tasks, relation : Relations]

\* precedenceEdges: <<u, v>> when u must be done before v.
Precedes(links) ==
  {<<l.related, l.task>> : l \in {x \in links : x.relation = "depends_on"}}
    \union {<<l.task, l.related>> : l \in {x \in links : x.relation = "blocks"}}

\* The tasks that wait, directly or not, on `start`: the breadth-first search
\* of wouldCycle, as many rounds as there are tasks.
Waiting(links, start, tasks) ==
  LET edges == Precedes(links)
      reach[n \in 0 .. Cardinality(tasks)] ==
        IF n = 0 THEN {start}
        ELSE LET before == reach[n - 1]
             IN  before \union {e[2] : e \in {x \in edges : x[1] \in before}}
  IN  reach[Cardinality(tasks)]

\* Mutant: only a direct edge back is seen.
WouldCycle_Direct(links, first, then, tasks) == <<then, first>> \in Precedes(links)

WouldCycle(links, first, then, tasks) == first \in Waiting(links, then, tasks)

\* validateLink: what AddLink checks before it inserts.
ValidLink(links, l, tasks) ==
  /\ l.task # l.related
  /\ l.relation = "depends_on" => ~WouldCycle(links, l.related, l.task, tasks)
  /\ l.relation = "blocks"     => ~WouldCycle(links, l.task, l.related, tasks)

Prerequisites(links, t) ==
  {l.related : l \in {x \in links : x.task = t /\ x.relation = "depends_on"}}
    \union {l.task : l \in {x \in links : x.related = t /\ x.relation = "blocks"}}

\* A cancelled prerequisite is still open: only a done one is not.
OpenPrerequisites(rows, links, t) ==
  {u \in Prerequisites(links, t) \intersect DOMAIN rows : rows[u].status # "done"}

=============================================================================
