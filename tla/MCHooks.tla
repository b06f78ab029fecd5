------------------------------- MODULE MCHooks -------------------------------
(* Hooks on small instances: two windows of one project.                    *)
EXTENDS Hooks, TLC

CONSTANTS w1, w2

MCWindows == {w1, w2}

Call(tool, command, path, glob, subagent) ==
  [tool |-> tool, command |-> command, path |-> path, glob |-> glob, subagent |-> subagent,
   named |-> "none"]

Says(does, quoted) == [NoCommand EXCEPT !.does = does, !.quoted = quoted]
File(asked, real, place) == [asked |-> asked, real |-> real, place |-> place]

\* Every command not deeply nested and every path, with no session; deeper, a
\* saying of each sort of table.
Sorts == {"dangerous", "environment code", "store program", "removal", "actor type"}

EveryCall ==
  {Call("Bash", c, NoFile, NoGlob, "none") :
     c \in Commands(0 .. 2) \union {d \in Commands(0 .. 6) : d.does \in Sorts}}
    \union {Call(t, NoCommand, p, g, "none") : t \in FileTools, p \in Paths, g \in Globs}
    \union {Call("Bash", c, NoFile, NoGlob, "read_only") : c \in Commands(0 .. 2)}

\* The calls that policies and roles tell apart.
SomeCalls ==
  {Call("Bash", Says("file redirect", FALSE), NoFile, NoGlob, "none"),
   Call("Bash", Says("session switch", FALSE), NoFile, NoGlob, "none"),
   Call("Bash", Says("routine", FALSE), NoFile, NoGlob, "none"),
   Call("Edit", NoCommand, File("ordinary", "ordinary", "inside"), NoGlob, "none"),
   Call("Read", NoCommand, File("ordinary", "settings", "inside"), NoGlob, "none"),
   Call("Read", NoCommand, File("settings", "ordinary", "inside"), NoGlob, "read_only"),
   Call("WebFetch", NoCommand, NoFile, NoGlob, "none")}
    \union {[Call("Bash", Says("file writer", FALSE), NoFile, NoGlob, "none") EXCEPT !.named = r] :
              r \in NamedRoles}

TriedPolicies ==
  {NoPolicy, [NoPolicy EXCEPT !.denyTools = {"WebFetch"}], [NoPolicy EXCEPT !.denyPaths = {"settings"}],
   [NoPolicy EXCEPT !.allowPaths = {"ordinary"}]}

Row(policy, role, task) ==
  [project |-> Here, role |-> role, policy |-> policy, task |-> task, open |-> TRUE]

Free == Row(NoPolicy, "none", 1)

Family(moves, windows, calls, begun, max) ==
  [moves |-> moves, windows |-> windows, calls |-> calls, sessions |-> begun, max |-> max]

\* What is judged; under which session; what is captured; when a turn is held.
MCFamilies ==
  <<Family({"call"}, {w1}, EveryCall, {}, 1),
    Family({"call", "begin", "end"}, {w1}, SomeCalls,
           {Row(p, "none", 0) : p \in TriedPolicies} \union {Row(NoPolicy, "read_only", 0)}, 4),
    Family({"say", "rewrite", "resume", "delete", "capture"}, {w1}, {}, {}, 6),
    Family({"say", "delete", "capture"}, {w1, w2}, {}, {}, 5),
    Family({"begin", "end", "check", "edit", "stop", "finish"}, {w1}, {}, {Free, [Free EXCEPT !.task = 0]}, 5)>>
=============================================================================
