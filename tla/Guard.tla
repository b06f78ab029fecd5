-------------------------------- MODULE Guard --------------------------------
(***************************************************************************)
(* What the guard makes of one tool call: internal/cmd/guard*.go and the   *)
(* session policy of internal/store/policy.go.                             *)
(*                                                                         *)
(* Pure operators.  The tables are data: a path is known by what the       *)
(* tables say of it, as it is asked for and with its links resolved, and a *)
(* shell command by how deep its substitutions go, where an interpreter    *)
(* stands, and where and how it says the one thing the tables look for.    *)
(***************************************************************************)
EXTENDS Integers, FiniteSets

Tools      == {"Read", "Grep", "Edit", "Bash", "WebFetch"}
FileTools  == {"Read", "Grep", "Edit"}
WriteTools == {"Edit"}

\* What the path tables may say of a path: a secret file, one that instructs or
\* configures agents, a role's persona, the store.
PathKinds == {"none", "ordinary", "secret", "instructions", "settings", "persona", "store"}

\* Where a path is: in the vault or the session's project, in this session's own
\* scratchpad, or anywhere else.
Places == {"inside", "scratchpad", "outside"}

Paths ==
  {p \in [asked : PathKinds, real : PathKinds, place : Places] :
     p.asked = "none" <=> p.real = "none"}

\* What a command may say.  Of these a table has a pattern, found wherever the
\* text says it: a path or an option gives it away, or a redirection.
Patterns == {"routine", "dangerous", "secret", "environment code", "store file", "identity",
             "protected redirect", "protected write", "file redirect", "session switch"}

\* Of these it has the program's name, looked for as the first word of a segment.
Words == {"secret reader", "store program", "protected writer", "file writer"}

\* And these it finds as a word of any segment: an rm with its flags apart, and
\* who is acting.
Sayings == Patterns \union Words \union {"removal", "actor type", "nothing"}

\* How it stands there: opening the command, the quotation or the $(...) it is
\* in; after a separator; or behind another word, as a program sudo runs does.
Stands == {"opening", "apart", "behind"}

None == -1

\* A command: `depth` substitutions, one in the other; the level an interpreter
\* stands at (None for nowhere); the level the saying is at, and if it is part of
\* a quoted text.
Commands(depths) ==
  {c \in [depth : depths, executor : {None} \union depths, at : depths, quoted : BOOLEAN,
          stands : Stands, does : Sayings] : c.executor <= c.depth /\ c.at <= c.depth}

-----------------------------------------------------------------------------
(* bashScanTargets: the texts the command tables are matched against.      *)

MaxDepth == 5

\* Mutant: a text too deeply nested is not looked at.
FirstRaw_Gives_Up(c) == IF c.executor # None /\ c.executor <= MaxDepth THEN c.executor ELSE 99

\* The first level whose whole text, quotes and nested substitutions included,
\* is scanned: one that names an interpreter, or the one below the last allowed.
FirstRaw(c) ==
  IF c.executor # None /\ c.executor <= MaxDepth THEN c.executor ELSE MaxDepth + 1

\* A level above it is seen as the shell reads it: quoted text is inert.  Of what
\* is below an interpreter only the innermost substitution is a text of its own
\* (extractSubshells).
Targets(c) ==
  {[level |-> l, raw |-> FALSE] : l \in {k \in 0 .. c.depth : k < FirstRaw(c)}}
    \union {[level |-> l, raw |-> TRUE] : l \in {k \in 0 .. c.depth : k = FirstRaw(c)}}
    \union {[level |-> l, raw |-> TRUE] :
              l \in {k \in {c.depth} : FirstRaw(c) < k /\ FirstRaw(c) <= MaxDepth}}

SaidIn(c, t) == IF t.raw THEN c.at >= t.level ELSE c.at = t.level /\ ~c.quoted

\* As the first word of a segment: what opens a quotation, or a substitution that
\* is part of the text, has a quote or a $( before it (commandWord).
LeadsIn(c, t) ==
  /\ SaidIn(c, t)
  /\ c.stands = "apart" \/ (c.stands = "opening" /\ c.at = t.level /\ ~c.quoted)

\* checkBashCommand: hasRecursiveForcedRemove, bashSensitiveAccess and
\* bashWritesProtectedVaultFile too.
BlocksCommand(c) ==
  \E t \in Targets(c) :
    \/ /\ c.does \in {"dangerous", "secret", "store file", "identity", "protected redirect",
                      "protected write"}
       /\ SaidIn(c, t)
    \/ c.does = "environment code" /\ t.raw /\ SaidIn(c, t)
    \/ c.does \in {"secret reader", "store program", "protected writer", "removal", "actor type"}
         /\ LeadsIn(c, t)
    \/ c.does \in {"removal", "actor type"} /\ SaidIn(c, t) /\ c.stands = "behind"
    \/ c.does = "actor type" /\ SaidIn(c, t) /\ ~c.quoted   \* after a parenthesis

\* checkBashCommandWarnings
WarnsOf(c) == c.does = "routine" /\ \E t \in Targets(c) : SaidIn(c, t)

\* bashWritesFiles, and roleSessionSwitchRe.
WritesFiles(c) ==
  \E t \in Targets(c) :
    \/ c.does \in {"file redirect", "protected redirect"} /\ SaidIn(c, t)
    \/ c.does \in {"file writer", "protected writer", "removal"} /\ LeadsIn(c, t)
SwitchesSession(c) == c.does = "session switch" /\ \E t \in Targets(c) : SaidIn(c, t)

-----------------------------------------------------------------------------
(* The file tools.                                                         *)

SecretFile(path) == "secret" \in {path.asked, path.real}

\* checkProtectedVaultFile
ProtectedFile(path) ==
  \/ path.real \in {"settings", "persona"}
  \/ "instructions" \in {path.asked, path.real}

\* dbPathIsProtected: by name, and the store in use by its resolved path.
StoreFile(path) == "store" \in {path.asked, path.real}

\* checkWriteScope and isSessionScratchpad
InScope(path) == path.place \in {"inside", "scratchpad"}

\* A glob, by what it selects of the samples; one that cannot be read is neither.
Globs == [reads : BOOLEAN, secret : BOOLEAN, ordinary : BOOLEAN]
NoGlob == [reads |-> TRUE, secret |-> FALSE, ordinary |-> FALSE]

\* secretGlob: a search over everything may pass, one for secrets may not.
SecretGlob(glob) == ~glob.reads \/ (glob.secret /\ ~glob.ordinary)

BlocksFile(tool, path, glob) ==
  \/ SecretGlob(glob)
  \/ /\ path.asked # "none"
     /\ \/ SecretFile(path)
        \/ tool \in WriteTools /\ (ProtectedFile(path) \/ StoreFile(path) \/ ~InScope(path))

\* guardCheckTool, after the policy and the roles.
BlocksContent(call) ==
  \/ call.tool = "Bash" /\ BlocksCommand(call.command)
  \/ call.tool \in FileTools /\ BlocksFile(call.tool, call.path, call.glob)

-----------------------------------------------------------------------------
(* Session policy and read-only roles.                                     *)

\* A policy: tools and kinds of path denied, and allowed ({} for no such list).
Policies == [denyTools : SUBSET Tools, allowTools : SUBSET Tools,
             denyPaths : SUBSET (PathKinds \ {"none"}), allowPaths : SUBSET (PathKinds \ {"none"})]
NoPolicy == [denyTools |-> {}, allowTools |-> {}, denyPaths |-> {}, allowPaths |-> {}]

\* CheckIn: a deny rule applies to either form of the path, an allow rule to the
\* resolved one; denials come first.
PolicyAllows(policy, tool, path) ==
  /\ tool \notin policy.denyTools
  /\ policy.allowTools # {} => tool \in policy.allowTools
  /\ path.asked # "none" =>
       /\ {path.asked, path.real} \intersect policy.denyPaths = {}
       /\ policy.allowPaths # {} => path.real \in policy.allowPaths

\* readOnlyRoleScope
BlocksReadOnly(call) ==
  \/ call.tool \in WriteTools
  \/ call.tool = "Bash" /\ (SwitchesSession(call.command) \/ WritesFiles(call.command))

=============================================================================
