----------------------------- MODULE StoreFile -----------------------------
(***************************************************************************)
(* Several processes open one store file and write texts to it.           *)
(*                                                                         *)
(* Opening (Open, prepareSchema, store/store.go) reads the schema version *)
(* and, when the file is behind the build, copies the store, creates what *)
(* tables are missing and runs the migrations, each in a transaction. The *)
(* processes may be of different builds and may be killed at any step.    *)
(*                                                                         *)
(* A process that has opened the store adds a text, revises a spec,       *)
(* imports a snapshot or backfills vectors. The row is committed first;   *)
(* the word table and the vector follow, each with its own statement, and *)
(* the vector only after the provider, a service elsewhere, has answered: *)
(* it may answer late, fail, or not answer within the budget.              *)
(***************************************************************************)
EXTENDS Schema, SearchIndex, Sequences

CONSTANTS
    Procs,        \* processes
    Families,     \* the set-ups to explore, see Settings
    MaxKills      \* bound: processes killed, in any set-up

Ops == {"add", "revise", "import", "backfill"}

\* build: the schema version each process knows; start, tables: the file there is
\* at first; model: the embedding model a process has a key for, if any; ops,
\* calls, kills: bounds, what the processes do once they have opened the file,
\* how often, and how many are killed (0: no statement fails, either).
Settings == [build : [Procs -> 1..SchemaVersion], start : 0..SchemaVersion,
             tables : BOOLEAN, model : [Procs -> Models \union {"none"}],
             ops : SUBSET Ops, calls : Nat, kills : 0..MaxKills]

ASSUME MaxKillsIsNatural == MaxKills \in Nat
ASSUME FamiliesAreSettings == \A f \in Families : f \in Settings

VARIABLES
    family,   \* the set-up of this behaviour
    file,     \* the file's shape and copies, see Schema
    index,    \* the texts and what finds them, see SearchIndex
    proc,     \* what each process is doing
    ghost     \* see TypeOK

vars == <<family, file, index, proc, ghost>>

Opening  == {"closed", "behind", "copying", "ddl", "migrating", "refused"}
Working  == {"ready", "index", "reindex", "embed", "await", "clear", "fill"}
KindOrder == <<Items \ (Specs \union Notes), Notes, Specs>>

Entries == [item : Items, text : Texts]
FirstOf(entries) == CHOOSE e \in entries : \A x \in entries : e.item <= x.item

\* saw: the version read on opening; next: the migration, or the kind of rows to
\* fill in; todo: texts still to index or embed; calls: calls left.
Procedures == [pc : Opening \union Working, saw : 0..SchemaVersion,
               next : 0..(SchemaVersion + 1), todo : SUBSET Entries, calls : Nat]

TypeOK ==
    /\ family \in Families
    /\ file \in Files
    /\ index \in Indexes
    /\ proc \in [Procs -> Procedures]
    /\ ghost \in [kills : 0..MaxKills,
                  unsure : SUBSET Items,   \* indexing them was cut short or raced
                  behind : SUBSET Items,   \* embedding them failed or raced
                  sent : SUBSET Items]     \* texts the provider has been sent

Closed(p) == [pc |-> "closed", saw |-> 0, next |-> 0, todo |-> {}, calls |-> proc[p].calls]
Ready(p)  == [Closed(p) EXCEPT !.pc = "ready"]
Going(p, pc) == [proc EXCEPT ![p].pc = pc]
Done(p)      == [proc EXCEPT ![p] = Ready(p)]

Init ==
    /\ family \in Families
    /\ file = FileOf(family.start, family.tables)
    /\ index = NoIndex
    /\ proc = [p \in Procs |-> [pc |-> "closed", saw |-> 0, next |-> 0, todo |-> {},
                                calls |-> family.calls]]
    /\ ghost = [kills |-> 0, unsure |-> {}, behind |-> {}, sent |-> {}]
-----------------------------------------------------------------------------
(* Opening *)

\* Open: a store newer than the build is refused, one as new is ready, one behind
\* is migrated.
Open(p) ==
    /\ proc[p].pc = "closed" /\ proc[p].calls > 0
    /\ LET v == file.version
           b == family.build[p] IN
       proc' = [proc EXCEPT ![p] =
           [Closed(p) EXCEPT !.saw = v,
               !.pc = IF TooNew(b, v) THEN "refused"
                      ELSE IF UpToDate(b, v) THEN "ready"
                      ELSE IF WantsCopy(v) THEN "behind" ELSE "ddl"]]
    /\ UNCHANGED <<family, file, index, ghost>>

\* The copy begins, unless there is a file of that name.
Copy(p) ==
    /\ proc[p].pc = "behind"
    /\ IF MayCopy(file, proc[p].saw)
       THEN file' = Copying(file, proc[p].saw) /\ proc' = Going(p, "copying")
       ELSE UNCHANGED file /\ proc' = Going(p, "ddl")
    /\ UNCHANGED <<family, index, ghost>>

CopyDone(p) ==
    /\ proc[p].pc = "copying"
    /\ file' = CopyEnds(file, proc[p].saw, "whole")
    /\ proc' = Going(p, "ddl")
    /\ UNCHANGED <<family, index, ghost>>

CreateTables(p) ==
    /\ proc[p].pc = "ddl"
    /\ file' = Ddl(family.build[p], file)
    /\ proc' = [proc EXCEPT ![p] = [Closed(p) EXCEPT !.pc = "migrating",
                                                     !.next = file.version + 1]]
    /\ UNCHANGED <<family, index, ghost>>

\* runMigrations, one migration.
Migrate(p) ==
    /\ proc[p].pc = "migrating"
    /\ IF proc[p].next <= family.build[p]
       THEN /\ file' = Migrated(proc[p].next, file)
            /\ proc' = [proc EXCEPT ![p].next = @ + 1]
       ELSE proc' = Done(p) /\ UNCHANGED file
    /\ UNCHANGED <<family, index, ghost>>
-----------------------------------------------------------------------------
(* Who is at work on which text *)

\* The rows a process has still to write to the word table, and to embed.
ToIndex(q) ==
    CASE q.pc \in {"index", "reindex"} -> {e.item : e \in q.todo}
      [] q.pc \in {"clear", "fill"}    -> Items
      [] OTHER                         -> {}
ToEmbed(q) ==
    IF q.pc \in {"index", "reindex", "embed", "await"} THEN {e.item : e \in q.todo}
    ELSE {}

OthersIndex(p) == UNION {ToIndex(proc[q]) : q \in Procs \ {p}}
OthersEmbed(p) == UNION {ToEmbed(proc[q]) : q \in Procs \ {p}}

\* When a process begins on some rows, those that others are on are no longer sure;
\* the rest are its alone, and it makes them right if it gets to its end.
Begun(set, items, others) == (set \ items) \union (items \intersect others)

GivenUp(p) == [ghost EXCEPT !.unsure = @ \union ToIndex(proc[p]),
                            !.behind = @ \union ToEmbed(proc[p])]
-----------------------------------------------------------------------------
(* Writing a text *)

Call(p, op) ==
    /\ proc[p].pc = "ready" /\ proc[p].calls > 0
    /\ op \in family.ops

Begin(p, pc, entries) ==
    proc' = [proc EXCEPT ![p] = [Ready(p) EXCEPT !.pc = pc, !.todo = entries,
                                                 !.calls = @ - 1]]

\* AddMemory, AddNote, AddSpec, AddDecision: the row is committed.
Add(p) ==
    /\ Call(p, "add")
    /\ \E i \in Items \ Rows(index) :
          /\ index' = Written(index, i, 1)
          /\ Begin(p, "index", {[item |-> i, text |-> 1]})
          /\ ghost' = [ghost EXCEPT !.unsure = Begun(@, {i}, OthersIndex(p)),
                                    !.behind = Begun(@, {i}, OthersEmbed(p))]
    /\ UNCHANGED <<family, file>>

\* ReviseSpec: the new text is committed over whatever text there is.
Revise(p) ==
    /\ Call(p, "revise")
    /\ \E i \in Specs \intersect Rows(index) :
          /\ index.text[i] < MaxText
          /\ LET t == index.text[i] + 1 IN
             /\ index' = Written(index, i, t)
             /\ Begin(p, "reindex", {[item |-> i, text |-> t]})
          /\ ghost' = [ghost EXCEPT !.unsure = Begun(@, {i}, OthersIndex(p)),
                                    !.behind = Begun(@, {i}, OthersEmbed(p))]
    /\ UNCHANGED <<family, file>>

\* A write after which the text is embedded, or, for a note, the call is over.
AfterIndex(p) ==
    IF Embeds(FirstOf(proc[p].todo).item) THEN Going(p, "embed") ELSE Done(p)

IndexIt(p) ==
    /\ proc[p].pc = "index"
    /\ LET e == FirstOf(proc[p].todo) IN index' = Indexed(index, e.item, e.text)
    /\ proc' = AfterIndex(p)
    /\ UNCHANGED <<family, file, ghost>>

ReindexIt(p) ==
    /\ proc[p].pc = "reindex"
    /\ LET e == FirstOf(proc[p].todo) IN index' = Reindexed(index, e.item, e.text)
    /\ proc' = AfterIndex(p)
    /\ UNCHANGED <<family, file, ghost>>

\* The statement fails (a busy store): the call ends in an error, the row stays.
IndexFails(p) ==
    /\ proc[p].pc \in {"index", "reindex"}
    /\ family.kills > 0
    /\ proc' = Done(p)
    /\ ghost' = GivenUp(p)
    /\ UNCHANGED <<family, file, index>>
-----------------------------------------------------------------------------
(* Vectors *)

\* indexForSemanticSearch without a provider does nothing.
NotEmbedded(p) ==
    /\ proc[p].pc = "embed" /\ family.model[p] = "none"
    /\ proc' = Done(p)
    /\ ghost' = GivenUp(p)
    /\ UNCHANGED <<family, file, index>>

\* One text at a time is sent: a write has one, a backfill goes through its list.
Send(p) ==
    /\ proc[p].pc = "embed" /\ family.model[p] # "none" /\ proc[p].todo # {}
    /\ proc' = Going(p, "await")
    /\ ghost' = [ghost EXCEPT !.sent = @ \union
                    {FirstOf(proc[p].todo).item}]
    /\ UNCHANGED <<family, file, index>>

AfterEmbed(p) ==
    LET rest == proc[p].todo \ {FirstOf(proc[p].todo)} IN
    IF rest = {} THEN Done(p) ELSE [proc EXCEPT ![p].pc = "embed", ![p].todo = rest]

\* The provider answers within the budget: the vector replaces what there was.
Answered(p) ==
    /\ proc[p].pc = "await"
    /\ LET e == FirstOf(proc[p].todo) IN
       index' = Embedded(index, e.item, e.text, family.model[p])
    /\ proc' = AfterEmbed(p)
    /\ UNCHANGED <<family, file, ghost>>

\* It fails, or the budget runs out: recorded, and the call goes on without.
NotAnswered(p) ==
    /\ proc[p].pc = "await"
    /\ proc' = AfterEmbed(p)
    /\ ghost' = [ghost EXCEPT !.behind = @ \union {FirstOf(proc[p].todo).item}]
    /\ UNCHANGED <<family, file, index>>

\* reindex-embeddings: the list is read once, from the word table, then embedded row
\* by row. What the word table says of a row that is not sure, or that somebody is
\* indexing, may be an older text.
Backfill(p) ==
    /\ Call(p, "backfill") /\ family.model[p] # "none"
    /\ LET list == {e \in Missing(index, family.model[p]) : Embeds(e.item)} IN
       /\ list # {}
       /\ Begin(p, "embed", list)
       /\ ghost' = [ghost EXCEPT !.behind =
                       @ \union ({e.item : e \in list} \intersect
                                  (OthersEmbed(p) \union OthersIndex(p) \union ghost.unsure))]
    /\ UNCHANGED <<family, file, index>>
-----------------------------------------------------------------------------
(* Importing a snapshot *)

\* ImportSnapshot: rows the store lacks are added in one transaction.
Import(p) ==
    /\ Call(p, "import")
    /\ index' = [index EXCEPT !.text = [i \in Items |-> IF @[i] = 0 THEN 1 ELSE @[i]]]
    /\ Begin(p, "clear", {})
    /\ ghost' = [ghost EXCEPT !.unsure = Begun(@, Items, OthersIndex(p))]
    /\ UNCHANGED <<family, file>>

\* rebuildSearchIndex: the word table is emptied, then filled kind by kind.
Clear(p) ==
    /\ proc[p].pc = "clear"
    /\ index' = Emptied(index)
    /\ proc' = [proc EXCEPT ![p].pc = "fill", ![p].next = 0]
    /\ UNCHANGED <<family, file, ghost>>

TextsOf(kind) == {[item |-> i, text |-> index.text[i]] : i \in kind \intersect Rows(index)}

Fill(p) ==
    /\ proc[p].pc = "fill"
    /\ \/ /\ proc[p].todo # {}
          /\ LET e == FirstOf(proc[p].todo) IN
             /\ index' = Indexed(index, e.item, e.text)
             /\ proc' = [proc EXCEPT ![p].todo = @ \ {e}]
       \/ /\ proc[p].todo = {} /\ proc[p].next < Len(KindOrder)
          /\ proc' = [proc EXCEPT ![p].next = @ + 1,
                                  ![p].todo = TextsOf(KindOrder[proc[p].next + 1])]
          /\ UNCHANGED index
       \/ /\ proc[p].todo = {} /\ proc[p].next = Len(KindOrder)
          /\ proc' = Done(p)
          /\ UNCHANGED index
    /\ UNCHANGED <<family, file, ghost>>
-----------------------------------------------------------------------------
\* A process is killed wherever it is: the copy it was making stays torn, and the
\* tables it was creating are there in part.
Kill(p) ==
    /\ proc[p].pc \notin {"closed", "refused", "ready"}
    /\ ghost.kills < family.kills
    /\ ghost' = [GivenUp(p) EXCEPT !.kills = @ + 1]
    /\ proc' = [proc EXCEPT ![p] = Closed(p)]
    /\ CASE proc[p].pc = "copying" -> file' = CopyEnds(file, proc[p].saw, "torn")
         [] proc[p].pc = "ddl" -> file' \in {file} \union DdlCutShort(family.build[p], file)
         [] OTHER -> UNCHANGED file
    /\ UNCHANGED <<family, index>>

Next == \E p \in Procs :
    \/ Open(p) \/ Copy(p) \/ CopyDone(p) \/ CreateTables(p) \/ Migrate(p)
    \/ Add(p) \/ Revise(p) \/ IndexIt(p) \/ ReindexIt(p) \/ IndexFails(p)
    \/ NotEmbedded(p) \/ Send(p) \/ Answered(p) \/ NotAnswered(p) \/ Backfill(p)
    \/ Import(p) \/ Clear(p) \/ Fill(p) \/ Kill(p)

Spec == Init /\ [][Next]_vars
-----------------------------------------------------------------------------
(* What the store file promises *)

\* A process works only on a file that has everything its build knows of, whoever
\* migrated it, and however often that was cut short (prepareSchema and
\* runMigrations, store.go).
WorksOnItsSchema ==
    \A p \in Procs : proc[p].pc \in Working => Known(family.build[p]) \subseteq file.has

\* The version recorded in the file is never more than what is in it, and what a
\* process has seen recorded stays so (runMigrations): not when two builds migrate
\* at once, either.
VersionTellsTheSchema ==
    /\ \A m \in 1..file.version : ChangesOf(m) \subseteq file.has
    /\ \A p \in Procs :
        /\ proc[p].pc = "migrating" => file.version >= proc[p].next - 1
        /\ proc[p].pc \in Working => file.version >= family.build[p]

\* Before a migration changes a store that has a version, there is a copy of it as
\* it was (backupBeforeMigrating, store.go), unless the process making it was
\* killed meanwhile; the one process that makes it may still be at it.
CopiedBeforeMigrating ==
    LET copy == file.copies[family.start] IN
    (family.start > 0 /\ file.version > family.start) =>
        /\ copy.state # "none" /\ copy.of = family.start
        /\ copy.state = "torn" => ghost.kills > 0

\* A note's text never reaches the embedding provider, by being written or by a
\* backfill (AddNote, note.go; newReindexEmbeddingsCmd, cmd/search.go).
NotesStayHere == ghost.sent \intersect Notes = {}

\* When nobody is at work on a row, the word table has it by its present text and
\* by no other, unless indexing it was cut short or two processes were at it at
\* once (indexForSearch, reindexForSearch, search.go; rebuildSearchIndex,
\* snapshot.go).
FoundByPresentText ==
    \A i \in Rows(index) \ ghost.unsure :
        (\A p \in Procs : i \notin ToIndex(proc[p])) => FoundByItsText(index, i)

\* And a vector is of the row's present text, unless embedding that text failed, two
\* processes were at it at once, or a backfill took the text from a word table that
\* was not sure of it (indexForSemanticSearch and ReindexEmbedding, embedding.go).
VectorOfPresentText ==
    \A i \in Rows(index) \ ghost.behind :
        (\A p \in Procs : i \notin ToEmbed(proc[p]))
            => index.vector[i].text \in {0, index.text[i]}

\* Opening a file leaves it whole: what its version says, what every build at work
\* needs, and a copy of what it was (store.go).
SchemaIsWhole ==
    /\ TypeOK
    /\ VersionTellsTheSchema
    /\ WorksOnItsSchema
    /\ CopiedBeforeMigrating

\* Search finds rows by their present text and meaning, and keeps notes to itself
\* (search.go, embedding.go).
SearchIsCurrent ==
    /\ FoundByPresentText
    /\ VectorOfPresentText
    /\ NotesStayHere

=============================================================================
