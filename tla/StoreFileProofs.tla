--------------------------- MODULE StoreFileProofs ---------------------------
(***************************************************************************)
(* Theorems of StoreFile: a file that processes open, migrate and are      *)
(* killed over stays whole, and what finds its texts follows them.         *)
(* Theorems of AuditTrail, from "Sequences of whatever values" on: the     *)
(* trail in that file verifies unless it was altered, and only then.       *)
(***************************************************************************)
EXTENDS StoreFile, AuditTrail, FiniteSetTheorems, SequenceTheorems, NaturalsInduction,
        WellFoundedInduction, TLAPS

-----------------------------------------------------------------------------
(* What the two properties need.                                           *)

\* The version has only moved on, and so it had when a process read it.
VersionMovesOn ==
  /\ file.version >= family.start
  /\ \A p \in Procs : proc[p].pc \in {"behind", "copying"} =>
        family.start <= proc[p].saw /\ proc[p].saw <= file.version

\* A store that had a version is copied, as it was, before anybody changes it.
CopyComesFirst ==
  family.start > 0 =>
    /\ file.copies[family.start].state # "none" => file.copies[family.start].of = family.start
    /\ file.copies[family.start].state = "torn" => ghost.kills > 0
    /\ (file.version > family.start
          \/ \E p \in Procs : proc[p].pc \in {"copying", "ddl", "migrating"})
       => file.copies[family.start].state # "none"

SchemaInv == VersionTellsTheSchema /\ WorksOnItsSchema /\ VersionMovesOn /\ CopyComesFirst

Holds(q, i) == \E e \in q.todo : e.item = i
KindOf(i)   == IF i \in Specs THEN 3 ELSE IF i \in Notes THEN 2 ELSE 1

\* What a process has before it, by what it is doing.
ListFits(q) ==
  /\ q.pc \in {"index", "reindex"} => \E e \in Entries : q.todo = {e}
  /\ q.pc = "reindex" => \A e \in q.todo : Embeds(e.item)
  /\ q.pc \in {"embed", "await"} => q.todo # {} /\ \A e \in q.todo : Embeds(e.item)
  /\ q.pc = "clear" => q.todo = {}
  /\ q.pc = "fill" =>
        /\ q.next <= 3
        /\ \A e \in q.todo : KindOf(e.item) = q.next
        /\ \A d, e \in q.todo : d.item = e.item => d = e

ListsFit == \A p \in Procs : ListFits(proc[p])

\* Nothing is kept, or about to be, of a row that is not there.
NothingOfNoRow ==
  \A i \in Items : index.text[i] = 0 =>
    /\ index.words[i] = NoWords /\ index.vector[i] = NoVector
    /\ \A p \in Procs : ~Holds(proc[p], i)

\* A row the word table is sure of has one process at work on it at most; what that
\* process has made of its words so far, and what is there when it is done.
WordsBy(q, ix, i) ==
  /\ q.pc = "index" /\ Holds(q, i) => ix.words[i] = NoWords
  /\ q.pc \in {"index", "reindex", "fill"} =>
        \A e \in q.todo : e.item = i => e.text = ix.text[i]
  /\ q.pc = "fill" =>
        IF KindOf(i) > q.next \/ Holds(q, i) THEN ix.words[i] = NoWords
        ELSE ix.text[i] # 0 => FoundByItsText(ix, i)

WordsOf(ps, ix, i) ==
  /\ \A p, q \in Procs : i \in ToIndex(ps[p]) /\ i \in ToIndex(ps[q]) => p = q
  /\ \A p \in Procs : WordsBy(ps[p], ix, i)
  /\ (\A p \in Procs : i \notin ToIndex(ps[p])) => (ix.text[i] # 0 => FoundByItsText(ix, i))

WordsFollow == \A i \in Items \ ghost.unsure : WordsOf(proc, index, i)

\* So with its vector.
VectorOf(ps, ix, i) ==
  /\ \A p, q \in Procs : i \in ToEmbed(ps[p]) /\ i \in ToEmbed(ps[q]) => p = q
  /\ \A p \in Procs : i \in ToEmbed(ps[p]) =>
        \A e \in ps[p].todo : e.item = i => e.text = ix.text[i]
  /\ (\A p \in Procs : i \notin ToEmbed(ps[p])) => ix.vector[i].text \in {0, ix.text[i]}

VectorsFollow == \A i \in Items \ ghost.behind : VectorOf(proc, index, i)

NotesHaveNone == \A i \in Notes : index.vector[i] = NoVector

SearchInv ==
  ListsFit /\ NothingOfNoRow /\ WordsFollow /\ VectorsFollow /\ NotesHaveNone /\ NotesStayHere

IInv == TypeOK /\ SchemaInv /\ SearchInv

-----------------------------------------------------------------------------
(* The index: what its operations return.                                  *)

\* Of some texts there is one of the lowest row.
LEMMA FirstIsThere ==
  ASSUME NEW S \in SUBSET Entries, S # {}
  PROVE  FirstOf(S) \in S
<1> DEFINE T == {e.item : e \in S}
           R == {ss \in Nat \X Nat : ss[1] < ss[2]}
<1>1. T \subseteq Nat /\ T # {}
  BY ItemsAreNumbers DEF Entries
<1>2. IsWellFoundedOn(R, Nat)
  BY NatLessThanWellFounded DEF OpToRel
<1>3. PICK x \in T : \A y \in T : ~(<<y, x>> \in R)
  <2> HIDE DEF T, R
  <2>1. QED
    BY <1>1, <1>2, WFMin
<1>4. PICK e \in S : x = e.item
  BY <1>3
<1>5. \A d \in S : ~(d.item < e.item)
  BY <1>1, <1>3, <1>4
<1>6. \A d \in S : e.item <= d.item
  <2> HIDE DEF T, R
  <2>1. \A d \in S : d.item \in Nat
    BY ItemsAreNumbers DEF Entries
  <2>2. QED
    BY <1>4, <1>5, <2>1
<1>7. QED
  BY <1>6 DEF FirstOf

LEMMA NoWordsType == NoWords \in [Texts -> 0..2] /\ 0 \in 0..MaxText /\ Texts \subseteq 0..MaxText
BY MaxTextIsPositive DEF NoWords, Texts

LEMMA WrittenIs ==
  ASSUME NEW ix \in Indexes, NEW i \in Items, NEW t \in Texts
  PROVE  /\ Written(ix, i, t) \in Indexes
         /\ Written(ix, i, t).text = [ix.text EXCEPT ![i] = t]
         /\ Written(ix, i, t).words = ix.words
         /\ Written(ix, i, t).vector = ix.vector
BY NoWordsType DEF Written, Indexes

LEMMA IndexedIs ==
  ASSUME NEW ix \in Indexes, NEW i \in Items, NEW t \in Texts
  PROVE  /\ Indexed(ix, i, t) \in Indexes
         /\ Indexed(ix, i, t).text = ix.text
         /\ Indexed(ix, i, t).vector = ix.vector
         /\ \A j \in Items : j # i => Indexed(ix, i, t).words[j] = ix.words[j]
         /\ ix.words[i] = NoWords => Indexed(ix, i, t).words[i] = [NoWords EXCEPT ![t] = 1]
<1> DEFINE n == IF ix.words[i][t] < 2 THEN ix.words[i][t] + 1 ELSE 2
           w == [ix.words[i] EXCEPT ![t] = n]
           ws == [ix.words EXCEPT ![i] = w]
<1>1. ix.words \in [Items -> [Texts -> 0..2]]
  BY DEF Indexes
<1>2. n \in 0..2
  BY <1>1
<1>3. w \in [Texts -> 0..2]
  BY <1>1, <1>2
<1>4. ws \in [Items -> [Texts -> 0..2]]
  BY <1>1, <1>3
<1>5. Indexed(ix, i, t) = [ix EXCEPT !.words = ws]
  BY DEF Indexed
<1>6. ASSUME ix.words[i] = NoWords PROVE w = [NoWords EXCEPT ![t] = 1]
  <2>1. ix.words[i][t] = 0
    BY <1>6 DEF NoWords
  <2>2. n = 1
    BY <2>1
  <2>3. QED
    BY <1>6, <2>2
<1>7. ws[i] = w /\ \A j \in Items : j # i => ws[j] = ix.words[j]
  BY <1>1
<1> HIDE DEF ws, w, n
<1>8. Indexed(ix, i, t) \in Indexes
  BY <1>4, <1>5 DEF Indexes
<1>9. Indexed(ix, i, t).words = ws
  BY <1>5 DEF Indexes
<1>10. Indexed(ix, i, t).text = ix.text /\ Indexed(ix, i, t).vector = ix.vector
  BY <1>5 DEF Indexes
<1>11. QED
  BY <1>6, <1>7, <1>8, <1>9, <1>10

LEMMA ReindexedIs ==
  ASSUME NEW ix \in Indexes, NEW i \in Items, NEW t \in Texts
  PROVE  /\ Reindexed(ix, i, t) \in Indexes
         /\ Reindexed(ix, i, t).text = ix.text
         /\ Reindexed(ix, i, t).vector = ix.vector
         /\ \A j \in Items : j # i => Reindexed(ix, i, t).words[j] = ix.words[j]
         /\ Reindexed(ix, i, t).words[i] = [NoWords EXCEPT ![t] = 1]
<1> DEFINE w == [NoWords EXCEPT ![t] = 1]
<1>1. w \in [Texts -> 0..2]
  BY NoWordsType
<1>2. Reindexed(ix, i, t) = [ix EXCEPT !.words[i] = w]
  BY DEF Reindexed
<1> HIDE DEF w
<1> DEFINE ws == [ix.words EXCEPT ![i] = w]
<1>3. ix.words \in [Items -> [Texts -> 0..2]]
  BY DEF Indexes
<1>4. /\ ws \in [Items -> [Texts -> 0..2]] /\ ws[i] = w
      /\ \A j \in Items : j # i => ws[j] = ix.words[j]
  BY <1>1, <1>3
<1>5. Reindexed(ix, i, t) = [ix EXCEPT !.words = ws]
  BY <1>2
<1> HIDE DEF ws
<1>6. /\ Reindexed(ix, i, t) \in Indexes /\ Reindexed(ix, i, t).words = ws
      /\ Reindexed(ix, i, t).text = ix.text
      /\ Reindexed(ix, i, t).vector = ix.vector
  BY <1>4, <1>5 DEF Indexes
<1>7. QED
  BY <1>4, <1>6 DEF w

LEMMA EmbeddedIs ==
  ASSUME NEW ix \in Indexes, NEW i \in Items, NEW t \in Texts,
         NEW m \in Models \union {"none"}
  PROVE  /\ Embedded(ix, i, t, m) \in Indexes
         /\ Embedded(ix, i, t, m).text = ix.text
         /\ Embedded(ix, i, t, m).words = ix.words
         /\ \A j \in Items : j # i => Embedded(ix, i, t, m).vector[j] = ix.vector[j]
         /\ Embedded(ix, i, t, m).vector[i].text = t
BY NoWordsType DEF Embedded, Indexes

LEMMA EmptiedIs ==
  ASSUME NEW ix \in Indexes
  PROVE  /\ Emptied(ix) \in Indexes
         /\ Emptied(ix).text = ix.text
         /\ Emptied(ix).vector = ix.vector
         /\ \A j \in Items : Emptied(ix).words[j] = NoWords
BY NoWordsType DEF Emptied, Indexes

\* Whether a row has its present text in the word table is a matter of that row.
LEMMA FoundStill ==
  ASSUME NEW ix, NEW jx, NEW i, jx.text[i] = ix.text[i], jx.words[i] = ix.words[i]
  PROVE  FoundByItsText(jx, i) = FoundByItsText(ix, i)
BY DEF FoundByItsText

-----------------------------------------------------------------------------
(* Types.                                                                  *)

Steps(p) ==
  \/ Open(p) \/ Copy(p) \/ CopyDone(p) \/ CreateTables(p) \/ Migrate(p)
  \/ Add(p) \/ Revise(p) \/ IndexIt(p) \/ ReindexIt(p) \/ IndexFails(p)
  \/ NotEmbedded(p) \/ Send(p) \/ Answered(p) \/ NotAnswered(p) \/ Backfill(p)
  \/ Import(p) \/ Clear(p) \/ Fill(p) \/ Kill(p)

LEMMA SettingsOf ==
  ASSUME TypeOK
  PROVE  /\ family \in Settings /\ family.start \in 0..SchemaVersion
         /\ \A p \in Procs : /\ family.build[p] \in 1..SchemaVersion
                             /\ family.model[p] \in Models \union {"none"}
         /\ family.kills \in 0..MaxKills
BY FamiliesAreSettings DEF TypeOK, Settings

LEMMA ProcOf ==
  ASSUME TypeOK, NEW p \in Procs
  PROVE  /\ proc \in [Procs -> Procedures]
         /\ proc[p] \in Procedures
         /\ proc[p].todo \in SUBSET Entries
         /\ proc[p].calls \in Nat
         /\ proc[p].saw \in 0..SchemaVersion /\ proc[p].next \in 0..(SchemaVersion + 1)
         /\ proc[p].pc \in Opening \union Working
BY DEF TypeOK, Procedures

LEMMA FirstOfTodo ==
  ASSUME TypeOK, NEW p \in Procs, proc[p].todo # {}
  PROVE  /\ FirstOf(proc[p].todo) \in proc[p].todo
         /\ FirstOf(proc[p].todo) \in Entries
         /\ FirstOf(proc[p].todo).item \in Items
         /\ FirstOf(proc[p].todo).text \in Texts
BY ProcOf, FirstIsThere DEF Entries

\* How each operator sets a process, as one assignment to its record.
LEMMA SetsProc ==
  ASSUME TypeOK, NEW p \in Procs, NEW s \in Opening \union Working, NEW todo
  PROVE  /\ Going(p, s) = [proc EXCEPT ![p] = [proc[p] EXCEPT !.pc = s]]
         /\ Done(p) = [proc EXCEPT ![p] = Ready(p)]
         /\ Closed(p) \in Procedures /\ Ready(p) \in Procedures
         /\ Closed(p).pc = "closed" /\ Ready(p).pc = "ready"
         /\ Closed(p).todo = {} /\ Ready(p).todo = {}
         /\ Closed(p).next = 0 /\ Ready(p).next = 0
         /\ Closed(p).saw = 0 /\ Ready(p).saw = 0
         /\ [proc[p] EXCEPT !.pc = s] \in Procedures
         /\ [proc[p] EXCEPT !.pc = s].pc = s
         /\ [proc[p] EXCEPT !.pc = s].todo = proc[p].todo
         /\ [proc[p] EXCEPT !.pc = s].saw = proc[p].saw
         /\ [proc[p] EXCEPT !.pc = s].next = proc[p].next
BY ProcOf DEF Going, Done, Ready, Closed, Procedures, Opening, Working, SchemaVersion

LEMMA GoesIs ==
  ASSUME TypeOK, NEW p \in Procs, NEW s \in Opening \union Working, proc' = Going(p, s)
  PROVE  \E r \in Procedures : /\ r.pc = s /\ r.todo = proc[p].todo
                               /\ r.saw = proc[p].saw /\ r.next = proc[p].next
                               /\ proc' = [proc EXCEPT ![p] = r]
<1> DEFINE r == [proc[p] EXCEPT !.pc = s]
<1>1. /\ r \in Procedures /\ r.pc = s /\ r.todo = proc[p].todo
      /\ r.saw = proc[p].saw /\ r.next = proc[p].next
      /\ proc' = [proc EXCEPT ![p] = r]
  BY SetsProc
<1> HIDE DEF r
<1>2. QED
  BY <1>1

\* And one that begins on some texts.
LEMMA BeginsProc ==
  ASSUME TypeOK, NEW p \in Procs, proc[p].calls > 0, NEW s \in Working,
         NEW entries \in SUBSET Entries, Begin(p, s, entries)
  PROVE  \E r \in Procedures : /\ r.pc = s /\ r.todo = entries /\ r.next = 0
                               /\ proc' = [proc EXCEPT ![p] = r]
<1> DEFINE r == [Ready(p) EXCEPT !.pc = s, !.todo = entries, !.calls = @ - 1]
<1>1. proc' = [proc EXCEPT ![p] = r]
  BY DEF Begin
<1>2. Ready(p).calls - 1 \in Nat
  BY ProcOf DEF Ready, Closed
<1>3. r \in Procedures /\ r.pc = s /\ r.todo = entries /\ r.next = 0
  BY <1>2, SetsProc DEF Ready, Closed, Procedures, Opening, Working, SchemaVersion
<1>4. QED
  BY <1>1, <1>3

-----------------------------------------------------------------------------
(* The file: what its operations return.                                   *)

LEMMA ChangesAreNumbered == \A c \in Changes : c[1] \in 1..16
BY DEF Changes, ColumnMigrations, TableMigrations, SeedMigrations, IndexMigrations,
       RewriteMigrations

\* A file that has what its version says has all a build of that version knows.
LEMMA KnownByVersion ==
  ASSUME NEW f \in Files, \A m \in 1..f.version : ChangesOf(m) \subseteq f.has,
         NEW b \in Nat, b <= f.version
  PROVE  Known(b) \subseteq f.has
<1> SUFFICES ASSUME NEW c \in Changes, c[1] <= b PROVE c \in f.has
  BY DEF Known
<1>1. f.version \in Nat
  BY DEF Files, SchemaVersion
<1>2. c[1] \in 1..f.version
  BY <1>1, ChangesAreNumbered
<1>3. c \in ChangesOf(c[1])
  BY DEF ChangesOf
<1>4. QED
  BY <1>2, <1>3

LEMMA AddedAreChanges ==
  ASSUME NEW b, NEW f
  PROVE  AddedByDdl(b, f) \subseteq Changes
BY DEF AddedByDdl, Known

LEMMA DdlIs ==
  ASSUME NEW b, NEW f \in Files
  PROVE  /\ Ddl(b, f) \in Files
         /\ Ddl(b, f).version = f.version /\ Ddl(b, f).copies = f.copies
         /\ f.has \subseteq Ddl(b, f).has
BY AddedAreChanges DEF Ddl, Files

LEMMA DdlCutShortIs ==
  ASSUME NEW b, NEW f \in Files, NEW g \in {f} \union DdlCutShort(b, f)
  PROVE  /\ g \in Files
         /\ g.version = f.version /\ g.copies = f.copies
         /\ f.has \subseteq g.has
BY AddedAreChanges DEF DdlCutShort, Files

LEMMA MigratedIs ==
  ASSUME NEW m \in 1..SchemaVersion, NEW f \in Files,
         \A k \in 1..f.version : ChangesOf(k) \subseteq f.has,
         f.version >= m - 1
  PROVE  /\ Migrated(m, f) \in Files
         /\ Migrated(m, f).copies = f.copies
         /\ f.has \subseteq Migrated(m, f).has
         /\ Migrated(m, f).version >= m /\ Migrated(m, f).version >= f.version
         /\ \A k \in 1..Migrated(m, f).version : ChangesOf(k) \subseteq Migrated(m, f).has
<1>1. m \in 0..SchemaVersion /\ f.version \in 0..SchemaVersion
      /\ m \in Int /\ f.version \in Int
  BY DEF Files, SchemaVersion
<1>2. CASE f.version >= m
  BY <1>1, <1>2 DEF Migrated
<1>3. CASE ~(f.version >= m)
  <2>1. ChangesOf(m) \subseteq Changes
    BY DEF ChangesOf
  <2>2. Migrated(m, f) = [f EXCEPT !.has = @ \union ChangesOf(m), !.version = m]
    BY <1>3 DEF Migrated
  <2>3. /\ Migrated(m, f) \in Files /\ Migrated(m, f).version = m
        /\ Migrated(m, f).copies = f.copies
        /\ Migrated(m, f).has = f.has \union ChangesOf(m)
    BY <1>1, <2>1, <2>2 DEF Files
  <2>4. f.version = m - 1
    BY <1>1, <1>3
  <2>5. \A k \in 1..m : k = m \/ k \in 1..f.version
    BY <1>1, <2>4
  <2>6. QED
    BY <1>1, <1>3, <2>3, <2>5
<1>4. QED
  BY <1>2, <1>3

LEMMA CopyingIs ==
  ASSUME NEW f \in Files, NEW n \in 0..SchemaVersion
  PROVE  /\ Copying(f, n) \in Files
         /\ Copying(f, n).version = f.version /\ Copying(f, n).has = f.has
         /\ Copying(f, n).copies[n].state = "writing"
         /\ Copying(f, n).copies[n].of = f.version
         /\ \A k \in 0..SchemaVersion : k # n => Copying(f, n).copies[k] = f.copies[k]
<1> DEFINE c == [state |-> "writing", of |-> f.version]
           cs == [f.copies EXCEPT ![n] = c]
           Copies == [state : {"none", "writing", "torn", "whole"}, of : 0..SchemaVersion]
<1>1. f.copies \in [0..SchemaVersion -> Copies] /\ f.version \in 0..SchemaVersion
  BY DEF Files
<1>2. c \in Copies
  BY <1>1
<1>3. /\ cs \in [0..SchemaVersion -> Copies] /\ cs[n] = c
      /\ \A k \in 0..SchemaVersion : k # n => cs[k] = f.copies[k]
  <2> HIDE DEF c, Copies
  <2>1. QED
    BY <1>1, <1>2
<1>4. Copying(f, n) = [f EXCEPT !.copies = cs]
  BY DEF Copying
<1>5. c.state = "writing" /\ c.of = f.version
  OBVIOUS
<1> HIDE DEF cs, c
<1>6. /\ Copying(f, n) \in Files /\ Copying(f, n).copies = cs
      /\ Copying(f, n).version = f.version /\ Copying(f, n).has = f.has
  BY <1>3, <1>4 DEF Files
<1>7. QED
  BY <1>3, <1>5, <1>6

LEMMA CopyEndsIs ==
  ASSUME NEW f \in Files, NEW n \in 0..SchemaVersion, NEW how \in {"torn", "whole"}
  PROVE  /\ CopyEnds(f, n, how) \in Files
         /\ CopyEnds(f, n, how).version = f.version /\ CopyEnds(f, n, how).has = f.has
         /\ CopyEnds(f, n, how).copies[n].state = how
         /\ CopyEnds(f, n, how).copies[n].of = f.copies[n].of
<1> DEFINE Copies == [state : {"none", "writing", "torn", "whole"}, of : 0..SchemaVersion]
           c == [f.copies[n] EXCEPT !.state = how]
           cs == [f.copies EXCEPT ![n] = c]
<1>1. f.copies \in [0..SchemaVersion -> Copies]
  BY DEF Files
<1>2. c \in Copies /\ c.state = how /\ c.of = f.copies[n].of
  <2>1. f.copies[n] \in Copies
    BY <1>1
  <2>2. QED
    BY <2>1
<1>3. CopyEnds(f, n, how) = [f EXCEPT !.copies = cs]
  BY DEF CopyEnds
<1>4. cs \in [0..SchemaVersion -> Copies] /\ cs[n] = c
  <2> HIDE DEF c, Copies
  <2>1. QED
    BY <1>1, <1>2
<1> HIDE DEF cs, c
<1>5. /\ CopyEnds(f, n, how) \in Files /\ CopyEnds(f, n, how).copies = cs
      /\ CopyEnds(f, n, how).version = f.version /\ CopyEnds(f, n, how).has = f.has
  BY <1>3, <1>4 DEF Files
<1>6. QED
  BY <1>2, <1>4, <1>5

LEMMA OtherCopies ==
  ASSUME NEW f \in Files, NEW n \in 0..SchemaVersion, NEW how \in {"torn", "whole"},
         NEW k \in 0..SchemaVersion, k # n
  PROVE  CopyEnds(f, n, how).copies[k] = f.copies[k]
<1> DEFINE cs == [f.copies EXCEPT ![n] = [f.copies[n] EXCEPT !.state = how]]
<1>1. DOMAIN f.copies = 0..SchemaVersion
  BY DEF Files
<1>2. cs[k] = f.copies[k]
  BY <1>1
<1>3. CopyEnds(f, n, how) = [f EXCEPT !.copies = cs]
  BY DEF CopyEnds
<1> HIDE DEF cs
<1>4. CopyEnds(f, n, how).copies = cs
  BY <1>3 DEF Files
<1>5. QED
  BY <1>2, <1>4

-----------------------------------------------------------------------------
(* What each action does to its process, the index and the ghosts, and     *)
(* that the types hold.                                                    *)

Ghosts == [kills : 0..MaxKills, unsure : SUBSET Items, behind : SUBSET Items,
           sent : SUBSET Items]

Resting == {"closed", "behind", "copying", "ddl", "migrating", "refused", "ready"}

Moves(p, r) == proc' = [proc EXCEPT ![p] = r]

\* The process is on no text any more: it is killed, fails, or never was.
Released(p, r) ==
  /\ Moves(p, r) /\ r \in Procedures /\ r.pc \in Resting
  /\ r.todo = {} \/ r.todo = proc[p].todo
  /\ index' = index
  /\ ghost' \in Ghosts
  /\ ghost'.unsure = ghost.unsure \union ToIndex(proc[p])
  /\ ghost'.behind = ghost.behind \union ToEmbed(proc[p])
  /\ ghost'.sent = ghost.sent

LEMMA NotAtWork ==
  ASSUME NEW q, q.pc \in Resting
  PROVE  ToIndex(q) = {} /\ ToEmbed(q) = {}
BY DEF ToIndex, ToEmbed, Resting

LEMMA GhostOf ==
  ASSUME TypeOK
  PROVE  ghost \in Ghosts /\ ghost.unsure \subseteq Items /\ ghost.behind \subseteq Items
BY DEF TypeOK, Ghosts

LEMMA OpeningIs ==
  ASSUME TypeOK, NEW p \in Procs,
         Open(p) \/ Copy(p) \/ CopyDone(p) \/ CreateTables(p) \/ Migrate(p)
  PROVE  \E r \in Procedures : Released(p, r)
<1>1. /\ ghost \in Ghosts
      /\ proc[p].pc \in Resting => /\ ghost.unsure = ghost.unsure \union ToIndex(proc[p])
                                /\ ghost.behind = ghost.behind \union ToEmbed(proc[p])
  BY GhostOf, NotAtWork
<1>2. SUFFICES /\ \E r \in Procedures : /\ Moves(p, r) /\ r.pc \in Resting
                                        /\ r.todo = {} \/ r.todo = proc[p].todo
               /\ proc[p].pc \in Resting /\ index' = index /\ ghost' = ghost
  BY <1>1 DEF Released
<1>3. CASE Open(p)
  <2> DEFINE r == [Closed(p) EXCEPT !.saw = file.version,
                     !.pc = IF TooNew(family.build[p], file.version) THEN "refused"
                            ELSE IF UpToDate(family.build[p], file.version) THEN "ready"
                            ELSE IF WantsCopy(file.version) THEN "behind" ELSE "ddl"]
  <2>1. file.version \in 0..SchemaVersion
    BY DEF TypeOK, Files
  <2>2. r \in Procedures /\ r.pc \in Resting /\ r.todo = {}
    BY <2>1, SetsProc DEF Closed, Procedures, Opening, Working, Resting
  <2>3. Moves(p, r) /\ proc[p].pc \in Resting /\ index' = index /\ ghost' = ghost
    BY <1>3 DEF Open, Moves, Resting
  <2> HIDE DEF r
  <2>4. QED
    BY <2>2, <2>3
<1>4. CASE Copy(p)
  <2>1. PICK s \in {"copying", "ddl"} : proc' = Going(p, s)
    BY <1>4 DEF Copy
  <2>2. s \in Opening \union Working /\ s \in Resting
    BY DEF Opening, Resting
  <2>3. proc[p].pc \in Resting /\ index' = index /\ ghost' = ghost
    BY <1>4 DEF Copy, Resting
  <2>4. QED
    BY <2>1, <2>2, <2>3, GoesIs DEF Moves
<1>5. CASE CopyDone(p)
  <2>1. proc' = Going(p, "ddl")
    BY <1>5 DEF CopyDone
  <2>2. "ddl" \in Opening \union Working /\ "ddl" \in Resting
    BY DEF Opening, Resting
  <2>3. proc[p].pc \in Resting /\ index' = index /\ ghost' = ghost
    BY <1>5 DEF CopyDone, Resting
  <2>4. QED
    BY <2>1, <2>2, <2>3, GoesIs DEF Moves
<1>6. CASE CreateTables(p)
  <2> DEFINE r == [Closed(p) EXCEPT !.pc = "migrating", !.next = file.version + 1]
  <2>1. file.version + 1 \in 0..(SchemaVersion + 1)
    BY DEF TypeOK, Files, SchemaVersion
  <2>2. r \in Procedures /\ r.pc \in Resting /\ r.todo = {}
    BY <2>1, SetsProc DEF Closed, Procedures, Opening, Working, Resting
  <2>3. Moves(p, r) /\ proc[p].pc \in Resting /\ index' = index /\ ghost' = ghost
    BY <1>6 DEF CreateTables, Moves, Resting
  <2> HIDE DEF r
  <2>4. QED
    BY <2>2, <2>3
<1>7. CASE Migrate(p)
  <2>1. proc[p].pc \in Resting /\ index' = index /\ ghost' = ghost
    BY <1>7 DEF Migrate, Resting
  <2>2. CASE proc[p].next <= family.build[p]
    <3> DEFINE r == [proc[p] EXCEPT !.next = @ + 1]
    <3>1. Moves(p, r)
      BY <1>7, <2>2 DEF Migrate, Moves
    <3>2. proc[p].next + 1 \in 0..(SchemaVersion + 1)
      BY <2>2, ProcOf, SettingsOf DEF SchemaVersion
    <3>3. r \in Procedures /\ r.pc \in Resting /\ r.todo = proc[p].todo
      BY <3>2, <2>1, ProcOf DEF Procedures
    <3> HIDE DEF r
    <3>4. QED
      BY <2>1, <3>1, <3>3
  <2>3. CASE ~(proc[p].next <= family.build[p])
    <3>1. Moves(p, Ready(p))
      BY <1>7, <2>3 DEF Migrate, Done, Moves
    <3>2. "ready" \in Resting /\ "ready" \in Opening \union Working
      BY DEF Resting, Working
    <3>3. QED
      BY <2>1, <3>1, <3>2, SetsProc
  <2>4. QED
    BY <2>2, <2>3
<1>8. QED
  BY <1>3, <1>4, <1>5, <1>6, <1>7

LEMMA ToWorkType ==
  ASSUME TypeOK, NEW p \in Procs
  PROVE  /\ ToIndex(proc[p]) \subseteq Items /\ ToEmbed(proc[p]) \subseteq Items
         /\ OthersIndex(p) \subseteq Items /\ OthersEmbed(p) \subseteq Items
<1>1. ASSUME NEW q \in Procs
      PROVE  ToIndex(proc[q]) \subseteq Items /\ ToEmbed(proc[q]) \subseteq Items
  <2>1. \A e \in proc[q].todo : e.item \in Items
    BY ProcOf DEF Entries
  <2>2. {e.item : e \in proc[q].todo} \subseteq Items
    BY <2>1
  <2>3. QED
    BY <2>2 DEF ToIndex, ToEmbed
<1>2. QED
  BY <1>1 DEF OthersIndex, OthersEmbed

LEMMA GivenUpIs ==
  ASSUME TypeOK, NEW p \in Procs
  PROVE  /\ GivenUp(p) \in Ghosts
         /\ GivenUp(p).unsure = ghost.unsure \union ToIndex(proc[p])
         /\ GivenUp(p).behind = ghost.behind \union ToEmbed(proc[p])
         /\ GivenUp(p).sent = ghost.sent /\ GivenUp(p).kills = ghost.kills
BY ToWorkType, GhostOf DEF GivenUp, Ghosts

LEMMA GivingUpIs ==
  ASSUME TypeOK, NEW p \in Procs, IndexFails(p) \/ NotEmbedded(p) \/ Kill(p)
  PROVE  \E r \in Procedures : Released(p, r)
<1>1. CASE IndexFails(p) \/ NotEmbedded(p)
  <2>1. Moves(p, Ready(p)) /\ index' = index /\ ghost' = GivenUp(p)
    BY <1>1 DEF IndexFails, NotEmbedded, Done, Moves
  <2>2. "ready" \in Resting /\ "ready" \in Opening \union Working
    BY DEF Resting, Working
  <2>3. Ready(p) \in Procedures /\ Ready(p).pc = "ready" /\ Ready(p).todo = {}
    BY <2>2, SetsProc
  <2>4. QED
    BY <2>1, <2>2, <2>3, GivenUpIs DEF Released
<1>2. CASE Kill(p)
  <2>1. /\ Moves(p, Closed(p)) /\ index' = index
        /\ ghost' = [GivenUp(p) EXCEPT !.kills = @ + 1]
        /\ ghost.kills < family.kills
    BY <1>2 DEF Kill, Moves
  <2>2. "closed" \in Resting /\ "closed" \in Opening \union Working
    BY DEF Resting, Opening
  <2>3. Closed(p) \in Procedures /\ Closed(p).pc = "closed" /\ Closed(p).todo = {}
    BY <2>2, SetsProc
  <2>4. ghost.kills \in 0..MaxKills /\ family.kills \in 0..MaxKills
    BY SettingsOf DEF TypeOK
  <2>5. ghost.kills + 1 \in 0..MaxKills
    <3>1. ghost.kills \in Nat /\ family.kills \in Nat /\ family.kills <= MaxKills
      BY <2>4, MaxKillsIsNatural
    <3>2. QED
      BY <2>1, <3>1, MaxKillsIsNatural
  <2>6. /\ ghost' \in Ghosts
        /\ ghost'.unsure = GivenUp(p).unsure /\ ghost'.behind = GivenUp(p).behind
        /\ ghost'.sent = GivenUp(p).sent
    BY <2>1, <2>5, GivenUpIs DEF Ghosts
  <2>7. QED
    BY <2>1, <2>2, <2>3, <2>6, GivenUpIs DEF Released
<1>3. QED
  BY <1>1, <1>2

-----------------------------------------------------------------------------
(* What the actions of a process at work do.                               *)

GhostsBecome(unsure, behind) ==
  /\ ghost' \in Ghosts
  /\ ghost'.unsure = unsure /\ ghost'.behind = behind
  /\ ghost'.sent = ghost.sent /\ ghost'.kills = ghost.kills

\* A row's text is committed, new or over an older one.
StartsText(p, r, i, t) ==
  /\ proc[p].pc = "ready" /\ r.pc \in {"index", "reindex"}
  /\ r.todo = {[item |-> i, text |-> t]}
  /\ index' = Written(index, i, t)
  /\ r.pc = "index" => index.text[i] = 0
  /\ r.pc = "reindex" => i \in Specs /\ index.text[i] # 0
  /\ GhostsBecome(Begun(ghost.unsure, {i}, OthersIndex(p)),
                  Begun(ghost.behind, {i}, OthersEmbed(p)))

LEMMA BegunIs ==
  ASSUME TypeOK, NEW p \in Procs, NEW items \in SUBSET Items
  PROVE  /\ Begun(ghost.unsure, items, OthersIndex(p)) \in SUBSET Items
         /\ Begun(ghost.behind, items, OthersEmbed(p)) \in SUBSET Items
BY ToWorkType, GhostOf DEF Begun

LEMMA StartingIs ==
  ASSUME TypeOK, NEW p \in Procs, Add(p) \/ Revise(p)
  PROVE  \E r \in Procedures, i \in Items, t \in Texts : Moves(p, r) /\ StartsText(p, r, i, t)
<1>1. proc[p].pc = "ready" /\ proc[p].calls > 0
  BY DEF Add, Revise, Call
<1>2. index \in Indexes
  BY DEF TypeOK
<1>3. CASE Add(p)
  <2>1. PICK i \in Items \ Rows(index) :
             /\ index' = Written(index, i, 1)
             /\ Begin(p, "index", {[item |-> i, text |-> 1]})
             /\ ghost' = [ghost EXCEPT !.unsure = Begun(@, {i}, OthersIndex(p)),
                                       !.behind = Begun(@, {i}, OthersEmbed(p))]
    BY <1>3 DEF Add
  <2>2. 1 \in Texts /\ index.text[i] = 0
    BY MaxTextIsPositive DEF Texts, Rows
  <2>3. {[item |-> i, text |-> 1]} \in SUBSET Entries
    BY <2>2 DEF Entries
  <2>4. PICK r \in Procedures : /\ r.pc = "index" /\ r.todo = {[item |-> i, text |-> 1]}
                                /\ proc' = [proc EXCEPT ![p] = r]
    BY <1>1, <2>1, <2>3, BeginsProc DEF Working
  <2>5. GhostsBecome(Begun(ghost.unsure, {i}, OthersIndex(p)),
                     Begun(ghost.behind, {i}, OthersEmbed(p)))
    BY <2>1, BegunIs, GhostOf DEF GhostsBecome, Ghosts
  <2>6. QED
    BY <1>1, <2>1, <2>2, <2>4, <2>5 DEF StartsText, Moves
<1>4. CASE Revise(p)
  <2> DEFINE t(i) == index.text[i] + 1
  <2>1. PICK i \in Specs \intersect Rows(index) :
             /\ index.text[i] < MaxText
             /\ index' = Written(index, i, t(i))
             /\ Begin(p, "reindex", {[item |-> i, text |-> t(i)]})
             /\ ghost' = [ghost EXCEPT !.unsure = Begun(@, {i}, OthersIndex(p)),
                                       !.behind = Begun(@, {i}, OthersEmbed(p))]
    BY <1>4 DEF Revise
  <2>2. i \in Items /\ i \in Specs /\ index.text[i] # 0 /\ t(i) \in Texts
    <3>1. i \in Items /\ index.text[i] \in 0..MaxText
      BY <1>2, ItemKindsOk DEF Indexes
    <3>2. QED
      BY <2>1, <3>1, MaxTextIsPositive DEF Texts, Rows
  <2>3. {[item |-> i, text |-> t(i)]} \in SUBSET Entries
    BY <2>2 DEF Entries
  <2> HIDE DEF t
  <2>4. PICK r \in Procedures : /\ r.pc = "reindex" /\ r.todo = {[item |-> i, text |-> t(i)]}
                                /\ proc' = [proc EXCEPT ![p] = r]
    BY <1>1, <2>1, <2>3, BeginsProc DEF Working
  <2>5. GhostsBecome(Begun(ghost.unsure, {i}, OthersIndex(p)),
                     Begun(ghost.behind, {i}, OthersEmbed(p)))
    BY <2>1, <2>2, BegunIs, GhostOf DEF GhostsBecome, Ghosts
  <2>6. QED
    BY <1>1, <2>1, <2>2, <2>4, <2>5 DEF StartsText, Moves
<1>5. QED
  BY <1>3, <1>4

\* A text reaches the word table: by its own or, of a revision, in place of others.
WritesWords(p, r, e) ==
  /\ proc[p].pc \in {"index", "reindex"} /\ proc[p].todo = {e}
  /\ index' \in Indexes /\ index'.text = index.text /\ index'.vector = index.vector
  /\ \A j \in Items : j # e.item => index'.words[j] = index.words[j]
  /\ (proc[p].pc = "index" => index.words[e.item] = NoWords)
        => index'.words[e.item] = [NoWords EXCEPT ![e.text] = 1]
  /\ IF Embeds(e.item) THEN r.pc = "embed" /\ r.todo = {e} ELSE r.pc = "ready" /\ r.todo = {}
  /\ ghost' = ghost

LEMMA WritingIs ==
  ASSUME TypeOK, ListsFit, NEW p \in Procs, IndexIt(p) \/ ReindexIt(p)
  PROVE  \E r \in Procedures, e \in Entries : Moves(p, r) /\ WritesWords(p, r, e)
<1>1. proc[p].pc \in {"index", "reindex"}
  BY DEF IndexIt, ReindexIt
<1>2. PICK e \in Entries : proc[p].todo = {e}
  BY <1>1 DEF ListsFit, ListFits
<1>3. FirstOf(proc[p].todo) = e /\ e.item \in Items /\ e.text \in Texts
  BY <1>2, FirstOfTodo DEF Entries
<1>4. index \in Indexes
  BY DEF TypeOK
<1>5. /\ index' \in Indexes /\ index'.text = index.text /\ index'.vector = index.vector
      /\ \A j \in Items : j # e.item => index'.words[j] = index.words[j]
      /\ (proc[p].pc = "index" => index.words[e.item] = NoWords)
            => index'.words[e.item] = [NoWords EXCEPT ![e.text] = 1]
  <2>1. CASE IndexIt(p)
    <3>1. index' = Indexed(index, e.item, e.text) /\ proc[p].pc = "index"
      BY <1>3, <2>1 DEF IndexIt
    <3>2. PICK i \in Items, t \in Texts : i = e.item /\ t = e.text
      BY <1>3
    <3>3. /\ Indexed(index, i, t) \in Indexes
          /\ Indexed(index, i, t).text = index.text /\ Indexed(index, i, t).vector = index.vector
          /\ \A j \in Items : j # i => Indexed(index, i, t).words[j] = index.words[j]
          /\ index.words[i] = NoWords => Indexed(index, i, t).words[i] = [NoWords EXCEPT ![t] = 1]
      BY <1>4, IndexedIs
    <3>4. QED
      BY <3>1, <3>2, <3>3
  <2>2. CASE ReindexIt(p)
    <3>1. index' = Reindexed(index, e.item, e.text)
      BY <1>3, <2>2 DEF ReindexIt
    <3>2. QED
      BY <1>3, <1>4, <3>1, ReindexedIs
  <2>3. QED
    BY <2>1, <2>2
<1>6. proc' = AfterIndex(p) /\ ghost' = ghost
  BY DEF IndexIt, ReindexIt
<1>7. CASE Embeds(e.item)
  <2>1. proc' = Going(p, "embed")
    BY <1>3, <1>6, <1>7 DEF AfterIndex
  <2>2. PICK r \in Procedures : /\ r.pc = "embed" /\ r.todo = proc[p].todo
                                /\ proc' = [proc EXCEPT ![p] = r]
    BY <2>1, GoesIs DEF Working
  <2>3. WritesWords(p, r, e)
    BY <1>1, <1>2, <1>5, <1>6, <1>7, <2>2 DEF WritesWords
  <2>4. QED
    BY <2>2, <2>3 DEF Moves
<1>8. CASE ~Embeds(e.item)
  <2>1. proc' = [proc EXCEPT ![p] = Ready(p)]
    BY <1>3, <1>6, <1>8 DEF AfterIndex, Done
  <2>2. Ready(p) \in Procedures /\ Ready(p).pc = "ready" /\ Ready(p).todo = {}
    BY SetsProc DEF Working
  <2>3. QED
    BY <1>1, <1>2, <1>5, <1>6, <1>8, <2>1, <2>2 DEF WritesWords, Moves
<1>9. QED
  BY <1>7, <1>8

\* A text is sent to the provider.
SendsText(p, r, e) ==
  /\ proc[p].pc = "embed" /\ r.pc = "await"
  /\ e \in proc[p].todo /\ r.todo = proc[p].todo
  /\ index' = index
  /\ ghost' \in Ghosts
  /\ ghost'.unsure = ghost.unsure /\ ghost'.behind = ghost.behind
  /\ ghost'.sent = ghost.sent \union {e.item} /\ ghost'.kills = ghost.kills

LEMMA SendingIs ==
  ASSUME TypeOK, NEW p \in Procs, Send(p)
  PROVE  \E r \in Procedures, e \in Entries : Moves(p, r) /\ SendsText(p, r, e)
<1> DEFINE e == FirstOf(proc[p].todo)
<1>1. /\ proc[p].pc = "embed" /\ proc[p].todo # {} /\ proc' = Going(p, "await")
      /\ ghost' = [ghost EXCEPT !.sent = @ \union {e.item}] /\ index' = index
  BY DEF Send
<1>2. e \in proc[p].todo /\ e \in Entries /\ e.item \in Items
  BY <1>1, FirstOfTodo
<1> HIDE DEF e
<1>3. PICK r \in Procedures : /\ r.pc = "await" /\ r.todo = proc[p].todo
                              /\ proc' = [proc EXCEPT ![p] = r]
  BY <1>1, GoesIs DEF Working
<1>4. /\ ghost' \in Ghosts
      /\ ghost'.unsure = ghost.unsure /\ ghost'.behind = ghost.behind
      /\ ghost'.sent = ghost.sent \union {e.item} /\ ghost'.kills = ghost.kills
  BY <1>1, <1>2, GhostOf DEF Ghosts
<1>5. QED
  BY <1>1, <1>2, <1>3, <1>4 DEF SendsText, Moves

\* The provider's answer is stored, or there is none; the process goes on.
EmbedsText(p, r, e) ==
  /\ proc[p].pc = "await" /\ e \in proc[p].todo
  /\ IF proc[p].todo = {e} THEN r.pc = "ready" /\ r.todo = {}
     ELSE r.pc = "embed" /\ r.todo = proc[p].todo \ {e}
  /\ \/ /\ index' \in Indexes /\ index'.text = index.text /\ index'.words = index.words
        /\ \A j \in Items : j # e.item => index'.vector[j] = index.vector[j]
        /\ index'.vector[e.item].text = e.text
        /\ ghost' = ghost
     \/ index' = index /\ GhostsBecome(ghost.unsure, ghost.behind \union {e.item})

LEMMA EmbeddingIs ==
  ASSUME TypeOK, ListsFit, NEW p \in Procs, Answered(p) \/ NotAnswered(p)
  PROVE  \E r \in Procedures, e \in Entries : Moves(p, r) /\ EmbedsText(p, r, e)
<1> DEFINE e == FirstOf(proc[p].todo)
<1>1. proc[p].pc = "await" /\ proc' = AfterEmbed(p)
  BY DEF Answered, NotAnswered
<1>2. e \in proc[p].todo /\ e \in Entries /\ e.item \in Items /\ e.text \in Texts
  BY <1>1, FirstOfTodo DEF ListsFit, ListFits
<1>3. index \in Indexes
  BY DEF TypeOK
<1>4. \/ /\ index' \in Indexes /\ index'.text = index.text /\ index'.words = index.words
         /\ \A j \in Items : j # e.item => index'.vector[j] = index.vector[j]
         /\ index'.vector[e.item].text = e.text
         /\ ghost' = ghost
      \/ index' = index /\ GhostsBecome(ghost.unsure, ghost.behind \union {e.item})
  <2>1. CASE Answered(p)
    <3>1. index' = Embedded(index, e.item, e.text, family.model[p]) /\ ghost' = ghost
      BY <2>1 DEF Answered
    <3>2. family.model[p] \in Models \union {"none"}
      BY SettingsOf
    <3> HIDE DEF e
    <3>3. QED
      BY <1>2, <1>3, <3>1, <3>2, EmbeddedIs
  <2>2. CASE NotAnswered(p)
    <3>1. index' = index /\ ghost' = [ghost EXCEPT !.behind = @ \union {e.item}]
      BY <2>2 DEF NotAnswered
    <3> HIDE DEF e
    <3>2. QED
      BY <1>2, <3>1, GhostOf DEF GhostsBecome, Ghosts
  <2>3. QED
    BY <2>1, <2>2
<1>5. AfterEmbed(p) = IF proc[p].todo \ {e} = {} THEN Done(p)
                      ELSE [proc EXCEPT ![p].pc = "embed", ![p].todo = proc[p].todo \ {e}]
  BY DEF AfterEmbed
<1> HIDE DEF e
<1>6. CASE proc[p].todo = {e}
  <2>1. proc' = [proc EXCEPT ![p] = Ready(p)]
    BY <1>1, <1>5, <1>6 DEF Done
  <2>2. Ready(p) \in Procedures /\ Ready(p).pc = "ready" /\ Ready(p).todo = {}
    BY SetsProc DEF Working
  <2>3. QED
    BY <1>1, <1>2, <1>4, <1>6, <2>1, <2>2 DEF EmbedsText, Moves
<1>7. CASE proc[p].todo # {e}
  <2> DEFINE rest == proc[p].todo \ {e}
             r == [proc[p] EXCEPT !.pc = "embed", !.todo = rest]
  <2>1. rest # {} /\ rest \in SUBSET Entries
    BY <1>2, <1>7, ProcOf
  <2>2. [proc EXCEPT ![p].pc = "embed", ![p].todo = rest] = [proc EXCEPT ![p] = r]
    <3> HIDE DEF rest
    <3>1. QED
      BY ProcOf
  <2>3. Moves(p, r)
    BY <1>1, <1>5, <2>1, <2>2 DEF Moves
  <2>4. r \in Procedures /\ r.pc = "embed" /\ r.todo = rest
    <3> HIDE DEF rest
    <3>1. QED
      BY <2>1, ProcOf DEF Procedures, Working
  <2>5. r.todo = proc[p].todo \ {e}
    BY <2>4
  <2> HIDE DEF r
  <2>6. QED
    BY <1>1, <1>2, <1>4, <1>7, <2>3, <2>4, <2>5 DEF EmbedsText
<1>8. QED
  BY <1>6, <1>7

\* A list of texts is read from the word table, to be embedded.
ListsTexts(p, r) ==
  /\ proc[p].pc = "ready" /\ r.pc = "embed" /\ r.todo # {}
  /\ \A e \in r.todo : Embeds(e.item) /\ index.words[e.item][e.text] > 0
  /\ index' = index
  /\ GhostsBecome(ghost.unsure,
                  ghost.behind \union ({e.item : e \in r.todo} \intersect
                        (OthersEmbed(p) \union OthersIndex(p) \union ghost.unsure)))

LEMMA ListingIs ==
  ASSUME TypeOK, NEW p \in Procs, Backfill(p)
  PROVE  \E r \in Procedures : Moves(p, r) /\ ListsTexts(p, r)
<1> DEFINE list == {e \in Missing(index, family.model[p]) : Embeds(e.item)}
           late == {e.item : e \in list} \intersect
                        (OthersEmbed(p) \union OthersIndex(p) \union ghost.unsure)
<1>1. /\ proc[p].pc = "ready" /\ proc[p].calls > 0 /\ list # {}
      /\ Begin(p, "embed", list) /\ index' = index
      /\ ghost' = [ghost EXCEPT !.behind = @ \union late]
  BY DEF Backfill, Call
<1>2. list \in SUBSET Entries /\ \A e \in list : Embeds(e.item) /\ index.words[e.item][e.text] > 0
  BY DEF Missing, Entries
<1>3. late \subseteq Items
  BY ToWorkType, GhostOf
<1>4. /\ ghost' \in Ghosts /\ ghost'.unsure = ghost.unsure /\ ghost'.sent = ghost.sent
      /\ ghost'.behind = ghost.behind \union late /\ ghost'.kills = ghost.kills
  <2> HIDE DEF late, list
  <2>1. QED
    BY <1>1, <1>3, GhostOf DEF Ghosts
<1>5. late = {e.item : e \in list} \intersect
                        (OthersEmbed(p) \union OthersIndex(p) \union ghost.unsure)
  OBVIOUS
<1> HIDE DEF late, list
<1>6. PICK r \in Procedures : r.pc = "embed" /\ r.todo = list /\ proc' = [proc EXCEPT ![p] = r]
  BY <1>1, <1>2, BeginsProc DEF Working
<1>7. QED
  BY <1>1, <1>2, <1>4, <1>5, <1>6 DEF ListsTexts, GhostsBecome, Moves

\* The rows of a snapshot are committed, where there are none.
TakesRows(p, r) ==
  /\ proc[p].pc = "ready" /\ r.pc = "clear" /\ r.todo = {}
  /\ index' \in Indexes /\ index'.words = index.words /\ index'.vector = index.vector
  /\ \A i \in Items : index'.text[i] = IF index.text[i] = 0 THEN 1 ELSE index.text[i]
  /\ GhostsBecome(Begun(ghost.unsure, Items, OthersIndex(p)), ghost.behind)

LEMMA ImportingIs ==
  ASSUME TypeOK, NEW p \in Procs, Import(p)
  PROVE  \E r \in Procedures : Moves(p, r) /\ TakesRows(p, r)
<1> DEFINE texts == [i \in Items |-> IF index.text[i] = 0 THEN 1 ELSE index.text[i]]
<1>1. /\ proc[p].pc = "ready" /\ proc[p].calls > 0 /\ Begin(p, "clear", {})
      /\ index' = [index EXCEPT !.text = texts]
      /\ ghost' = [ghost EXCEPT !.unsure = Begun(@, Items, OthersIndex(p))]
  BY DEF Import, Call
<1>2. index \in Indexes
  BY DEF TypeOK
<1>3. texts \in [Items -> 0..MaxText]
  BY <1>2, MaxTextIsPositive DEF Indexes
<1>4. \A i \in Items : texts[i] = IF index.text[i] = 0 THEN 1 ELSE index.text[i]
  OBVIOUS
<1> HIDE DEF texts
<1>5. /\ index' \in Indexes /\ index'.words = index.words /\ index'.vector = index.vector
      /\ index'.text = texts
  BY <1>1, <1>2, <1>3 DEF Indexes
<1>6. GhostsBecome(Begun(ghost.unsure, Items, OthersIndex(p)), ghost.behind)
  BY <1>1, BegunIs, GhostOf DEF GhostsBecome, Ghosts
<1>7. PICK r \in Procedures : r.pc = "clear" /\ r.todo = {} /\ proc' = [proc EXCEPT ![p] = r]
  BY <1>1, BeginsProc DEF Working
<1>8. QED
  BY <1>1, <1>4, <1>5, <1>6, <1>7 DEF TakesRows, Moves

\* The word table is emptied.
ClearsWords(p, r) ==
  /\ proc[p].pc = "clear" /\ r.pc = "fill" /\ r.next = 0 /\ r.todo = proc[p].todo
  /\ index' \in Indexes /\ index'.text = index.text /\ index'.vector = index.vector
  /\ \A i \in Items : index'.words[i] = NoWords
  /\ ghost' = ghost

LEMMA ClearingIs ==
  ASSUME TypeOK, NEW p \in Procs, Clear(p)
  PROVE  \E r \in Procedures : Moves(p, r) /\ ClearsWords(p, r)
<1> DEFINE r == [proc[p] EXCEPT !.pc = "fill", !.next = 0]
<1>1. /\ proc[p].pc = "clear" /\ index' = Emptied(index) /\ ghost' = ghost
      /\ proc' = [proc EXCEPT ![p].pc = "fill", ![p].next = 0]
  BY DEF Clear
<1>2. proc' = [proc EXCEPT ![p] = r]
  BY <1>1, ProcOf
<1>3. r \in Procedures /\ r.pc = "fill" /\ r.next = 0 /\ r.todo = proc[p].todo
  <2>1. "fill" \in Opening \union Working /\ 0 \in 0..(SchemaVersion + 1)
    BY DEF Working, SchemaVersion
  <2>2. QED
    BY <2>1, ProcOf DEF Procedures
<1> HIDE DEF r
<1>4. index \in Indexes
  BY DEF TypeOK
<1>5. ClearsWords(p, r)
  BY <1>1, <1>3, <1>4, EmptiedIs DEF ClearsWords
<1>6. QED
  BY <1>2, <1>3, <1>5 DEF Moves

\* It is filled: a row of the kind at hand, the next kind's rows, or there are no more.
FillsRow(p, r, e) ==
  /\ proc[p].pc = "fill" /\ r.pc = "fill" /\ r.next = proc[p].next
  /\ e \in proc[p].todo /\ r.todo = proc[p].todo \ {e}
  /\ index' \in Indexes /\ index'.text = index.text /\ index'.vector = index.vector
  /\ \A j \in Items : j # e.item => index'.words[j] = index.words[j]
  /\ index.words[e.item] = NoWords => index'.words[e.item] = [NoWords EXCEPT ![e.text] = 1]
  /\ ghost' = ghost

TakesKind(p, r) ==
  /\ proc[p].pc = "fill" /\ r.pc = "fill" /\ proc[p].todo = {}
  /\ proc[p].next < 3 /\ r.next = proc[p].next + 1
  /\ \A e \in Entries : e \in r.todo <=> /\ KindOf(e.item) = r.next
                                         /\ index.text[e.item] # 0
                                         /\ e.text = index.text[e.item]
  /\ index' = index /\ ghost' = ghost

EndsFilling(p, r) ==
  /\ proc[p].pc = "fill" /\ proc[p].todo = {} /\ proc[p].next = 3
  /\ r.pc = "ready" /\ r.todo = {}
  /\ index' = index /\ ghost' = ghost

LEMMA KindsInOrder ==
  ASSUME NEW k \in 1..3, NEW i \in Items
  PROVE  i \in KindOrder[k] <=> KindOf(i) = k
<1>1. /\ KindOrder[1] = Items \ (Specs \union Notes)
      /\ KindOrder[2] = Notes /\ KindOrder[3] = Specs
  BY DEF KindOrder
<1>2. k = 1 \/ k = 2 \/ k = 3
  OBVIOUS
<1>3. QED
  BY <1>1, <1>2, ItemKindsOk DEF KindOf

LEMMA FillingIs ==
  ASSUME TypeOK, NEW p \in Procs, Fill(p)
  PROVE  \E r \in Procedures :
            /\ Moves(p, r)
            /\ \/ \E e \in Entries : FillsRow(p, r, e)
               \/ TakesKind(p, r)
               \/ EndsFilling(p, r)
<1>1. proc[p].pc = "fill" /\ ghost' = ghost
  BY DEF Fill
<1>2. index \in Indexes /\ Len(KindOrder) = 3
  BY DEF TypeOK, KindOrder
<1>3. CASE /\ proc[p].todo # {}
           /\ LET e == FirstOf(proc[p].todo) IN
              /\ index' = Indexed(index, e.item, e.text)
              /\ proc' = [proc EXCEPT ![p].todo = @ \ {e}]
  <2>1. PICK e \in Entries : e = FirstOf(proc[p].todo) /\ e \in proc[p].todo
    BY <1>3, FirstOfTodo
  <2>2. PICK i \in Items, t \in Texts : i = e.item /\ t = e.text
    BY DEF Entries
  <2>3. index' = Indexed(index, i, t) /\ proc' = [proc EXCEPT ![p].todo = @ \ {e}]
    BY <1>3, <2>1, <2>2
  <2>4. /\ Indexed(index, i, t) \in Indexes
        /\ Indexed(index, i, t).text = index.text /\ Indexed(index, i, t).vector = index.vector
        /\ \A j \in Items : j # i => Indexed(index, i, t).words[j] = index.words[j]
        /\ index.words[i] = NoWords => Indexed(index, i, t).words[i] = [NoWords EXCEPT ![t] = 1]
    BY <1>2, IndexedIs
  <2> DEFINE r == [proc[p] EXCEPT !.todo = @ \ {e}]
  <2>5. proc' = [proc EXCEPT ![p] = r]
    BY <2>3
  <2>6. /\ r \in Procedures /\ r.pc = proc[p].pc /\ r.next = proc[p].next
        /\ r.todo = proc[p].todo \ {e}
    BY ProcOf DEF Procedures
  <2> HIDE DEF r
  <2>7. FillsRow(p, r, e)
    BY <1>1, <2>1, <2>2, <2>3, <2>4, <2>6 DEF FillsRow
  <2>8. QED
    BY <2>5, <2>6, <2>7 DEF Moves
<1>4. CASE /\ proc[p].todo = {} /\ proc[p].next < 3
           /\ proc' = [proc EXCEPT ![p].next = @ + 1,
                                   ![p].todo = TextsOf(KindOrder[proc[p].next + 1])]
           /\ index' = index
  <2>1. PICK k \in 1..3 : k = proc[p].next + 1
    BY <1>4, ProcOf DEF SchemaVersion
  <2>2. /\ TextsOf(KindOrder[k]) \in SUBSET Entries
        /\ \A e \in Entries : e \in TextsOf(KindOrder[k]) <=> /\ KindOf(e.item) = k
                                                              /\ index.text[e.item] # 0
                                                              /\ e.text = index.text[e.item]
    <3>1. \A i \in Items : index.text[i] # 0 => index.text[i] \in Texts
      BY <1>2, MaxTextIsPositive DEF Indexes, Texts
    <3>2. \A i \in Items : i \in KindOrder[k] \intersect Rows(index)
                             <=> KindOf(i) = k /\ index.text[i] # 0
      BY KindsInOrder DEF Rows
    <3>3. KindOrder[k] \intersect Rows(index) \subseteq Items
      BY DEF Rows
    <3> HIDE DEF Rows, KindOf
    <3>4. TextsOf(KindOrder[k]) \in SUBSET Entries
      BY <3>1, <3>2, <3>3 DEF TextsOf, Entries
    <3>5. ASSUME NEW e \in Entries
          PROVE  e \in TextsOf(KindOrder[k]) <=> /\ KindOf(e.item) = k
                                                 /\ index.text[e.item] # 0
                                                 /\ e.text = index.text[e.item]
      <4>1. e.item \in Items /\ e = [item |-> e.item, text |-> e.text]
        BY DEF Entries
      <4>2. e \in TextsOf(KindOrder[k])
              <=> /\ e.item \in KindOrder[k] \intersect Rows(index)
                  /\ e.text = index.text[e.item]
        BY <4>1, <3>3 DEF TextsOf
      <4>3. QED
        BY <3>2, <4>1, <4>2
    <3>6. QED
      BY <3>4, <3>5
  <2> DEFINE r == [proc[p] EXCEPT !.next = k, !.todo = TextsOf(KindOrder[k])]
  <2>3. proc' = [proc EXCEPT ![p] = r]
    BY <1>4, <2>1, ProcOf
  <2>4. /\ r \in Procedures /\ r.pc = proc[p].pc /\ r.next = k
        /\ r.todo = TextsOf(KindOrder[k])
    <3>1. k \in 0..(SchemaVersion + 1)
      BY DEF SchemaVersion
    <3>2. QED
      BY <2>2, <3>1, ProcOf DEF Procedures
  <2> HIDE DEF r
  <2>5. TakesKind(p, r)
    BY <1>1, <1>4, <2>1, <2>2, <2>4 DEF TakesKind
  <2>6. QED
    BY <2>3, <2>4, <2>5 DEF Moves
<1>5. CASE proc[p].todo = {} /\ proc[p].next = 3 /\ proc' = Done(p) /\ index' = index
  <2>1. Ready(p) \in Procedures /\ Ready(p).pc = "ready" /\ Ready(p).todo = {}
    BY SetsProc DEF Working
  <2>2. proc' = [proc EXCEPT ![p] = Ready(p)]
    BY <1>5 DEF Done
  <2>3. EndsFilling(p, Ready(p))
    BY <1>1, <1>5, <2>1 DEF EndsFilling
  <2>4. QED
    BY <2>1, <2>2, <2>3 DEF Moves
<1>6. QED
  BY <1>2, <1>3, <1>4, <1>5 DEF Fill

-----------------------------------------------------------------------------
(* A step of any kind.                                                     *)

Opens(p)  == Open(p) \/ Copy(p) \/ CopyDone(p) \/ CreateTables(p) \/ Migrate(p)
GivesUp(p) == IndexFails(p) \/ NotEmbedded(p)

\* Every step has one of these forms.
Forms(p, r) ==
  /\ Moves(p, r)
  /\ \/ Released(p, r)
     \/ \E i \in Items, t \in Texts : StartsText(p, r, i, t)
     \/ \E e \in Entries : \/ WritesWords(p, r, e) \/ SendsText(p, r, e)
                           \/ EmbedsText(p, r, e) \/ FillsRow(p, r, e)
     \/ ListsTexts(p, r) \/ TakesRows(p, r) \/ ClearsWords(p, r)
     \/ TakesKind(p, r) \/ EndsFilling(p, r)

LEMMA StepForms ==
  ASSUME TypeOK, ListsFit, NEW p \in Procs, Steps(p)
  PROVE  \E r \in Procedures : Forms(p, r)
<1>1. CASE Opens(p)
  <2>1. PICK r \in Procedures : Released(p, r)
    BY <1>1, OpeningIs DEF Opens
  <2>2. QED
    BY <2>1 DEF Forms, Released
<1>2. CASE GivesUp(p) \/ Kill(p)
  <2>1. PICK r \in Procedures : Released(p, r)
    BY <1>2, GivingUpIs DEF GivesUp
  <2>2. QED
    BY <2>1 DEF Forms, Released
<1>3. CASE Add(p) \/ Revise(p)
  BY <1>3, StartingIs DEF Forms
<1>4. CASE IndexIt(p) \/ ReindexIt(p)
  BY <1>4, WritingIs DEF Forms
<1>5. CASE Send(p)
  BY <1>5, SendingIs DEF Forms
<1>6. CASE Answered(p) \/ NotAnswered(p)
  BY <1>6, EmbeddingIs DEF Forms
<1>7. CASE Backfill(p)
  BY <1>7, ListingIs DEF Forms
<1>8. CASE Import(p)
  BY <1>8, ImportingIs DEF Forms
<1>9. CASE Clear(p)
  BY <1>9, ClearingIs DEF Forms
<1>10. CASE Fill(p)
  BY <1>10, FillingIs DEF Forms
<1>11. QED
  BY <1>1, <1>2, <1>3, <1>4, <1>5, <1>6, <1>7, <1>8, <1>9, <1>10 DEF Steps, Opens, GivesUp

LEMMA FormsFit ==
  ASSUME TypeOK, NEW p \in Procs, NEW r \in Procedures, Forms(p, r)
  PROVE  index' \in Indexes /\ ghost' \in Ghosts /\ proc' \in [Procs -> Procedures]
<1>1. index \in Indexes /\ ghost \in Ghosts
  BY GhostOf DEF TypeOK
<1>2. proc' \in [Procs -> Procedures]
  BY ProcOf DEF Forms, Moves
<1>3. ASSUME NEW i \in Items, NEW t \in Texts, StartsText(p, r, i, t)
      PROVE  index' \in Indexes /\ ghost' \in Ghosts
  BY <1>1, <1>3, WrittenIs DEF StartsText, GhostsBecome
<1>4. ASSUME NEW e \in Entries,
             \/ WritesWords(p, r, e) \/ SendsText(p, r, e)
             \/ EmbedsText(p, r, e) \/ FillsRow(p, r, e)
      PROVE  index' \in Indexes /\ ghost' \in Ghosts
  BY <1>1, <1>4 DEF WritesWords, SendsText, EmbedsText, FillsRow, GhostsBecome
<1>5. CASE Released(p, r) \/ ListsTexts(p, r)
  BY <1>1, <1>2, <1>5 DEF Released, ListsTexts, GhostsBecome
<1>6. CASE TakesRows(p, r) \/ ClearsWords(p, r)
  BY <1>1, <1>2, <1>6 DEF TakesRows, ClearsWords, GhostsBecome
<1>7. CASE TakesKind(p, r) \/ EndsFilling(p, r)
  BY <1>1, <1>2, <1>7 DEF TakesKind, EndsFilling
<1>8. QED
  BY <1>2, <1>3, <1>4, <1>5, <1>6, <1>7 DEF Forms

\* The set-up never changes, and a process at work leaves the file's shape alone.
LEMMA AtWorkIs ==
  ASSUME TypeOK, ListsFit, NEW p \in Procs, Steps(p), ~Opens(p), ~Kill(p)
  PROVE  /\ UNCHANGED <<family, file>> /\ ghost'.kills = ghost.kills
         /\ proc[p].pc \in Working
         /\ \E r \in Procedures : Moves(p, r) /\ r.pc \in Working
<1>1. UNCHANGED <<family, file>>
  BY DEF Steps, Opens, Add, Revise, IndexIt, ReindexIt, IndexFails, NotEmbedded, Send, Answered,
         NotAnswered, Backfill, Import, Clear, Fill
<1>2. CASE GivesUp(p)
  <2>1. /\ Moves(p, Ready(p)) /\ ghost' = GivenUp(p)
        /\ proc[p].pc \in {"index", "reindex", "embed"}
    BY <1>2 DEF GivesUp, IndexFails, NotEmbedded, Done, Moves
  <2>2. "ready" \in Working
    BY DEF Working
  <2>3. QED
    BY <1>1, <2>1, <2>2, SetsProc, GivenUpIs DEF Working
<1>3. CASE Add(p) \/ Revise(p)
  BY <1>1, <1>3, StartingIs DEF StartsText, GhostsBecome, Working
<1>4. CASE IndexIt(p) \/ ReindexIt(p)
  <2>1. PICK r \in Procedures, e \in Entries : Moves(p, r) /\ WritesWords(p, r, e)
    BY <1>4, WritingIs
  <2>2. r.pc \in {"embed", "ready"} /\ proc[p].pc \in {"index", "reindex"} /\ ghost' = ghost
    BY <2>1 DEF WritesWords
  <2>3. QED
    BY <1>1, <2>1, <2>2 DEF Working
<1>5. CASE Send(p)
  BY <1>1, <1>5, SendingIs DEF SendsText, Working
<1>6. CASE Answered(p) \/ NotAnswered(p)
  <2>1. PICK r \in Procedures, e \in Entries : Moves(p, r) /\ EmbedsText(p, r, e)
    BY <1>6, EmbeddingIs
  <2>2. /\ r.pc \in {"embed", "ready"} /\ proc[p].pc = "await"
        /\ ghost'.kills = ghost.kills
    BY <2>1 DEF EmbedsText, GhostsBecome
  <2>3. QED
    BY <1>1, <2>1, <2>2 DEF Working
<1>7. CASE Backfill(p)
  BY <1>1, <1>7, ListingIs DEF ListsTexts, GhostsBecome, Working
<1>8. CASE Import(p)
  BY <1>1, <1>8, ImportingIs DEF TakesRows, GhostsBecome, Working
<1>9. CASE Clear(p)
  BY <1>1, <1>9, ClearingIs DEF ClearsWords, Working
<1>10. CASE Fill(p)
  BY <1>1, <1>10, FillingIs DEF FillsRow, TakesKind, EndsFilling, Working
<1>11. QED
  BY <1>2, <1>3, <1>4, <1>5, <1>6, <1>7, <1>8, <1>9, <1>10 DEF Steps, Opens, GivesUp

-----------------------------------------------------------------------------
(* The file stays whole.                                                   *)

FileInv == TypeOK /\ SchemaInv

LEMMA FileOfSettings ==
  ASSUME TypeOK
  PROVE  /\ file \in Files /\ file.version \in Nat /\ family.start \in Nat
         /\ family.start \in 0..SchemaVersion
         /\ \A p \in Procs : /\ family.build[p] \in Nat
                             /\ family.build[p] \in 1..SchemaVersion
                             /\ proc[p].saw \in 0..SchemaVersion /\ proc[p].saw \in Nat
                             /\ proc[p].next \in Nat
         /\ ghost.kills \in Nat
<1>1. 0..SchemaVersion \subseteq Nat /\ 0..(SchemaVersion + 1) \subseteq Nat
  BY DEF SchemaVersion
<1>2. file \in Files /\ file.version \in 0..SchemaVersion
  BY DEF TypeOK, Files
<1>3. ghost.kills \in 0..MaxKills
  BY DEF TypeOK
<1>4. QED
  BY <1>1, <1>2, <1>3, SettingsOf, ProcOf, MaxKillsIsNatural DEF SchemaVersion

LEMMA OpensFile ==
  ASSUME FileInv, NEW p \in Procs, Open(p)
  PROVE  file' \in Files /\ SchemaInv'
<1> DEFINE r == [Closed(p) EXCEPT !.saw = file.version,
                   !.pc = IF TooNew(family.build[p], file.version) THEN "refused"
                          ELSE IF UpToDate(family.build[p], file.version) THEN "ready"
                          ELSE IF WantsCopy(file.version) THEN "behind" ELSE "ddl"]
<1>1. /\ proc' = [proc EXCEPT ![p] = r]
      /\ file' = file /\ family' = family /\ ghost' = ghost
  BY DEF Open
<1>2. /\ r.saw = file.version
      /\ r.pc \in {"refused", "ready", "behind", "ddl"}
      /\ r.pc = "ready" => file.version = family.build[p]
      /\ r.pc = "ddl" => file.version = 0
  BY FileOfSettings DEF Closed, FileInv, UpToDate, WantsCopy
<1> HIDE DEF r
<1>3. proc'[p] = r /\ \A q \in Procs : q # p => proc'[q] = proc[q]
  BY <1>1, ProcOf DEF FileInv
<1>4. TypeOK /\ VersionTellsTheSchema /\ WorksOnItsSchema /\ VersionMovesOn /\ CopyComesFirst
  BY DEF FileInv, SchemaInv
<1>5. /\ file \in Files /\ file.version \in Nat /\ family.start \in Nat
      /\ family.build[p] \in Nat
  BY <1>4, FileOfSettings
<1>6. r.pc \in Working => r.pc = "ready"
  BY <1>2 DEF Working
<1>7. VersionTellsTheSchema'
  BY <1>1, <1>2, <1>3, <1>4, <1>5, <1>6 DEF VersionTellsTheSchema
<1>8. WorksOnItsSchema'
  <2>1. r.pc = "ready" => Known(family.build[p]) \subseteq file.has
    BY <1>2, <1>4, <1>5, KnownByVersion DEF VersionTellsTheSchema
  <2>2. QED
    BY <1>1, <1>3, <1>4, <1>6, <2>1 DEF WorksOnItsSchema
<1>9. VersionMovesOn'
  BY <1>1, <1>2, <1>3, <1>4, <1>5 DEF VersionMovesOn
<1>10. CopyComesFirst'
  BY <1>1, <1>2, <1>3, <1>4, <1>5 DEF CopyComesFirst, VersionMovesOn
<1>11. QED
  BY <1>1, <1>5, <1>7, <1>8, <1>9, <1>10 DEF SchemaInv

LEMMA CopiesFile ==
  ASSUME FileInv, NEW p \in Procs, Copy(p)
  PROVE  file' \in Files /\ SchemaInv'
<1> DEFINE from == proc[p].saw
<1>1. TypeOK /\ VersionTellsTheSchema /\ WorksOnItsSchema /\ VersionMovesOn /\ CopyComesFirst
  BY DEF FileInv, SchemaInv
<1>2. /\ file \in Files /\ file.version \in Nat /\ family.start \in Nat
      /\ from \in 0..SchemaVersion /\ from \in Nat /\ family.start \in 0..SchemaVersion
      /\ from >= family.start /\ from <= file.version
  BY <1>1, FileOfSettings DEF VersionMovesOn, Copy
<1>3. family' = family /\ ghost' = ghost /\ proc[p].pc = "behind"
  BY DEF Copy
<1>4. PICK s \in {"copying", "ddl"} :
        /\ proc' = Going(p, s)
        /\ IF MayCopy(file, from) THEN file' = Copying(file, from) /\ s = "copying"
           ELSE file' = file /\ s = "ddl"
  BY DEF Copy
<1>5. PICK r \in Procedures : r.pc = s /\ r.saw = from /\ proc' = [proc EXCEPT ![p] = r]
  BY <1>1, <1>4, GoesIs DEF Opening
<1>6. proc'[p] = r /\ \A q \in Procs : q # p => proc'[q] = proc[q]
  BY <1>1, <1>5, ProcOf
<1>7. /\ file' \in Files /\ file'.version = file.version /\ file'.has = file.has
      /\ \A k \in 0..SchemaVersion : k # from => file'.copies[k] = file.copies[k]
      /\ IF MayCopy(file, from)
         THEN file'.copies[from].state = "writing" /\ file'.copies[from].of = file.version
         ELSE file'.copies[from] = file.copies[from] /\ file.copies[from].state # "none"
  <2> HIDE DEF from
  <2>1. CASE MayCopy(file, from)
    <3>1. /\ Copying(file, from) \in Files
          /\ Copying(file, from).version = file.version /\ Copying(file, from).has = file.has
          /\ Copying(file, from).copies[from].state = "writing"
          /\ Copying(file, from).copies[from].of = file.version
          /\ \A k \in 0..SchemaVersion : k # from => Copying(file, from).copies[k] = file.copies[k]
      BY <1>2, CopyingIs
    <3>2. QED
      BY <1>4, <2>1, <3>1
  <2>2. CASE ~MayCopy(file, from)
    BY <1>2, <1>4, <2>2 DEF MayCopy
  <2>3. QED
    BY <2>1, <2>2
<1>8. s \notin Working /\ s \notin {"migrating", "behind"}
  BY DEF Working
<1> HIDE DEF from
<1>9. VersionTellsTheSchema'
  BY <1>1, <1>3, <1>5, <1>6, <1>7, <1>8 DEF VersionTellsTheSchema
<1>10. WorksOnItsSchema'
  BY <1>1, <1>3, <1>5, <1>6, <1>7, <1>8 DEF WorksOnItsSchema
<1>11. VersionMovesOn'
  BY <1>1, <1>2, <1>3, <1>5, <1>6, <1>7 DEF VersionMovesOn
<1>12. CopyComesFirst'
  <2>1. SUFFICES ASSUME family.start > 0 PROVE CopyComesFirst'
    BY <1>3 DEF CopyComesFirst
  <2>2. CASE from # family.start
    <3>1. file.version > family.start
      BY <1>2, <2>2
    <3>2. QED
      BY <1>1, <1>2, <1>3, <1>7, <2>1, <2>2, <3>1 DEF CopyComesFirst
  <2>3. CASE from = family.start /\ MayCopy(file, from)
    <3>1. ~(file.version > family.start)
      BY <1>1, <2>1, <2>3 DEF CopyComesFirst, MayCopy
    <3>2. file.version = family.start
      BY <1>2, <3>1
    <3>3. QED
      BY <1>3, <1>7, <2>3, <3>2 DEF CopyComesFirst
  <2>4. CASE from = family.start /\ ~MayCopy(file, from)
    BY <1>1, <1>3, <1>7, <2>1, <2>4 DEF CopyComesFirst
  <2>5. QED
    BY <2>2, <2>3, <2>4
<1>13. QED
  BY <1>7, <1>9, <1>10, <1>11, <1>12 DEF SchemaInv

\* The copy is made, or its maker is killed over it.
LEMMA EndsCopy ==
  ASSUME FileInv, NEW p \in Procs, proc[p].pc = "copying", NEW how \in {"torn", "whole"},
         file' = CopyEnds(file, proc[p].saw, how), family' = family,
         NEW r \in Procedures, proc' = [proc EXCEPT ![p] = r], r.pc \in {"ddl", "closed"},
         ghost'.kills \in Nat, ghost'.kills >= ghost.kills, how = "torn" => ghost'.kills > 0
  PROVE  file' \in Files /\ SchemaInv'
<1> DEFINE from == proc[p].saw
<1>1. TypeOK /\ VersionTellsTheSchema /\ WorksOnItsSchema /\ VersionMovesOn /\ CopyComesFirst
  BY DEF FileInv, SchemaInv
<1>2. /\ file \in Files /\ file.version \in Nat /\ family.start \in Nat
      /\ from \in 0..SchemaVersion /\ from \in Nat /\ family.start \in 0..SchemaVersion
      /\ ghost.kills \in Nat
  BY <1>1, FileOfSettings
<1>3. proc'[p] = r /\ \A q \in Procs : q # p => proc'[q] = proc[q]
  BY <1>1, ProcOf
<1>4. /\ file' \in Files /\ file'.version = file.version /\ file'.has = file.has
      /\ \A k \in 0..SchemaVersion : k # from => file'.copies[k] = file.copies[k]
      /\ file'.copies[from].state = how /\ file'.copies[from].of = file.copies[from].of
  <2>1. file' = CopyEnds(file, from, how)
    OBVIOUS
  <2>2. file \in Files /\ from \in 0..SchemaVersion /\ how \in {"torn", "whole"}
    BY <1>2
  <2> HIDE DEF from
  <2>3. PICK f \in Files, n \in 0..SchemaVersion : f = file /\ n = from
    BY <2>2
  <2>4. /\ CopyEnds(f, n, how) \in Files
        /\ CopyEnds(f, n, how).version = f.version /\ CopyEnds(f, n, how).has = f.has
        /\ CopyEnds(f, n, how).copies[n].state = how
        /\ CopyEnds(f, n, how).copies[n].of = f.copies[n].of
    BY CopyEndsIs
  <2>5. ASSUME NEW k \in 0..SchemaVersion, k # n
        PROVE  CopyEnds(f, n, how).copies[k] = f.copies[k]
    BY <2>5, OtherCopies
  <2>6. QED
    BY <2>1, <2>3, <2>4, <2>5
<1>5. r.pc \notin Working /\ r.pc \notin {"migrating", "behind", "copying"}
  BY DEF Working
<1> HIDE DEF from
<1>6. VersionTellsTheSchema'
  BY <1>1, <1>3, <1>4, <1>5 DEF VersionTellsTheSchema
<1>7. WorksOnItsSchema'
  BY <1>1, <1>3, <1>4, <1>5 DEF WorksOnItsSchema
<1>8. VersionMovesOn'
  BY <1>1, <1>3, <1>4, <1>5 DEF VersionMovesOn
<1>9. CopyComesFirst'
  <2>1. SUFFICES ASSUME family.start > 0 PROVE CopyComesFirst'
    BY DEF CopyComesFirst
  <2>2. file.copies[family.start].state # "none" /\ file.copies[family.start].of = family.start
    BY <1>1, <2>1 DEF CopyComesFirst
  <2>3. file'.copies[family.start].state # "none" /\ file'.copies[family.start].of = family.start
    BY <1>2, <1>4, <2>2
  <2>4. file'.copies[family.start].state = "torn" => ghost'.kills > 0
    BY <1>1, <1>2, <1>4, <2>1 DEF CopyComesFirst
  <2>5. QED
    BY <2>3, <2>4 DEF CopyComesFirst
<1>10. QED
  BY <1>4, <1>6, <1>7, <1>8, <1>9 DEF SchemaInv

\* The file gains changes, its version and copies stay, and the process makes none of
\* the promises that depend on its place but the ones given.
LEMMA FileGains ==
  ASSUME FileInv, NEW p \in Procs, family' = family,
         file' \in Files, file'.version = file.version, file'.copies = file.copies,
         file.has \subseteq file'.has,
         NEW r \in Procedures, proc' = [proc EXCEPT ![p] = r],
         ghost'.kills \in Nat, ghost'.kills >= ghost.kills,
         r.pc \notin {"behind", "copying"},
         r.pc \in {"ddl", "migrating"} => proc[p].pc \in {"copying", "ddl", "migrating"},
         r.pc = "migrating" => file.version >= r.next - 1,
         r.pc \in Working => file.version >= family.build[p]
  PROVE  SchemaInv'
<1>1. TypeOK /\ VersionTellsTheSchema /\ WorksOnItsSchema /\ VersionMovesOn /\ CopyComesFirst
  BY DEF FileInv, SchemaInv
<1>2. /\ file \in Files /\ file.version \in Nat /\ family.start \in Nat /\ ghost.kills \in Nat
      /\ family.build[p] \in Nat
  BY <1>1, FileOfSettings
<1>3. proc'[p] = r /\ \A q \in Procs : q # p => proc'[q] = proc[q]
  BY <1>1, ProcOf
<1>4. VersionTellsTheSchema'
  BY <1>1, <1>3 DEF VersionTellsTheSchema
<1>5. WorksOnItsSchema'
  <2>1. r.pc \in Working => Known(family.build[p]) \subseteq file.has
    BY <1>1, <1>2, KnownByVersion DEF VersionTellsTheSchema
  <2>2. QED
    BY <1>1, <1>3, <2>1 DEF WorksOnItsSchema
<1>6. VersionMovesOn'
  BY <1>1, <1>3 DEF VersionMovesOn
<1>7. CopyComesFirst'
  BY <1>1, <1>2, <1>3 DEF CopyComesFirst
<1>8. QED
  BY <1>4, <1>5, <1>6, <1>7 DEF SchemaInv

LEMMA MigratesFile ==
  ASSUME FileInv, NEW p \in Procs, Migrate(p), proc[p].next <= family.build[p]
  PROVE  file' \in Files /\ SchemaInv'
<1> DEFINE m == proc[p].next
           r == [proc[p] EXCEPT !.next = m + 1]
<1>1. TypeOK /\ VersionTellsTheSchema /\ WorksOnItsSchema /\ VersionMovesOn /\ CopyComesFirst
  BY DEF FileInv, SchemaInv
<1>2. /\ file \in Files /\ file.version \in Nat /\ family.start \in Nat /\ m \in Nat
      /\ m <= SchemaVersion
      /\ \A q \in Procs : family.build[q] \in Nat /\ proc[q].next \in Nat /\ proc[q].saw \in Nat
  BY <1>1, FileOfSettings DEF SchemaVersion
<1>3. /\ file' = Migrated(m, file) /\ proc' = [proc EXCEPT ![p] = r]
      /\ proc[p].pc = "migrating" /\ family' = family /\ ghost' = ghost
  BY DEF Migrate
<1>4. r.pc = "migrating" /\ r.next = m + 1 /\ r \in Procedures
  <2>1. m + 1 \in 0..(SchemaVersion + 1)
    BY <1>2 DEF SchemaVersion
  <2>2. QED
    BY <1>1, <1>3, <2>1, ProcOf DEF Procedures
<1> HIDE DEF r
<1>5. proc'[p] = r /\ \A q \in Procs : q # p => proc'[q] = proc[q]
  BY <1>1, <1>3, ProcOf
<1>6. file.version >= m - 1
  BY <1>1, <1>3 DEF VersionTellsTheSchema
<1>7. CASE m = 0
  <2>1. file' = file
    BY <1>2, <1>3, <1>7 DEF Migrated
  <2>2. r.next - 1 = 0
    BY <1>4, <1>7
  <2>3. r.pc \notin {"behind", "copying"} /\ r.pc \notin Working
    BY <1>4 DEF Working
  <2>4. file.version >= r.next - 1 /\ ghost.kills \in Nat
    BY <1>1, <1>2, <2>2, FileOfSettings
  <2>5. /\ file' \in Files /\ file'.version = file.version /\ file'.copies = file.copies
        /\ file.has \subseteq file'.has
    BY <1>2, <2>1
  <2>6. ghost'.kills \in Nat /\ ghost'.kills >= ghost.kills
    BY <1>3, <2>4
  <2>7. SchemaInv'
    BY <1>3, <1>4, <2>3, <2>4, <2>5, <2>6, FileGains
  <2>8. QED
    BY <2>5, <2>7
<1>8. CASE m # 0
  <2>1. m \in 1..SchemaVersion
    BY <1>2, <1>8 DEF SchemaVersion
  <2>2. /\ file' \in Files /\ file'.copies = file.copies /\ file.has \subseteq file'.has
        /\ file'.version >= m /\ file'.version >= file.version
        /\ \A k \in 1..file'.version : ChangesOf(k) \subseteq file'.has
    BY <1>1, <1>2, <1>3, <1>6, <2>1, MigratedIs DEF VersionTellsTheSchema
  <2>3. file'.version \in Nat
    BY <2>2 DEF Files, SchemaVersion
  <2>4. "migrating" \notin Working
    BY DEF Working
  <2>5. VersionTellsTheSchema'
    BY <1>1, <1>2, <1>3, <1>4, <1>5, <2>2, <2>3, <2>4 DEF VersionTellsTheSchema
  <2>6. WorksOnItsSchema'
    BY <1>1, <1>3, <1>4, <1>5, <2>2, <2>4 DEF WorksOnItsSchema
  <2>7. VersionMovesOn'
    BY <1>1, <1>2, <1>3, <1>4, <1>5, <2>2, <2>3 DEF VersionMovesOn
  <2>8. CopyComesFirst'
    BY <1>1, <1>2, <1>3, <2>2 DEF CopyComesFirst
  <2>9. QED
    BY <2>2, <2>5, <2>6, <2>7, <2>8 DEF SchemaInv
<1>9. QED
  BY <1>7, <1>8

LEMMA FileStands ==
  ASSUME FileInv
  PROVE  /\ file \in Files /\ file.has \subseteq file.has
         /\ ghost.kills \in Nat /\ ghost.kills >= ghost.kills
         /\ "ddl" \notin Working /\ "closed" \notin Working /\ "migrating" \notin Working
BY FileOfSettings DEF FileInv, Working

LEMMA KillsOverFile ==
  ASSUME FileInv, NEW p \in Procs, Kill(p)
  PROVE  file' \in Files /\ SchemaInv'
<1>1. TypeOK
  BY DEF FileInv
<1>2. /\ proc' = [proc EXCEPT ![p] = Closed(p)] /\ family' = family
      /\ ghost' = [GivenUp(p) EXCEPT !.kills = @ + 1]
  BY DEF Kill
<1>3. Closed(p) \in Procedures /\ Closed(p).pc = "closed"
  BY <1>1, SetsProc DEF Opening
<1>4. ghost'.kills = ghost.kills + 1
  BY <1>1, <1>2, GivenUpIs DEF Ghosts
<1>5. ghost'.kills \in Nat /\ ghost'.kills >= ghost.kills /\ ghost'.kills > 0
  BY <1>4, FileStands
<1>6. PICK r \in Procedures : /\ r.pc = "closed" /\ proc' = [proc EXCEPT ![p] = r]
  BY <1>2, <1>3
<1>7. CASE proc[p].pc = "copying"
  <2>1. file' = CopyEnds(file, proc[p].saw, "torn")
    BY <1>7 DEF Kill
  <2>2. PICK how \in {"torn", "whole"} : how = "torn"
    OBVIOUS
  <2>3. file' = CopyEnds(file, proc[p].saw, how)
    BY <2>1, <2>2
  <2>4. QED
    BY <1>2, <1>5, <1>6, <1>7, <2>2, <2>3, EndsCopy
<1>8. CASE proc[p].pc # "copying"
  <2>1. /\ file' \in Files /\ file'.version = file.version /\ file'.copies = file.copies
        /\ file.has \subseteq file'.has
    <3>1. CASE proc[p].pc = "ddl"
      <4>1. file' \in {file} \union DdlCutShort(family.build[p], file)
        BY <3>1 DEF Kill
      <4>2. QED
        BY <4>1, FileStands, DdlCutShortIs
    <3>2. CASE proc[p].pc # "ddl"
      <4>1. file' = file
        BY <1>8, <3>2 DEF Kill
      <4>2. QED
        BY <4>1, FileStands
    <3>3. QED
      BY <3>1, <3>2
  <2>2. SchemaInv'
    BY <1>2, <1>5, <1>6, <2>1, FileStands, FileGains
  <2>3. QED
    BY <2>1, <2>2
<1>9. QED
  BY <1>7, <1>8

LEMMA FileStep ==
  ASSUME FileInv, ListsFit, NEW p \in Procs, Steps(p)
  PROVE  file' \in Files /\ family' = family /\ SchemaInv'
<1>1. TypeOK /\ VersionTellsTheSchema
  BY DEF FileInv, SchemaInv
<1>2. CASE Open(p)
  BY <1>2, OpensFile DEF Open
<1>3. CASE Copy(p)
  BY <1>3, CopiesFile DEF Copy
<1>4. CASE CopyDone(p)
  <2>1. /\ proc[p].pc = "copying" /\ file' = CopyEnds(file, proc[p].saw, "whole")
        /\ proc' = Going(p, "ddl") /\ family' = family /\ ghost' = ghost
    BY <1>4 DEF CopyDone
  <2>2. PICK how \in {"torn", "whole"} : how = "whole"
    OBVIOUS
  <2>3. PICK r \in Procedures : r.pc = "ddl" /\ proc' = [proc EXCEPT ![p] = r]
    BY <1>1, <2>1, GoesIs DEF Opening
  <2>4. ghost'.kills \in Nat /\ ghost'.kills >= ghost.kills
    BY <2>1, FileStands
  <2>5. file' = CopyEnds(file, proc[p].saw, how)
    BY <2>1, <2>2
  <2>6. QED
    BY <2>1, <2>2, <2>3, <2>4, <2>5, EndsCopy
<1>5. CASE CreateTables(p)
  <2> DEFINE r == [Closed(p) EXCEPT !.pc = "migrating", !.next = file.version + 1]
  <2>1. /\ proc[p].pc = "ddl" /\ file' = Ddl(family.build[p], file)
        /\ proc' = [proc EXCEPT ![p] = r] /\ family' = family /\ ghost' = ghost
    BY <1>5 DEF CreateTables
  <2>2. file.version + 1 \in 0..(SchemaVersion + 1) /\ file.version \in Nat
    BY <1>1, FileOfSettings DEF SchemaVersion, Files
  <2>3. r \in Procedures /\ r.pc = "migrating" /\ r.next = file.version + 1
    BY <1>1, <2>2, SetsProc DEF Closed, Procedures, Opening, Working
  <2> HIDE DEF r
  <2>4. file.version >= r.next - 1
    BY <2>2, <2>3
  <2>5. /\ file' \in Files /\ file'.version = file.version /\ file'.copies = file.copies
        /\ file.has \subseteq file'.has
    BY <2>1, FileStands, DdlIs
  <2>6. ghost'.kills \in Nat /\ ghost'.kills >= ghost.kills
    BY <2>1, FileStands
  <2>7. SchemaInv'
    BY <2>1, <2>3, <2>4, <2>5, <2>6, FileStands, FileGains
  <2>8. QED
    BY <2>1, <2>5, <2>7
<1>6. CASE Migrate(p) /\ proc[p].next <= family.build[p]
  BY <1>6, MigratesFile DEF Migrate
<1>7. CASE Migrate(p) /\ ~(proc[p].next <= family.build[p])
  <2>1. /\ proc[p].pc = "migrating" /\ file' = file /\ family' = family /\ ghost' = ghost
        /\ proc' = [proc EXCEPT ![p] = Ready(p)]
    BY <1>7 DEF Migrate, Done
  <2>2. file.version >= proc[p].next - 1
    BY <1>1, <2>1 DEF VersionTellsTheSchema
  <2>3. file.version >= family.build[p]
    BY <1>1, <1>7, <2>2, FileOfSettings
  <2>4. PICK r \in Procedures : r.pc = "ready" /\ proc' = [proc EXCEPT ![p] = r]
    BY <1>1, <2>1, SetsProc DEF Working
  <2>5. ghost'.kills \in Nat /\ ghost'.kills >= ghost.kills
    BY <2>1, FileStands
  <2>6. SchemaInv'
    BY <2>1, <2>3, <2>4, <2>5, FileStands, FileGains
  <2>7. QED
    BY <2>1, <2>6, FileStands
<1>8. CASE Kill(p)
  BY <1>8, KillsOverFile DEF Kill
<1>9. CASE ~Opens(p) /\ ~Kill(p)
  <2>1. /\ family' = family /\ file' = file /\ ghost'.kills = ghost.kills
        /\ proc[p].pc \in Working
        /\ \E r \in Procedures : Moves(p, r) /\ r.pc \in Working
    BY <1>1, <1>9, AtWorkIs
  <2>2. PICK r \in Procedures : proc' = [proc EXCEPT ![p] = r] /\ r.pc \in Working
    BY <2>1 DEF Moves
  <2>3. file.version >= family.build[p]
    BY <1>1, <2>1 DEF VersionTellsTheSchema
  <2>4. r.pc \notin {"behind", "copying", "ddl", "migrating"}
    BY <2>2 DEF Working
  <2>5. ghost'.kills \in Nat /\ ghost'.kills >= ghost.kills
    BY <2>1, FileStands
  <2>6. SchemaInv'
    BY <2>1, <2>2, <2>3, <2>4, <2>5, FileStands, FileGains
  <2>7. QED
    BY <2>1, <2>6, FileStands
<1>10. QED
  BY <1>2, <1>3, <1>4, <1>5, <1>6, <1>7, <1>8, <1>9 DEF Opens, Steps

-----------------------------------------------------------------------------
(* One row at a time: whoever is not at work on it does not matter to it.  *)

LEMMA InToIndex ==
  ASSUME NEW q, NEW i \in Items
  PROVE  i \in ToIndex(q) <=> \/ q.pc \in {"index", "reindex"} /\ Holds(q, i)
                              \/ q.pc \in {"clear", "fill"}
<1>1. i \in {e.item : e \in q.todo} <=> Holds(q, i)
  BY DEF Holds
<1>2. CASE q.pc \in {"index", "reindex"}
  BY <1>1, <1>2 DEF ToIndex
<1>3. CASE q.pc \in {"clear", "fill"}
  BY <1>3 DEF ToIndex
<1>4. CASE q.pc \notin {"index", "reindex", "clear", "fill"}
  BY <1>4 DEF ToIndex
<1>5. QED
  BY <1>2, <1>3, <1>4

LEMMA InToEmbed ==
  ASSUME NEW q, NEW i
  PROVE  i \in ToEmbed(q) <=> q.pc \in {"index", "reindex", "embed", "await"} /\ Holds(q, i)
BY DEF ToEmbed, Holds

LEMMA Others ==
  ASSUME NEW p \in Procs, NEW q \in Procs, q # p, NEW i
  PROVE  /\ i \in ToIndex(proc[q]) => i \in OthersIndex(p)
         /\ i \in ToEmbed(proc[q]) => i \in OthersEmbed(p)
BY DEF OthersIndex, OthersEmbed

LEMMA Moved ==
  ASSUME TypeOK, NEW p \in Procs, NEW r, Moves(p, r)
  PROVE  proc'[p] = r /\ \A q \in Procs : q # p => proc'[q] = proc[q]
BY ProcOf DEF Moves

\* A process that is not at work on a row has made no promise about its words.
LEMMA NoPromise ==
  ASSUME NEW q, NEW ix, NEW i \in Items, i \notin ToIndex(q)
  PROVE  WordsBy(q, ix, i)
<1>1. /\ q.pc \in {"index", "reindex"} => ~Holds(q, i)
      /\ q.pc \notin {"clear", "fill"}
  BY InToIndex
<1>2. QED
  BY <1>1 DEF WordsBy, Holds

\* The row's words and text are as they were, and so is who is at work on them.
LEMMA WordsApart ==
  ASSUME TypeOK, NEW p \in Procs, NEW r, Moves(p, r), NEW i \in Items,
         WordsOf(proc, index, i),
         index'.text[i] = index.text[i], index'.words[i] = index.words[i],
         i \notin ToIndex(proc[p]), i \notin ToIndex(r)
  PROVE  WordsOf(proc', index', i)
<1>1. proc'[p] = r /\ \A q \in Procs : q # p => proc'[q] = proc[q]
  BY Moved
<1>2. FoundByItsText(index', i) = FoundByItsText(index, i)
  BY FoundStill
<1>3. WordsBy(r, index', i)
  BY NoPromise
<1>4. ASSUME NEW q \in Procs PROVE WordsBy(proc'[q], index', i)
  <2>1. CASE q = p
    BY <1>1, <1>3, <2>1
  <2>2. CASE q # p
    <3>1. WordsBy(proc[q], index, i)
      BY DEF WordsOf
    <3>2. WordsBy(proc[q], index', i)
      BY <1>2, <3>1 DEF WordsBy
    <3>3. QED
      BY <1>1, <2>2, <3>2
  <2>3. QED
    BY <2>1, <2>2
<1>5. \A d, q \in Procs : i \in ToIndex(proc'[d]) /\ i \in ToIndex(proc'[q]) => d = q
  BY <1>1 DEF WordsOf
<1>6. (\A q \in Procs : i \notin ToIndex(proc'[q]))
        => (index'.text[i] # 0 => FoundByItsText(index', i))
  BY <1>1, <1>2 DEF WordsOf
<1>7. QED
  BY <1>4, <1>5, <1>6 DEF WordsOf

\* Or one process is, and what it has made of them is as it should be.
LEMMA WordsAlone ==
  ASSUME TypeOK, NEW p \in Procs, NEW r, Moves(p, r), NEW i \in Items,
         \A q \in Procs : q # p => i \notin ToIndex(proc[q]),
         WordsBy(r, index', i),
         i \notin ToIndex(r) => (index'.text[i] # 0 => FoundByItsText(index', i))
  PROVE  WordsOf(proc', index', i)
<1>1. proc'[p] = r /\ \A q \in Procs : q # p => proc'[q] = proc[q]
  BY Moved
<1>2. ASSUME NEW q \in Procs PROVE WordsBy(proc'[q], index', i)
  <2>1. CASE q = p
    BY <1>1, <2>1
  <2>2. CASE q # p
    <3>1. WordsBy(proc[q], index', i)
      BY <2>2, NoPromise
    <3>2. QED
      BY <1>1, <2>2, <3>1
  <2>3. QED
    BY <2>1, <2>2
<1>3. QED
  BY <1>1, <1>2 DEF WordsOf

LEMMA VectorApart ==
  ASSUME TypeOK, NEW p \in Procs, NEW r, Moves(p, r), NEW i \in Items,
         VectorOf(proc, index, i),
         index'.text[i] = index.text[i], index'.vector[i] = index.vector[i],
         i \notin ToEmbed(proc[p]), i \notin ToEmbed(r)
  PROVE  VectorOf(proc', index', i)
<1>1. proc'[p] = r /\ \A q \in Procs : q # p => proc'[q] = proc[q]
  BY Moved
<1>2. QED
  BY <1>1 DEF VectorOf

LEMMA VectorAlone ==
  ASSUME TypeOK, NEW p \in Procs, NEW r, Moves(p, r), NEW i \in Items,
         \A q \in Procs : q # p => i \notin ToEmbed(proc[q]),
         i \in ToEmbed(r) => \A e \in r.todo : e.item = i => e.text = index'.text[i],
         i \notin ToEmbed(r) => index'.vector[i].text \in {0, index'.text[i]}
  PROVE  VectorOf(proc', index', i)
<1>1. proc'[p] = r /\ \A q \in Procs : q # p => proc'[q] = proc[q]
  BY Moved
<1>2. QED
  BY <1>1 DEF VectorOf

\* The process at work on a row the store is sure of is alone with it.
LEMMA AloneWith ==
  ASSUME SearchInv, NEW p \in Procs, NEW i \in Items
  PROVE  /\ i \notin ghost.unsure /\ i \in ToIndex(proc[p]) =>
              \A q \in Procs : q # p => i \notin ToIndex(proc[q])
         /\ i \notin ghost.behind /\ i \in ToEmbed(proc[p]) =>
              \A q \in Procs : q # p => i \notin ToEmbed(proc[q])
BY DEF SearchInv, WordsFollow, WordsOf, VectorsFollow, VectorOf

\* What its lists say of such a row is current.
LEMMA ListedIsCurrent ==
  ASSUME SearchInv, NEW p \in Procs, NEW e \in proc[p].todo, e.item \in Items
  PROVE  /\ proc[p].pc \in {"index", "reindex", "fill"} /\ e.item \notin ghost.unsure
              => e.text = index.text[e.item]
         /\ e.item \in ToEmbed(proc[p]) /\ e.item \notin ghost.behind
              => e.text = index.text[e.item]
BY DEF SearchInv, WordsFollow, WordsOf, WordsBy, VectorsFollow, VectorOf

\* And of a row that is not there they say nothing.
LEMMA ListedIsThere ==
  ASSUME SearchInv, NEW p \in Procs, NEW i \in Items, Holds(proc[p], i)
  PROVE  index.text[i] # 0
BY DEF SearchInv, NothingOfNoRow

-----------------------------------------------------------------------------
(* Search follows the rows, whatever is done.                              *)

LEMMA ListsFitStill ==
  ASSUME TypeOK, ListsFit, NEW p \in Procs, NEW r, Moves(p, r), ListFits(r)
  PROVE  ListsFit'
<1>1. proc'[p] = r /\ \A q \in Procs : q # p => proc'[q] = proc[q]
  BY Moved
<1>2. \A q \in Procs : ListFits(proc'[q])
  BY <1>1 DEF ListsFit
<1>3. QED
  BY <1>2 DEF ListsFit, ListFits

LEMMA NothingStill ==
  ASSUME TypeOK, NothingOfNoRow, NEW p \in Procs, NEW r, Moves(p, r),
         \A i \in Items : index'.text[i] = 0 =>
            /\ index.text[i] = 0 /\ ~Holds(r, i)
            /\ index'.words[i] = NoWords /\ index'.vector[i] = NoVector
  PROVE  NothingOfNoRow'
<1>1. proc'[p] = r /\ \A q \in Procs : q # p => proc'[q] = proc[q]
  BY Moved
<1>2. ASSUME NEW i \in Items, index'.text[i] = 0
      PROVE  \A q \in Procs : ~Holds(proc'[q], i)
  BY <1>1, <1>2 DEF NothingOfNoRow
<1>3. QED
  BY <1>2 DEF NothingOfNoRow, Holds

LEMMA FollowStill ==
  ASSUME \A i \in Items \ ghost'.unsure : WordsOf(proc', index', i),
         \A i \in Items \ ghost'.behind : VectorOf(proc', index', i)
  PROVE  WordsFollow' /\ VectorsFollow'
<1>1. WordsFollow'
  BY DEF WordsFollow
<1>2. VectorsFollow'
  BY DEF VectorsFollow
<1>3. QED
  BY <1>1, <1>2

LEMMA NotesStill ==
  ASSUME NotesHaveNone, NotesStayHere,
         \A i \in Notes : index'.vector[i] = index.vector[i],
         ghost'.sent \intersect Notes \subseteq ghost.sent
  PROVE  NotesHaveNone' /\ NotesStayHere'
BY DEF NotesHaveNone, NotesStayHere

LEMMA SearchParts ==
  ASSUME SearchInv
  PROVE  /\ ListsFit /\ NothingOfNoRow /\ NotesHaveNone /\ NotesStayHere
         /\ \A i \in Items \ ghost.unsure : WordsOf(proc, index, i)
         /\ \A i \in Items \ ghost.behind : VectorOf(proc, index, i)
BY DEF SearchInv, WordsFollow, VectorsFollow

LEMMA ReleasedKeeps ==
  ASSUME TypeOK, SearchInv, NEW p \in Procs, NEW r, Released(p, r)
  PROVE  SearchInv'
<1>1. /\ Moves(p, r) /\ r.pc \in Resting /\ index' = index
      /\ ghost'.unsure = ghost.unsure \union ToIndex(proc[p])
      /\ ghost'.behind = ghost.behind \union ToEmbed(proc[p])
      /\ ghost'.sent = ghost.sent
      /\ \A i : Holds(r, i) => Holds(proc[p], i)
  BY DEF Released, Holds
<1>2. ToIndex(r) = {} /\ ToEmbed(r) = {}
  BY <1>1, NotAtWork
<1>3. ListsFit'
  <2>1. ListFits(r)
    BY <1>1 DEF ListFits, Resting
  <2>2. QED
    BY <1>1, <2>1, SearchParts, ListsFitStill
<1>4. NothingOfNoRow'
  <2>1. \A i \in Items : index'.text[i] = 0 =>
            /\ index.text[i] = 0 /\ ~Holds(r, i)
            /\ index'.words[i] = NoWords /\ index'.vector[i] = NoVector
    BY <1>1, SearchParts DEF NothingOfNoRow
  <2>2. QED
    BY <1>1, <2>1, SearchParts, NothingStill
<1>5. ASSUME NEW i \in Items \ ghost'.unsure PROVE WordsOf(proc', index', i)
  <2>1. i \notin ToIndex(proc[p]) /\ i \notin ToIndex(r) /\ WordsOf(proc, index, i)
    BY <1>1, <1>2, SearchParts
  <2>2. QED
    BY <1>1, <2>1, WordsApart
<1>6. ASSUME NEW i \in Items \ ghost'.behind PROVE VectorOf(proc', index', i)
  <2>1. i \notin ToEmbed(proc[p]) /\ i \notin ToEmbed(r) /\ VectorOf(proc, index, i)
    BY <1>1, <1>2, SearchParts
  <2>2. QED
    BY <1>1, <2>1, VectorApart
<1>7. NotesHaveNone' /\ NotesStayHere'
  BY <1>1, SearchParts, NotesStill
<1>8. QED
  BY <1>3, <1>4, <1>5, <1>6, <1>7, FollowStill DEF SearchInv

LEMMA StartsKeeps ==
  ASSUME TypeOK, SearchInv, NEW p \in Procs, NEW r, Moves(p, r),
         NEW i \in Items, NEW t \in Texts, StartsText(p, r, i, t)
  PROVE  SearchInv'
<1>1. /\ proc[p].pc = "ready" /\ r.pc \in {"index", "reindex"}
      /\ r.todo = {[item |-> i, text |-> t]}
      /\ r.pc = "index" => index.text[i] = 0
      /\ r.pc = "reindex" => i \in Specs
      /\ ghost'.unsure = Begun(ghost.unsure, {i}, OthersIndex(p))
      /\ ghost'.behind = Begun(ghost.behind, {i}, OthersEmbed(p))
      /\ ghost'.sent = ghost.sent
  BY DEF StartsText, GhostsBecome
<1>2. /\ index'.text[i] = t
      /\ \A j \in Items : j # i => index'.text[j] = index.text[j]
      /\ index'.words = index.words /\ index'.vector = index.vector
  <2>1. index \in Indexes /\ index' = Written(index, i, t)
    BY DEF TypeOK, StartsText
  <2>2. /\ index'.text = [index.text EXCEPT ![i] = t]
        /\ index'.words = index.words /\ index'.vector = index.vector
    BY <2>1, WrittenIs
  <2>3. DOMAIN index.text = Items
    BY <2>1 DEF Indexes
  <2>4. QED
    BY <2>2, <2>3
<1>3. Holds(r, i) /\ \A j : Holds(r, j) => j = i
  BY <1>1 DEF Holds
<1>4. t # 0
  BY MaxTextIsPositive DEF Texts
<1>5. /\ i \in ToIndex(r) /\ i \in ToEmbed(r) /\ ToIndex(proc[p]) = {} /\ ToEmbed(proc[p]) = {}
      /\ \A j \in Items : j # i => j \notin ToIndex(r) /\ j \notin ToEmbed(r)
  <2>1. ToIndex(proc[p]) = {} /\ ToEmbed(proc[p]) = {}
    BY <1>1, NotAtWork DEF Resting
  <2>2. QED
    BY <1>1, <1>3, <2>1, InToIndex, InToEmbed
<1>6. ListsFit'
  <2>1. [item |-> i, text |-> t] \in Entries
    BY DEF Entries
  <2>2. ListFits(r)
    BY <1>1, <2>1, ItemKindsOk DEF ListFits, Embeds
  <2>3. QED
    BY <2>2, SearchParts, ListsFitStill
<1>7. NothingOfNoRow'
  <2>1. ASSUME NEW j \in Items, index'.text[j] = 0
        PROVE  /\ index.text[j] = 0 /\ ~Holds(r, j)
               /\ index'.words[j] = NoWords /\ index'.vector[j] = NoVector
    BY <1>2, <1>3, <1>4, <2>1, SearchParts DEF NothingOfNoRow
  <2>2. QED
    BY <2>1, SearchParts, NothingStill
<1>8. ASSUME NEW j \in Items \ ghost'.unsure PROVE WordsOf(proc', index', j)
  <2>1. CASE j # i
    <3>1. j \notin ghost.unsure
      BY <1>1, <1>8, <2>1 DEF Begun
    <3>2. QED
      BY <1>2, <1>5, <2>1, <3>1, SearchParts, WordsApart
  <2>2. CASE j = i
    <3>1. \A q \in Procs : q # p => i \notin ToIndex(proc[q])
      BY <1>1, <1>8, <2>2, Others DEF Begun
    <3>2. r.pc = "index" => index'.words[i] = NoWords
      BY <1>1, <1>2, SearchParts DEF NothingOfNoRow
    <3>3. \A e \in r.todo : e.item = i => e.text = index'.text[i]
      BY <1>1, <1>2
    <3>4. WordsBy(r, index', i)
      BY <1>1, <3>2, <3>3 DEF WordsBy
    <3>5. QED
      BY <1>5, <2>2, <3>1, <3>4, WordsAlone
  <2>3. QED
    BY <2>1, <2>2
<1>9. ASSUME NEW j \in Items \ ghost'.behind PROVE VectorOf(proc', index', j)
  <2>1. CASE j # i
    <3>1. j \notin ghost.behind
      BY <1>1, <1>9, <2>1 DEF Begun
    <3>2. QED
      BY <1>2, <1>5, <2>1, <3>1, SearchParts, VectorApart
  <2>2. CASE j = i
    <3>1. \A q \in Procs : q # p => i \notin ToEmbed(proc[q])
      BY <1>1, <1>9, <2>2, Others DEF Begun
    <3>2. \A e \in r.todo : e.item = i => e.text = index'.text[i]
      BY <1>1, <1>2
    <3>3. QED
      BY <1>5, <2>2, <3>1, <3>2, VectorAlone
  <2>3. QED
    BY <2>1, <2>2
<1>10. NotesHaveNone' /\ NotesStayHere'
  BY <1>1, <1>2, SearchParts, NotesStill
<1>11. QED
  BY <1>6, <1>7, <1>8, <1>9, <1>10, FollowStill DEF SearchInv

LEMMA WritesKeeps ==
  ASSUME TypeOK, SearchInv, NEW p \in Procs, NEW r, Moves(p, r),
         NEW e \in Entries, WritesWords(p, r, e)
  PROVE  SearchInv'
<1> DEFINE i == e.item
<1>1. /\ proc[p].pc \in {"index", "reindex"} /\ proc[p].todo = {e}
      /\ index'.text = index.text /\ index'.vector = index.vector
      /\ \A j \in Items : j # i => index'.words[j] = index.words[j]
      /\ (proc[p].pc = "index" => index.words[i] = NoWords)
            => index'.words[i] = [NoWords EXCEPT ![e.text] = 1]
      /\ IF Embeds(i) THEN r.pc = "embed" /\ r.todo = {e} ELSE r.pc = "ready" /\ r.todo = {}
      /\ ghost' = ghost
  BY DEF WritesWords
<1>2. i \in Items
  BY DEF Entries
<1>3. Holds(proc[p], i) /\ \A j : Holds(proc[p], j) \/ Holds(r, j) => j = i
  BY <1>1 DEF Holds
<1>4. /\ i \in ToIndex(proc[p]) /\ i \in ToEmbed(proc[p])
      /\ \A j \in Items : j \notin ToIndex(r)
      /\ \A j \in Items : j # i =>
            j \notin ToIndex(proc[p]) /\ j \notin ToEmbed(proc[p]) /\ j \notin ToEmbed(r)
  <2>1. r.pc \in {"embed", "ready"}
    BY <1>1
  <2>2. QED
    BY <1>1, <1>2, <1>3, <2>1, InToIndex, InToEmbed
<1>5. ListsFit'
  <2>1. ListFits(r)
    BY <1>1 DEF ListFits
  <2>2. QED
    BY <2>1, SearchParts, ListsFitStill
<1>6. index.text[i] # 0
  BY <1>2, <1>3, ListedIsThere
<1>7. NothingOfNoRow'
  <2>1. ASSUME NEW j \in Items, index'.text[j] = 0
        PROVE  /\ index.text[j] = 0 /\ ~Holds(r, j)
               /\ index'.words[j] = NoWords /\ index'.vector[j] = NoVector
    BY <1>1, <1>3, <1>6, <2>1, SearchParts DEF NothingOfNoRow
  <2>2. QED
    BY <2>1, SearchParts, NothingStill
<1>8. ASSUME NEW j \in Items \ ghost'.unsure PROVE WordsOf(proc', index', j)
  <2>1. WordsOf(proc, index, j) /\ j \notin ghost.unsure
    BY <1>1, <1>8, SearchParts
  <2>2. CASE j # i
    BY <1>1, <1>4, <2>1, <2>2, WordsApart
  <2>3. CASE j = i
    <3>1. \A q \in Procs : q # p => j \notin ToIndex(proc[q])
      BY <1>4, <2>1, <2>3, AloneWith
    <3>2. WordsBy(proc[p], index, j)
      BY <2>1 DEF WordsOf
    <3>3. e.text = index.text[j] /\ (proc[p].pc = "index" => index.words[j] = NoWords)
      BY <1>1, <1>3, <2>3, <3>2 DEF WordsBy
    <3>4. index'.words[j] = [NoWords EXCEPT ![e.text] = 1]
      BY <1>1, <2>3, <3>3
    <3>5. FoundByItsText(index', j)
      BY <1>1, <3>3, <3>4 DEF FoundByItsText
    <3>6. j \notin ToIndex(r)
      BY <1>4
    <3>7. WordsBy(r, index', j)
      BY <3>6, NoPromise
    <3>8. QED
      BY <3>1, <3>5, <3>6, <3>7, WordsAlone
  <2>4. QED
    BY <2>2, <2>3
<1>9. ASSUME NEW j \in Items \ ghost'.behind PROVE VectorOf(proc', index', j)
  <2>1. VectorOf(proc, index, j) /\ j \notin ghost.behind
    BY <1>1, <1>9, SearchParts
  <2>2. CASE j # i
    BY <1>1, <1>4, <2>1, <2>2, VectorApart
  <2>3. CASE j = i
    <3>1. \A q \in Procs : q # p => j \notin ToEmbed(proc[q])
      BY <1>4, <2>1, <2>3, AloneWith
    <3>2. e.text = index.text[j]
      BY <1>1, <1>4, <2>1, <2>3 DEF VectorOf
    <3>3. \A d \in r.todo : d.item = j => d.text = index'.text[j]
      BY <1>1, <3>2
    <3>4. CASE Embeds(i)
      <4>1. j \in ToEmbed(r)
        BY <1>1, <2>3, <3>4, InToEmbed DEF Holds
      <4>2. QED
        BY <3>1, <3>3, <4>1, VectorAlone
    <3>5. CASE ~Embeds(i)
      <4>1. index'.vector[j].text = 0
        BY <1>1, <2>3, <3>5, SearchParts DEF NotesHaveNone, Embeds, NoVector
      <4>2. QED
        BY <3>1, <3>3, <4>1, VectorAlone
    <3>6. QED
      BY <3>4, <3>5
  <2>4. QED
    BY <2>2, <2>3
<1>10. NotesHaveNone' /\ NotesStayHere'
  BY <1>1, SearchParts, NotesStill
<1>11. QED
  BY <1>5, <1>7, <1>8, <1>9, <1>10, FollowStill DEF SearchInv

LEMMA SendsKeeps ==
  ASSUME TypeOK, SearchInv, NEW p \in Procs, NEW r, Moves(p, r),
         NEW e \in Entries, SendsText(p, r, e)
  PROVE  SearchInv'
<1>1. /\ proc[p].pc = "embed" /\ r.pc = "await"
      /\ e \in proc[p].todo /\ r.todo = proc[p].todo
      /\ index' = index
      /\ ghost'.unsure = ghost.unsure /\ ghost'.behind = ghost.behind
      /\ ghost'.sent = ghost.sent \union {e.item}
  BY DEF SendsText
<1>2. \A i : Holds(r, i) <=> Holds(proc[p], i)
  BY <1>1 DEF Holds
<1>3. /\ \A i \in Items : i \notin ToIndex(proc[p]) /\ i \notin ToIndex(r)
      /\ \A i \in Items : i \in ToEmbed(r) <=> i \in ToEmbed(proc[p])
  BY <1>1, <1>2, InToIndex, InToEmbed
<1>4. ListsFit'
  <2>1. ListFits(r)
    BY <1>1, SearchParts DEF ListFits, ListsFit
  <2>2. QED
    BY <2>1, SearchParts, ListsFitStill
<1>5. NothingOfNoRow'
  <2>1. \A i \in Items : index'.text[i] = 0 =>
            /\ index.text[i] = 0 /\ ~Holds(r, i)
            /\ index'.words[i] = NoWords /\ index'.vector[i] = NoVector
    BY <1>1, <1>2, SearchParts DEF NothingOfNoRow
  <2>2. QED
    BY <2>1, SearchParts, NothingStill
<1>6. ASSUME NEW i \in Items \ ghost'.unsure PROVE WordsOf(proc', index', i)
  BY <1>1, <1>3, SearchParts, WordsApart
<1>7. ASSUME NEW i \in Items \ ghost'.behind PROVE VectorOf(proc', index', i)
  <2>1. VectorOf(proc, index, i) /\ i \notin ghost.behind
    BY <1>1, SearchParts
  <2>2. CASE i \in ToEmbed(proc[p])
    <3>1. \A q \in Procs : q # p => i \notin ToEmbed(proc[q])
      BY <2>1, <2>2, AloneWith
    <3>2. \A d \in r.todo : d.item = i => d.text = index'.text[i]
      BY <1>1, <2>1, <2>2 DEF VectorOf
    <3>3. i \in ToEmbed(r)
      BY <1>3, <2>2
    <3>4. QED
      BY <3>1, <3>2, <3>3, VectorAlone
  <2>3. CASE i \notin ToEmbed(proc[p])
    BY <1>1, <1>3, <2>1, <2>3, VectorApart
  <2>4. QED
    BY <2>2, <2>3
<1>8. NotesHaveNone' /\ NotesStayHere'
  <2>1. Embeds(e.item)
    BY <1>1, SearchParts DEF ListsFit, ListFits
  <2>2. ghost'.sent \intersect Notes \subseteq ghost.sent
    BY <1>1, <2>1 DEF Embeds
  <2>3. QED
    BY <1>1, <2>2, SearchParts, NotesStill
<1>9. QED
  BY <1>4, <1>5, <1>6, <1>7, <1>8, FollowStill DEF SearchInv

LEMMA EmbedsKeeps ==
  ASSUME TypeOK, SearchInv, NEW p \in Procs, NEW r, Moves(p, r),
         NEW e \in Entries, EmbedsText(p, r, e)
  PROVE  SearchInv'
<1> DEFINE i == e.item
<1>1. /\ proc[p].pc = "await" /\ e \in proc[p].todo
      /\ IF proc[p].todo = {e} THEN r.pc = "ready" /\ r.todo = {}
         ELSE r.pc = "embed" /\ r.todo = proc[p].todo \ {e}
      /\ ghost'.unsure = ghost.unsure /\ ghost'.sent = ghost.sent
      /\ ghost.behind \subseteq ghost'.behind
      /\ i \notin ghost'.behind => index'.vector[i].text = e.text
  BY DEF EmbedsText, GhostsBecome
<1>2. /\ index'.text = index.text /\ index'.words = index.words
      /\ \A j \in Items : j # i => index'.vector[j] = index.vector[j]
  BY DEF EmbedsText
<1>3. i \in Items /\ Embeds(i) /\ Holds(proc[p], i)
  BY <1>1, SearchParts DEF Entries, ListsFit, ListFits, Holds
<1>4. /\ \A j : Holds(r, j) => Holds(proc[p], j)
      /\ \A j : j # i /\ Holds(proc[p], j) => Holds(r, j)
      /\ r.todo \subseteq proc[p].todo
      /\ r.pc \in {"ready", "embed"} /\ (r.pc = "ready" => r.todo = {})
  BY <1>1 DEF Holds
<1>5. /\ \A j \in Items : j \notin ToIndex(proc[p]) /\ j \notin ToIndex(r)
      /\ \A j \in Items : j \in ToEmbed(proc[p]) <=> Holds(proc[p], j)
      /\ \A j \in Items : j \in ToEmbed(r) <=> Holds(r, j)
  <2>1. \A j \in Items : j \notin ToIndex(proc[p]) /\ j \notin ToIndex(r)
    BY <1>1, <1>4, InToIndex
  <2>2. \A j \in Items : j \in ToEmbed(proc[p]) <=> Holds(proc[p], j)
    BY <1>1, InToEmbed
  <2>3. r.pc = "ready" => \A j : ~Holds(r, j)
    BY <1>4 DEF Holds
  <2>4. \A j \in Items : j \in ToEmbed(r) <=> Holds(r, j)
    BY <1>4, <2>3, InToEmbed
  <2>5. QED
    BY <2>1, <2>2, <2>4
<1>6. ListsFit'
  <2>1. ListFits(r)
    BY <1>1, SearchParts DEF ListFits, ListsFit
  <2>2. QED
    BY <2>1, SearchParts, ListsFitStill
<1>7. index.text[i] # 0
  BY <1>3, ListedIsThere
<1>8. NothingOfNoRow'
  <2>1. ASSUME NEW j \in Items, index'.text[j] = 0
        PROVE  /\ index.text[j] = 0 /\ ~Holds(r, j)
               /\ index'.words[j] = NoWords /\ index'.vector[j] = NoVector
    BY <1>2, <1>4, <1>7, <2>1, SearchParts DEF NothingOfNoRow
  <2>2. QED
    BY <2>1, SearchParts, NothingStill
<1>9. ASSUME NEW j \in Items \ ghost'.unsure PROVE WordsOf(proc', index', j)
  BY <1>1, <1>2, <1>5, SearchParts, WordsApart
<1>10. ASSUME NEW j \in Items \ ghost'.behind PROVE VectorOf(proc', index', j)
  <2>1. VectorOf(proc, index, j) /\ j \notin ghost.behind
    BY <1>1, SearchParts
  <2>2. CASE j \notin ToEmbed(proc[p])
    <3>1. j # i /\ j \notin ToEmbed(r)
      BY <1>3, <1>4, <1>5, <2>2
    <3>2. QED
      BY <1>2, <2>1, <2>2, <3>1, VectorApart
  <2>3. CASE j \in ToEmbed(proc[p])
    <3>1. \A q \in Procs : q # p => j \notin ToEmbed(proc[q])
      BY <2>1, <2>3, AloneWith
    <3>2. \A d \in proc[p].todo : d.item = j => d.text = index.text[j]
      BY <2>1, <2>3 DEF VectorOf
    <3>3. \A d \in r.todo : d.item = j => d.text = index'.text[j]
      BY <1>2, <1>4, <3>2
    <3>4. j \notin ToEmbed(r) => index'.vector[j].text \in {0, index'.text[j]}
      <4>1. SUFFICES ASSUME j \notin ToEmbed(r) PROVE index'.vector[j].text = index'.text[j]
        OBVIOUS
      <4>2. j = i
        BY <1>4, <1>5, <2>3, <4>1
      <4>3. e.text = index.text[j]
        BY <1>1, <3>2, <4>2
      <4>4. QED
        BY <1>1, <1>2, <4>2, <4>3
    <3>5. QED
      BY <3>1, <3>3, <3>4, VectorAlone
  <2>4. QED
    BY <2>2, <2>3
<1>11. NotesHaveNone' /\ NotesStayHere'
  <2>1. \A j \in Notes : index'.vector[j] = index.vector[j]
    BY <1>2, <1>3, ItemKindsOk DEF Embeds
  <2>2. QED
    BY <1>1, <2>1, SearchParts, NotesStill
<1>12. QED
  BY <1>6, <1>8, <1>9, <1>10, <1>11, FollowStill DEF SearchInv

LEMMA ListsKeeps ==
  ASSUME TypeOK, SearchInv, NEW p \in Procs, NEW r \in Procedures, Moves(p, r), ListsTexts(p, r)
  PROVE  SearchInv'
<1>1. /\ proc[p].pc = "ready" /\ r.pc = "embed" /\ r.todo # {}
      /\ \A e \in r.todo : Embeds(e.item) /\ index.words[e.item][e.text] > 0
      /\ index' = index
      /\ ghost'.unsure = ghost.unsure /\ ghost'.sent = ghost.sent
      /\ \A i \in Items \ ghost'.behind : i \notin ghost.behind /\
            (Holds(r, i) => /\ i \notin OthersEmbed(p)
                            /\ i \notin OthersIndex(p) /\ i \notin ghost.unsure)
  BY DEF ListsTexts, GhostsBecome, Holds
<1>2. /\ ToIndex(proc[p]) = {} /\ ToEmbed(proc[p]) = {}
      /\ \A i \in Items : i \notin ToIndex(r)
      /\ \A i \in Items : i \in ToEmbed(r) <=> Holds(r, i)
  <2>1. ToIndex(proc[p]) = {} /\ ToEmbed(proc[p]) = {}
    BY <1>1, NotAtWork DEF Resting
  <2>2. QED
    BY <1>1, <2>1, InToIndex, InToEmbed
<1>3. \A e \in r.todo : e \in Entries /\ e.item \in Items /\ e.text \in Texts
  BY DEF Procedures, Entries
<1>4. \A t \in Texts : ~(NoWords[t] > 0)
  BY DEF NoWords
<1>5. \A i \in Items : Holds(r, i) => index.words[i] # NoWords
  BY <1>1, <1>3, <1>4 DEF Holds
<1>6. ListsFit'
  <2>1. ListFits(r)
    BY <1>1 DEF ListFits
  <2>2. QED
    BY <2>1, SearchParts, ListsFitStill
<1>7. NothingOfNoRow'
  <2>1. \A i \in Items : index'.text[i] = 0 =>
            /\ index.text[i] = 0 /\ ~Holds(r, i)
            /\ index'.words[i] = NoWords /\ index'.vector[i] = NoVector
    BY <1>1, <1>5, SearchParts DEF NothingOfNoRow
  <2>2. QED
    BY <2>1, SearchParts, NothingStill
<1>8. ASSUME NEW i \in Items \ ghost'.unsure PROVE WordsOf(proc', index', i)
  BY <1>1, <1>2, SearchParts, WordsApart
<1>9. ASSUME NEW i \in Items \ ghost'.behind PROVE VectorOf(proc', index', i)
  <2>1. VectorOf(proc, index, i) /\ i \notin ghost.behind
    BY <1>1, SearchParts
  <2>2. CASE ~Holds(r, i)
    BY <1>1, <1>2, <2>1, <2>2, VectorApart
  <2>3. CASE Holds(r, i)
    <3>1. i \notin OthersEmbed(p) /\ i \notin OthersIndex(p) /\ i \notin ghost.unsure
      BY <1>1, <1>9, <2>3
    <3>2. \A q \in Procs : q # p => i \notin ToEmbed(proc[q])
      BY <3>1, Others
    <3>3. \A q \in Procs : i \notin ToIndex(proc[q])
      BY <1>2, <3>1, Others
    <3>4. index.text[i] # 0
      BY <1>5, <2>3, SearchParts DEF NothingOfNoRow
    <3>5. FoundByItsText(index, i)
      BY <3>1, <3>3, <3>4, SearchParts DEF WordsOf
    <3>6. \A t \in Texts : index.words[i][t] > 0 => t = index.text[i]
      BY <1>4, <3>5 DEF FoundByItsText, NoWords
    <3>7. \A e \in r.todo : e.item = i => e.text = index'.text[i]
      BY <1>1, <1>3, <3>6
    <3>8. i \in ToEmbed(r)
      BY <1>2, <2>3
    <3>9. QED
      BY <3>2, <3>7, <3>8, VectorAlone
  <2>4. QED
    BY <2>2, <2>3
<1>10. NotesHaveNone' /\ NotesStayHere'
  BY <1>1, SearchParts, NotesStill
<1>11. QED
  BY <1>6, <1>7, <1>8, <1>9, <1>10, FollowStill DEF SearchInv

LEMMA TakesKeeps ==
  ASSUME TypeOK, SearchInv, NEW p \in Procs, NEW r, Moves(p, r), TakesRows(p, r)
  PROVE  SearchInv'
<1>1. /\ proc[p].pc = "ready" /\ r.pc = "clear" /\ r.todo = {}
      /\ index'.words = index.words /\ index'.vector = index.vector
      /\ \A i \in Items : index'.text[i] = IF index.text[i] = 0 THEN 1 ELSE index.text[i]
      /\ \A i \in Items \ ghost'.unsure : i \notin OthersIndex(p)
      /\ ghost'.behind = ghost.behind /\ ghost'.sent = ghost.sent
  BY DEF TakesRows, GhostsBecome, Begun
<1>2. /\ ToEmbed(proc[p]) = {} /\ ToEmbed(r) = {} /\ \A i \in Items : i \in ToIndex(r)
  BY <1>1 DEF ToEmbed, ToIndex
<1>3. ListsFit'
  <2>1. ListFits(r)
    BY <1>1 DEF ListFits
  <2>2. QED
    BY <2>1, SearchParts, ListsFitStill
<1>4. NothingOfNoRow'
  <2>1. \A i \in Items : index'.text[i] # 0
    BY <1>1
  <2>2. QED
    BY <2>1, SearchParts, NothingStill
<1>5. ASSUME NEW i \in Items \ ghost'.unsure PROVE WordsOf(proc', index', i)
  <2>1. \A q \in Procs : q # p => i \notin ToIndex(proc[q])
    BY <1>1, Others
  <2>2. WordsBy(r, index', i)
    BY <1>1 DEF WordsBy
  <2>3. QED
    BY <1>2, <2>1, <2>2, WordsAlone
<1>6. ASSUME NEW i \in Items \ ghost'.behind PROVE VectorOf(proc', index', i)
  <2>1. VectorOf(proc, index, i)
    BY <1>1, SearchParts
  <2>2. CASE index.text[i] # 0
    <3>1. index'.text[i] = index.text[i]
      BY <1>1, <2>2
    <3>2. QED
      BY <1>1, <1>2, <2>1, <3>1, VectorApart
  <2>3. CASE index.text[i] = 0
    <3>1. \A q \in Procs : i \notin ToEmbed(proc[q])
      BY <2>3, SearchParts, InToEmbed DEF NothingOfNoRow
    <3>2. index'.vector[i].text = 0
      BY <1>1, <2>3, SearchParts DEF NothingOfNoRow, NoVector
    <3>3. QED
      BY <1>2, <3>1, <3>2, VectorAlone
  <2>4. QED
    BY <2>2, <2>3
<1>7. NotesHaveNone' /\ NotesStayHere'
  BY <1>1, SearchParts, NotesStill
<1>8. QED
  BY <1>3, <1>4, <1>5, <1>6, <1>7, FollowStill DEF SearchInv

\* A step of a process that goes over the whole word table, which leaves the texts and
\* vectors alone: what is left to show is what it makes of the words of each row.
LEMMA RebuildKeeps ==
  ASSUME TypeOK, SearchInv, NEW p \in Procs, NEW r, Moves(p, r),
         proc[p].pc \in {"clear", "fill"}, r.pc \in {"fill", "ready"}, ListFits(r),
         index'.text = index.text, index'.vector = index.vector, ghost' = ghost,
         \A i \in Items : index.text[i] = 0 => index'.words[i] = NoWords /\ ~Holds(r, i),
         \A i \in Items \ ghost.unsure : WordsBy(proc[p], index, i) =>
            IF r.pc = "fill" THEN WordsBy(r, index', i)
            ELSE index.text[i] # 0 => FoundByItsText(index', i)
  PROVE  SearchInv'
<1>1. /\ ToEmbed(proc[p]) = {} /\ ToEmbed(r) = {}
      /\ \A i \in Items : i \in ToIndex(proc[p]) /\ (i \in ToIndex(r) <=> r.pc = "fill")
  BY DEF ToEmbed, ToIndex
<1>2. ListsFit'
  BY SearchParts, ListsFitStill
<1>3. NothingOfNoRow'
  <2>1. ASSUME NEW i \in Items, index'.text[i] = 0
        PROVE  /\ index.text[i] = 0 /\ ~Holds(r, i)
               /\ index'.words[i] = NoWords /\ index'.vector[i] = NoVector
    BY <2>1, SearchParts DEF NothingOfNoRow
  <2>2. QED
    BY <2>1, SearchParts, NothingStill
<1>4. ASSUME NEW i \in Items \ ghost'.unsure PROVE WordsOf(proc', index', i)
  <2>1. i \notin ghost.unsure /\ WordsOf(proc, index, i)
    BY <1>4, SearchParts
  <2>2. \A q \in Procs : q # p => i \notin ToIndex(proc[q])
    BY <1>1, <2>1, AloneWith
  <2>3. WordsBy(proc[p], index, i)
    BY <2>1 DEF WordsOf
  <2>4. CASE r.pc = "fill"
    <3>1. WordsBy(r, index', i) /\ i \in ToIndex(r)
      BY <1>1, <2>1, <2>3, <2>4
    <3>2. QED
      BY <2>2, <3>1, WordsAlone
  <2>5. CASE r.pc = "ready"
    <3>1. i \notin ToIndex(r) /\ (index'.text[i] # 0 => FoundByItsText(index', i))
      BY <1>1, <2>1, <2>3, <2>5
    <3>2. WordsBy(r, index', i)
      BY <3>1, NoPromise
    <3>3. QED
      BY <2>2, <3>1, <3>2, WordsAlone
  <2>6. QED
    BY <2>4, <2>5
<1>5. ASSUME NEW i \in Items \ ghost'.behind PROVE VectorOf(proc', index', i)
  BY <1>1, SearchParts, VectorApart
<1>6. NotesHaveNone' /\ NotesStayHere'
  BY SearchParts, NotesStill
<1>7. QED
  BY <1>2, <1>3, <1>4, <1>5, <1>6, FollowStill DEF SearchInv

LEMMA ClearsKeeps ==
  ASSUME TypeOK, SearchInv, NEW p \in Procs, NEW r, Moves(p, r), ClearsWords(p, r)
  PROVE  SearchInv'
<1>1. /\ proc[p].pc = "clear" /\ r.pc = "fill" /\ r.next = 0 /\ r.todo = {}
      /\ index'.text = index.text /\ index'.vector = index.vector
      /\ \A i \in Items : index'.words[i] = NoWords
      /\ ghost' = ghost
  BY SearchParts DEF ClearsWords, ListsFit, ListFits
<1>2. ListFits(r) /\ \A i : ~Holds(r, i)
  BY <1>1 DEF ListFits, Holds
<1>3. ASSUME NEW i \in Items PROVE WordsBy(r, index', i)
  <2>1. KindOf(i) > r.next
    BY <1>1 DEF KindOf
  <2>2. QED
    BY <1>1, <2>1 DEF WordsBy
<1>4. QED
  BY <1>1, <1>2, <1>3, RebuildKeeps

LEMMA FillsKeeps ==
  ASSUME TypeOK, SearchInv, NEW p \in Procs, NEW r, Moves(p, r),
         NEW e \in Entries, FillsRow(p, r, e)
  PROVE  SearchInv'
<1> DEFINE i == e.item
<1>1. /\ proc[p].pc = "fill" /\ r.pc = "fill" /\ r.next = proc[p].next
      /\ e \in proc[p].todo /\ r.todo = proc[p].todo \ {e}
      /\ index'.text = index.text /\ index'.vector = index.vector
      /\ \A j \in Items : j # i => index'.words[j] = index.words[j]
      /\ index.words[i] = NoWords => index'.words[i] = [NoWords EXCEPT ![e.text] = 1]
      /\ ghost' = ghost
  BY DEF FillsRow
<1>2. ListFits(proc[p]) /\ i \in Items
  BY SearchParts DEF ListsFit, Entries
<1>3. /\ Holds(proc[p], i) /\ ~Holds(r, i)
      /\ \A j : j # i => (Holds(r, j) <=> Holds(proc[p], j))
  BY <1>1, <1>2 DEF Holds, ListFits
<1>4. ListFits(r)
  BY <1>1, <1>2 DEF ListFits
<1>5. \A j \in Items : index.text[j] = 0 => index'.words[j] = NoWords /\ ~Holds(r, j)
  <2>1. index.text[i] # 0
    BY <1>2, <1>3, ListedIsThere
  <2>2. QED
    BY <1>1, <1>3, <2>1, SearchParts DEF NothingOfNoRow
<1>6. ASSUME NEW j \in Items, WordsBy(proc[p], index, j) PROVE WordsBy(r, index', j)
  <2>1. \A d \in r.todo : d.item = j => d.text = index'.text[j]
    BY <1>1, <1>6 DEF WordsBy
  <2>2. CASE j = i
    <3>1. index.words[j] = NoWords /\ e.text = index.text[j]
      BY <1>1, <1>3, <1>6, <2>2 DEF WordsBy
    <3>2. FoundByItsText(index', j)
      BY <1>1, <2>2, <3>1 DEF FoundByItsText
    <3>3. KindOf(j) = r.next /\ ~(KindOf(j) > r.next)
      BY <1>1, <1>2, <2>2 DEF ListFits, KindOf
    <3>4. QED
      BY <1>1, <1>3, <2>1, <2>2, <3>2, <3>3 DEF WordsBy
  <2>3. CASE j # i
    <3>1. FoundByItsText(index', j) = FoundByItsText(index, j)
      BY <1>1, <2>3, FoundStill
    <3>2. QED
      BY <1>1, <1>3, <1>6, <2>1, <2>3, <3>1 DEF WordsBy
  <2>4. QED
    BY <2>2, <2>3
<1>7. QED
  BY <1>1, <1>4, <1>5, <1>6, RebuildKeeps

LEMMA TakesKindKeeps ==
  ASSUME TypeOK, SearchInv, NEW p \in Procs, NEW r \in Procedures, Moves(p, r), TakesKind(p, r)
  PROVE  SearchInv'
<1>1. /\ proc[p].pc = "fill" /\ r.pc = "fill" /\ proc[p].todo = {}
      /\ proc[p].next < 3 /\ r.next = proc[p].next + 1
      /\ \A e \in Entries : e \in r.todo <=> /\ KindOf(e.item) = r.next
                                             /\ index.text[e.item] # 0
                                             /\ e.text = index.text[e.item]
      /\ index' = index /\ ghost' = ghost
  BY DEF TakesKind
<1>2. /\ r.todo \subseteq Entries /\ proc[p].next \in Nat /\ index \in Indexes
      /\ \A i : ~Holds(proc[p], i)
  BY <1>1, FileOfSettings DEF Procedures, TypeOK, Holds
<1>3. \A i \in Items : Holds(r, i) <=> KindOf(i) = r.next /\ index.text[i] # 0
  <2>1. ASSUME NEW i \in Items, KindOf(i) = r.next, index.text[i] # 0 PROVE Holds(r, i)
    <3> DEFINE e == [item |-> i, text |-> index.text[i]]
    <3>1. index.text[i] \in Texts
      BY <1>2, <2>1, MaxTextIsPositive DEF Indexes, Texts
    <3>2. e \in Entries /\ e.item = i /\ e.text = index.text[i]
      BY <3>1 DEF Entries
    <3> HIDE DEF e
    <3>3. e \in r.todo
      BY <1>1, <2>1, <3>2
    <3>4. QED
      BY <3>2, <3>3 DEF Holds
  <2>2. QED
    BY <1>1, <1>2, <2>1 DEF Holds
<1>4. ListFits(r)
  <2>1. ASSUME NEW d \in r.todo, NEW e \in r.todo, d.item = e.item PROVE d = e
    <3>1. d \in Entries /\ e \in Entries /\ d.text = e.text
      BY <1>1, <1>2, <2>1
    <3>2. QED
      BY <2>1, <3>1 DEF Entries
  <2>2. QED
    BY <1>1, <1>2, <2>1 DEF ListFits
<1>5. \A i \in Items : index.text[i] = 0 => index'.words[i] = NoWords /\ ~Holds(r, i)
  BY <1>1, <1>3, SearchParts DEF NothingOfNoRow
<1>6. ASSUME NEW i \in Items, WordsBy(proc[p], index, i) PROVE WordsBy(r, index', i)
  <2>1. \A e \in r.todo : e.item = i => e.text = index'.text[i]
    BY <1>1, <1>2
  <2>2. IF KindOf(i) > proc[p].next THEN index.words[i] = NoWords
        ELSE index.text[i] # 0 => FoundByItsText(index, i)
    BY <1>1, <1>2, <1>6 DEF WordsBy
  <2>3. KindOf(i) \in Nat
    BY DEF KindOf
  <2>4. IF KindOf(i) > r.next \/ Holds(r, i) THEN index.words[i] = NoWords
        ELSE index.text[i] # 0 => FoundByItsText(index, i)
    BY <1>1, <1>2, <1>3, <2>2, <2>3
  <2>5. QED
    BY <1>1, <2>1, <2>4 DEF WordsBy
<1>7. QED
  BY <1>1, <1>4, <1>5, <1>6, RebuildKeeps

LEMMA EndsKeeps ==
  ASSUME TypeOK, SearchInv, NEW p \in Procs, NEW r, Moves(p, r), EndsFilling(p, r)
  PROVE  SearchInv'
<1>1. /\ proc[p].pc = "fill" /\ proc[p].todo = {} /\ proc[p].next = 3
      /\ r.pc = "ready" /\ r.todo = {} /\ index' = index /\ ghost' = ghost
  BY DEF EndsFilling
<1>2. ListFits(r) /\ \A i : ~Holds(r, i) /\ ~Holds(proc[p], i)
  BY <1>1 DEF ListFits, Holds
<1>3. \A i \in Items : index.text[i] = 0 => index'.words[i] = NoWords /\ ~Holds(r, i)
  BY <1>1, <1>2, SearchParts DEF NothingOfNoRow
<1>4. ASSUME NEW i \in Items, WordsBy(proc[p], index, i)
      PROVE  index.text[i] # 0 => FoundByItsText(index', i)
  <2>1. ~(KindOf(i) > proc[p].next)
    BY <1>1 DEF KindOf
  <2>2. QED
    BY <1>1, <1>2, <1>4, <2>1 DEF WordsBy
<1>5. QED
  BY <1>1, <1>2, <1>3, <1>4, RebuildKeeps

-----------------------------------------------------------------------------
(* The theorems.                                                           *)

LEMMA NewFile ==
  ASSUME NEW v \in 0..SchemaVersion, NEW t \in BOOLEAN
  PROVE  /\ FileOf(v, t) \in Files /\ FileOf(v, t).version = v
         /\ \A m \in 1..v : ChangesOf(m) \subseteq FileOf(v, t).has
         /\ \A n \in 0..SchemaVersion : FileOf(v, t).copies[n].state = "none"
<1> DEFINE copies == [n \in 0..SchemaVersion |-> NoCopy]
<1>1. /\ copies \in [0..SchemaVersion -> [state : {"none", "writing", "torn", "whole"},
                                          of : 0..SchemaVersion]]
      /\ \A n \in 0..SchemaVersion : copies[n].state = "none"
  BY DEF NoCopy, SchemaVersion
<1>2. Known(v) \subseteq Changes
  BY DEF Known
<1>3. FileOf(v, t) = [version |-> v, has |-> Known(v), tables |-> t, copies |-> copies]
  BY DEF FileOf
<1> HIDE DEF copies
<1>4. \A m \in 1..v : ChangesOf(m) \subseteq Known(v)
  <2>1. v \in Nat
    BY DEF SchemaVersion
  <2>2. QED
    BY <2>1 DEF ChangesOf, Known
<1>5. QED
  BY <1>1, <1>2, <1>3, <1>4 DEF Files

LEMMA NewIndex ==
  /\ NoIndex \in Indexes
  /\ \A i \in Items : /\ NoIndex.text[i] = 0 /\ NoIndex.words[i] = NoWords
                      /\ NoIndex.vector[i] = NoVector
BY NoWordsType DEF NoIndex, Indexes, NoVector

LEMMA Initially == Init => IInv
<1> SUFFICES ASSUME Init PROVE IInv
  OBVIOUS
<1>1. /\ family \in Families /\ family \in Settings
      /\ family.start \in 0..SchemaVersion /\ family.tables \in BOOLEAN /\ family.calls \in Nat
  BY FamiliesAreSettings DEF Init, Settings
<1>2. /\ file = FileOf(family.start, family.tables) /\ index = NoIndex
      /\ ghost = [kills |-> 0, unsure |-> {}, behind |-> {}, sent |-> {}]
  BY DEF Init
<1>3. /\ file \in Files /\ file.version = family.start
      /\ \A m \in 1..file.version : ChangesOf(m) \subseteq file.has
      /\ \A n \in 0..SchemaVersion : file.copies[n].state = "none"
  BY <1>1, <1>2, NewFile
<1>4. /\ proc \in [Procs -> Procedures]
      /\ \A p \in Procs : proc[p].pc = "closed" /\ proc[p].todo = {}
  <2> DEFINE q == [pc |-> "closed", saw |-> 0, next |-> 0, todo |-> {}, calls |-> family.calls]
  <2>1. q \in Procedures /\ q.pc = "closed" /\ q.todo = {}
    BY <1>1 DEF Procedures, Opening, SchemaVersion
  <2>2. proc = [p \in Procs |-> q]
    BY DEF Init
  <2> HIDE DEF q
  <2>3. QED
    BY <2>1, <2>2
<1>5. TypeOK
  BY <1>1, <1>2, <1>3, <1>4, NewIndex, MaxKillsIsNatural DEF TypeOK
<1>6. file.version \in Nat /\ family.start \in Nat
  BY <1>5, FileOfSettings
<1>7. SchemaInv
  <2>1. VersionTellsTheSchema
    BY <1>3, <1>4 DEF VersionTellsTheSchema, Working
  <2>2. WorksOnItsSchema
    BY <1>4 DEF WorksOnItsSchema, Working
  <2>3. VersionMovesOn
    BY <1>3, <1>4, <1>6 DEF VersionMovesOn
  <2>4. CopyComesFirst
    BY <1>1, <1>3, <1>4, <1>6 DEF CopyComesFirst
  <2>5. QED
    BY <2>1, <2>2, <2>3, <2>4 DEF SchemaInv
<1>8. SearchInv
  <2>1. \A p \in Procs : ToIndex(proc[p]) = {} /\ ToEmbed(proc[p]) = {}
    BY <1>4, NotAtWork DEF Resting
  <2>2. ListsFit
    BY <1>4 DEF ListsFit, ListFits
  <2>3. NothingOfNoRow
    BY <1>2, <1>4, NewIndex DEF NothingOfNoRow, Holds
  <2>4. WordsFollow
    <3>1. ASSUME NEW i \in Items PROVE WordsOf(proc, index, i)
      BY <1>2, <2>1, NewIndex, NoPromise DEF WordsOf
    <3>2. QED
      BY <3>1 DEF WordsFollow
  <2>5. VectorsFollow
    BY <1>2, <2>1, NewIndex DEF VectorsFollow, VectorOf, NoVector
  <2>6. NotesHaveNone /\ NotesStayHere
    BY <1>2, NewIndex, ItemKindsOk DEF NotesHaveNone, NotesStayHere
  <2>7. QED
    BY <2>2, <2>3, <2>4, <2>5, <2>6 DEF SearchInv
<1>9. QED
  BY <1>5, <1>7, <1>8 DEF IInv

LEMMA SearchStep ==
  ASSUME IInv, NEW p \in Procs, NEW r \in Procedures, Forms(p, r)
  PROVE  SearchInv'
<1>1. TypeOK /\ SearchInv /\ Moves(p, r)
  BY DEF IInv, Forms
<1>2. ASSUME NEW i \in Items, NEW t \in Texts, StartsText(p, r, i, t) PROVE SearchInv'
  BY <1>1, <1>2, StartsKeeps
<1>3. ASSUME NEW e \in Entries, WritesWords(p, r, e) PROVE SearchInv'
  BY <1>1, <1>3, WritesKeeps
<1>4. ASSUME NEW e \in Entries, SendsText(p, r, e) PROVE SearchInv'
  BY <1>1, <1>4, SendsKeeps
<1>5. ASSUME NEW e \in Entries, EmbedsText(p, r, e) PROVE SearchInv'
  BY <1>1, <1>5, EmbedsKeeps
<1>6. ASSUME NEW e \in Entries, FillsRow(p, r, e) PROVE SearchInv'
  BY <1>1, <1>6, FillsKeeps
<1>7. CASE Released(p, r)
  BY <1>1, <1>7, ReleasedKeeps
<1>8. CASE ListsTexts(p, r)
  BY <1>1, <1>8, ListsKeeps
<1>9. CASE TakesRows(p, r)
  BY <1>1, <1>9, TakesKeeps
<1>10. CASE ClearsWords(p, r)
  BY <1>1, <1>10, ClearsKeeps
<1>11. CASE TakesKind(p, r)
  BY <1>1, <1>11, TakesKindKeeps
<1>12. CASE EndsFilling(p, r)
  BY <1>1, <1>12, EndsKeeps
<1>13. QED
  BY <1>2, <1>3, <1>4, <1>5, <1>6, <1>7, <1>8, <1>9, <1>10, <1>11, <1>12 DEF Forms

LEMMA SchemaStep == IInv /\ [Next]_vars => IInv'
<1> SUFFICES ASSUME IInv, [Next]_vars PROVE IInv'
  OBVIOUS
<1>1. TypeOK /\ SchemaInv /\ SearchInv /\ FileInv /\ ListsFit
  BY DEF IInv, FileInv, SearchInv
<1>2. CASE Next
  <2>1. PICK p \in Procs : Steps(p)
    BY <1>2 DEF Next, Steps
  <2>2. PICK r \in Procedures : Forms(p, r)
    BY <1>1, <2>1, StepForms
  <2>3. file' \in Files /\ family' = family /\ SchemaInv'
    BY <1>1, <2>1, FileStep
  <2>4. index' \in Indexes /\ ghost' \in Ghosts /\ proc' \in [Procs -> Procedures]
    BY <1>1, <2>2, FormsFit
  <2>5. TypeOK'
    BY <1>1, <2>3, <2>4 DEF TypeOK, Ghosts
  <2>6. SearchInv'
    BY <2>2, SearchStep
  <2>7. QED
    BY <2>3, <2>5, <2>6 DEF IInv
<1>3. CASE UNCHANGED vars
  <2>1. /\ family' = family /\ file' = file /\ index' = index
        /\ proc' = proc /\ ghost' = ghost
    BY <1>3 DEF vars
  <2>2. TypeOK'
    BY <1>1, <2>1 DEF TypeOK
  <2>3. SchemaInv'
    BY <1>1, <2>1 DEF SchemaInv, VersionTellsTheSchema, WorksOnItsSchema, VersionMovesOn,
                      CopyComesFirst
  <2>4. ListsFit' /\ NothingOfNoRow'
    BY <1>1, <2>1 DEF SearchInv, ListsFit, ListFits, NothingOfNoRow, Holds
  <2>5. WordsFollow' /\ VectorsFollow'
    BY <1>1, <2>1, SearchParts, FollowStill
  <2>6. NotesHaveNone' /\ NotesStayHere'
    BY <1>1, <2>1 DEF SearchInv, NotesHaveNone, NotesStayHere
  <2>7. QED
    BY <2>2, <2>3, <2>4, <2>5, <2>6 DEF IInv, SearchInv
<1>4. QED
  BY <1>2, <1>3

\* The invariant holds in every state that processes opening, migrating, writing,
\* embedding, importing and being killed can bring the file to (store/store.go,
\* search.go, embedding.go, snapshot.go).
THEOREM StoreInvariant == Spec => []IInv
<1>1. Init => IInv
  BY Initially
<1>2. IInv /\ [Next]_vars => IInv'
  BY SchemaStep
<1>3. QED
  BY <1>1, <1>2, PTL DEF Spec

\* A process works on a file that has all its build knows of, the version recorded is
\* never more than what is there, and a store that had a version is copied as it was
\* before it is migrated, whatever builds open it at once and wherever they are killed
\* (prepareSchema, runMigrations and backupBeforeMigrating, store/store.go).
THEOREM SchemaStaysWhole == Spec => []SchemaIsWhole
<1>1. ASSUME IInv PROVE SchemaIsWhole
  <2>1. TypeOK /\ VersionTellsTheSchema /\ WorksOnItsSchema /\ CopyComesFirst
    BY <1>1 DEF IInv, SchemaInv
  <2>2. CopiedBeforeMigrating
    BY <2>1 DEF CopiedBeforeMigrating, CopyComesFirst
  <2>3. QED
    BY <2>1, <2>2 DEF SchemaIsWhole
<1>2. IInv => SchemaIsWhole
  BY <1>1
<1>3. QED
  BY <1>2, StoreInvariant, PTL

\* When nobody is at work on a row, the word table has it by its present text alone and
\* its vector, if any, is of that text, but for the rows of which that was cut short,
\* failed or raced; and a note's text has never been sent to the provider (search.go,
\* embedding.go, snapshot.go, cmd/search.go).
THEOREM SearchStaysCurrent == Spec => []SearchIsCurrent
<1>1. ASSUME IInv PROVE SearchIsCurrent
  <2>1. SearchInv
    BY <1>1 DEF IInv
  <2>2. FoundByPresentText
    BY <2>1, SearchParts DEF FoundByPresentText, WordsOf, Rows
  <2>3. VectorOfPresentText
    BY <2>1, SearchParts DEF VectorOfPresentText, VectorOf, Rows
  <2>4. NotesStayHere
    BY <2>1, SearchParts
  <2>5. QED
    BY <2>2, <2>3, <2>4 DEF SearchIsCurrent
<1>2. IInv => SearchIsCurrent
  BY <1>1
<1>3. QED
  BY <1>2, StoreInvariant, PTL

-----------------------------------------------------------------------------
(* Sequences of whatever values.                                           *)

AList(s) == s \in Seq({s[i] : i \in DOMAIN s})

LEMMA ListOf ==
  ASSUME NEW S, NEW s \in Seq(S)
  PROVE  AList(s) /\ Len(s) \in Nat /\ DOMAIN s = 1 .. Len(s)
<1>1. Len(s) \in Nat /\ DOMAIN s = 1 .. Len(s) /\ s \in [1 .. Len(s) -> S]
  BY LenProperties
<1> DEFINE R == {s[i] : i \in DOMAIN s}
<1>2. s \in [1 .. Len(s) -> R]
  BY <1>1
<1> HIDE DEF R
<1>3. s \in Seq(R)
  BY <1>1, <1>2, IsASeq
<1>4. QED
  BY <1>1, <1>3 DEF AList, R

LEMMA ListIs ==
  ASSUME NEW s, AList(s)
  PROVE  Len(s) \in Nat /\ DOMAIN s = 1 .. Len(s) /\ s = [i \in 1 .. Len(s) |-> s[i]]
<1>1. PICK S : S = {s[i] : i \in DOMAIN s}
  OBVIOUS
<1>2. s \in Seq(S)
  BY <1>1 DEF AList
<1>3. Len(s) \in Nat /\ DOMAIN s = 1 .. Len(s) /\ s \in [1 .. Len(s) -> S]
  BY <1>2, LenProperties
<1>4. QED
  BY <1>3

LEMMA FunctionIsList ==
  ASSUME NEW n \in Nat, NEW s, s = [i \in 1 .. n |-> s[i]]
  PROVE  AList(s) /\ Len(s) = n
<1>1. PICK S : S = {s[i] : i \in 1 .. n}
  OBVIOUS
<1>2. s \in [1 .. n -> S]
  BY <1>1
<1>3. s \in Seq(S)
  BY <1>2, IsASeq
<1>4. DOMAIN s = 1 .. n
  OBVIOUS
<1>5. AList(s) /\ Len(s) \in Nat /\ DOMAIN s = 1 .. Len(s)
  BY <1>3, ListOf
<1>6. QED
  BY <1>4, <1>5

LEMMA Appended ==
  ASSUME NEW s, AList(s), NEW x
  PROVE  /\ AList(Append(s, x)) /\ Len(Append(s, x)) = Len(s) + 1
         /\ Len(s) \in Nat
         /\ \A i \in 1 .. Len(s) : Append(s, x)[i] = s[i]
         /\ Append(s, x)[Len(s) + 1] = x
<1>1. PICK S : S = {s[i] : i \in DOMAIN s} \union {x}
  OBVIOUS
<1>2. Len(s) \in Nat /\ s = [i \in 1 .. Len(s) |-> s[i]] /\ DOMAIN s = 1 .. Len(s)
  BY ListIs
<1>3. s \in [1 .. Len(s) -> S] /\ x \in S
  BY <1>1, <1>2
<1>4. s \in Seq(S)
  BY <1>2, <1>3, IsASeq
<1>5. /\ Append(s, x) \in Seq(S) /\ Len(Append(s, x)) = Len(s) + 1
      /\ \A i \in 1 .. Len(s) : Append(s, x)[i] = s[i]
      /\ Append(s, x)[Len(s) + 1] = x
  BY <1>3, <1>4, AppendProperties
<1>6. QED
  BY <1>2, <1>5, ListOf

LEMMA SameList ==
  ASSUME NEW a, NEW b, AList(a), AList(b), Len(a) = Len(b), \A i \in 1 .. Len(a) : a[i] = b[i]
  PROVE  a = b
<1>1. /\ a = [i \in 1 .. Len(a) |-> a[i]] /\ b = [i \in 1 .. Len(b) |-> b[i]]
  BY ListIs
<1>2. QED
  BY <1>1

LEMMA PartOf ==
  ASSUME NEW s, AList(s), NEW m \in Nat, m >= 1, NEW n \in Nat, m <= n + 1, n <= Len(s)
  PROVE  /\ AList(SubSeq(s, m, n)) /\ Len(SubSeq(s, m, n)) = n + 1 - m
         /\ \A i \in 1 .. (n + 1 - m) : SubSeq(s, m, n)[i] = s[m + i - 1]
<1>1. PICK S : S = {s[i] : i \in DOMAIN s}
  OBVIOUS
<1>2. s \in Seq(S) /\ Len(s) \in Nat
  BY <1>1, ListIs DEF AList
<1>3. /\ SubSeq(s, m, n) \in Seq(S)
      /\ Len(SubSeq(s, m, n)) = n + 1 - m
      /\ \A i \in 1 .. (n + 1 - m) : SubSeq(s, m, n)[i] = s[m + i - 1]
  <2>1. CASE m = n + 1
    BY <1>2, <2>1
  <2>2. CASE m # n + 1
    BY <1>2, <2>2
  <2>3. QED
    BY <2>1, <2>2
<1>4. QED
  BY <1>3, ListOf

LEMMA Prefix ==
  ASSUME NEW s, AList(s), NEW n \in Nat, n <= Len(s)
  PROVE  /\ AList(SubSeq(s, 1, n)) /\ Len(SubSeq(s, 1, n)) = n
         /\ \A i \in 1 .. n : SubSeq(s, 1, n)[i] = s[i]
<1>1. Len(s) \in Nat
  BY ListIs
<1>2. QED
  BY <1>1, PartOf

LEMMA NoneListed == AList(<<>>) /\ Len(<<>>) = 0
<1>1. <<>> \in Seq({})
  OBVIOUS
<1>2. QED
  BY <1>1, ListOf

LEMMA Joined ==
  ASSUME NEW s, AList(s), NEW t, AList(t)
  PROVE  /\ AList(s \o t) /\ Len(s \o t) = Len(s) + Len(t)
         /\ Len(s) \in Nat /\ Len(t) \in Nat
         /\ \A i \in 1 .. Len(s) : (s \o t)[i] = s[i]
         /\ \A i \in 1 .. Len(t) : (s \o t)[Len(s) + i] = t[i]
<1>1. PICK S : S = {s[i] : i \in DOMAIN s} \union {t[i] : i \in DOMAIN t}
  OBVIOUS
<1>2. /\ Len(s) \in Nat /\ s = [i \in 1 .. Len(s) |-> s[i]] /\ DOMAIN s = 1 .. Len(s)
      /\ Len(t) \in Nat /\ t = [i \in 1 .. Len(t) |-> t[i]] /\ DOMAIN t = 1 .. Len(t)
  BY ListIs
<1>3. s \in [1 .. Len(s) -> S] /\ t \in [1 .. Len(t) -> S]
  BY <1>1, <1>2
<1>4. s \in Seq(S) /\ t \in Seq(S)
  BY <1>2, <1>3, IsASeq
<1>5. /\ s \o t \in Seq(S) /\ Len(s \o t) = Len(s) + Len(t)
      /\ \A i \in 1 .. (Len(s) + Len(t)) : (s \o t)[i] = IF i <= Len(s) THEN s[i] ELSE t[i - Len(s)]
  BY <1>4, ConcatProperties
<1>6. ASSUME NEW i \in 1 .. Len(t) PROVE (s \o t)[Len(s) + i] = t[i]
  <2>1. Len(s) + i \in 1 .. (Len(s) + Len(t)) /\ ~(Len(s) + i <= Len(s)) /\ (Len(s) + i) - Len(s) = i
    BY <1>2
  <2>2. QED
    BY <1>5, <2>1
<1>7. ASSUME NEW i \in 1 .. Len(s) PROVE (s \o t)[i] = s[i]
  BY <1>2, <1>5
<1>8. QED
  BY <1>2, <1>5, <1>6, <1>7, ListOf

-----------------------------------------------------------------------------
(* A trail is what its contents make it: each hash covers everything after *)
(* the unhashed events, with the role from the marker on.                  *)

\* What an older acline left: c events, u of them without a hash.
Legacies == {l \in [c : Nat, u : Nat, role : Roles] : l.u <= l.c}

Covers(e, v2) == IF v2 THEN <<e.type, e.msg, e.role>> ELSE <<e.type, e.msg>>

HashAt(es, l, i) == [j \in 1 .. i - l.u |-> Covers(es[j + l.u], j + l.u > l.c + 1)]

OldAttestation(l) ==
  [marker |-> l.c + 1,
   digest |-> [i \in 1 .. l.c |-> IF i <= l.u THEN <<i, l.role, "note", Text("old")>> ELSE <<i, l.role>>]]

Digests == [table : Tables, id : Nat, content : Contents]

\* A head seal names one of the first n events.
Anchored(es, n, head) == \E k \in 1 .. n : es[k].id = head.id /\ es[k].hash = head.hash

\* What acline writes after n events.
Says(es, n, l, type, msg) ==
  /\ msg # Text("altered")
  /\ type = "row_seal" => msg \in Digests
  /\ type = "legacy_attested" => msg = OldAttestation(l)
  /\ type = "head_sealed" => msg = HeadSeal(msg.head, msg.key) /\ Anchored(es, n, msg.head)

Link(es, l, i) ==
  /\ es[i] = [id |-> i, type |-> es[i].type, msg |-> es[i].msg, role |-> es[i].role,
              prev |-> HashAt(es, l, i - 1), hash |-> HashAt(es, l, i)]
  /\ es[i].role \in Roles
  /\ i <= l.c => es[i].type = "note" /\ es[i].msg = Text("old") /\ es[i].role = l.role
  /\ i = l.c + 1 => es[i].type = Marker /\ es[i].msg = Text("event_hash_v2") /\ es[i].role = NoRole
  /\ i > l.c + 1 => es[i].type # Marker
  /\ Says(es, i - 1, l, es[i].type, es[i].msg)

Trail(es, l) == AList(es) /\ Len(es) >= l.c /\ \A i \in 1 .. Len(es) : Link(es, l, i)

\* b goes on where a ends.
Continues(a, b) == AList(a) /\ AList(b) /\ Len(a) <= Len(b) /\ \A i \in 1 .. Len(a) : b[i] = a[i]

LEMMA HashIsList ==
  ASSUME NEW l \in Legacies, NEW es, NEW i \in Int
  PROVE  /\ AList(HashAt(es, l, i))
         /\ i >= l.u => Len(HashAt(es, l, i)) = i - l.u
         /\ i <= l.u => HashAt(es, l, i) = <<>>
<1>1. l.u \in Nat /\ l.c \in Nat /\ l.u <= l.c
  BY DEF Legacies
<1>2. CASE i >= l.u
  <2>1. i - l.u \in Nat
    BY <1>1, <1>2
  <2>2. PICK h : h = HashAt(es, l, i)
    OBVIOUS
  <2>3. h = [j \in 1 .. i - l.u |-> h[j]]
    BY <2>2 DEF HashAt
  <2>4. AList(h) /\ Len(h) = i - l.u
    BY <2>1, <2>3, FunctionIsList
  <2>5. ASSUME i <= l.u PROVE h = <<>>
    <3>1. Len(h) = 0
      BY <1>1, <1>2, <2>4, <2>5
    <3>2. QED
      BY <3>1, <2>4, NoneListed, SameList
  <2>6. QED
    BY <2>2, <2>4, <2>5
<1>3. CASE i < l.u
  <2>1. 1 .. i - l.u = 1 .. 0
    BY <1>1, <1>3
  <2>2. PICK h : h = HashAt(es, l, i)
    OBVIOUS
  <2>3. h = [j \in 1 .. 0 |-> h[j]]
    BY <2>1, <2>2 DEF HashAt
  <2>4. AList(h) /\ Len(h) = 0
    BY <2>3, FunctionIsList
  <2>5. h = <<>>
    BY <2>4, NoneListed, SameList
  <2>6. QED
    BY <1>1, <1>3, <2>2, <2>4, <2>5
<1>4. QED
  BY <1>1, <1>2, <1>3

\* A hash depends on no event after it.
LEMMA HashSame ==
  ASSUME NEW l \in Legacies, NEW es, NEW fs, NEW i \in Int, \A j \in 1 .. i : es[j] = fs[j]
  PROVE  HashAt(es, l, i) = HashAt(fs, l, i)
<1>1. l.u \in Nat
  BY DEF Legacies
<1>2. ASSUME NEW j \in 1 .. i - l.u PROVE es[j + l.u] = fs[j + l.u]
  BY <1>1
<1>3. QED
  BY <1>2 DEF HashAt

LEMMA LinkSame ==
  ASSUME NEW l \in Legacies, NEW es, NEW fs, NEW i \in Nat, i # 0, Link(es, l, i),
         \A j \in 1 .. i : fs[j] = es[j]
  PROVE  Link(fs, l, i)
<1>1. HashAt(fs, l, i) = HashAt(es, l, i) /\ fs[i] = es[i]
  BY HashSame
<1>2. HashAt(fs, l, i - 1) = HashAt(es, l, i - 1)
  <2>1. i - 1 \in Int /\ \A j \in 1 .. i - 1 : fs[j] = es[j]
    OBVIOUS
  <2>2. QED
    BY <2>1, HashSame
<1>3. Says(fs, i - 1, l, fs[i].type, fs[i].msg)
  BY <1>1 DEF Link, Says, Anchored
<1>4. QED
  BY <1>1, <1>2, <1>3 DEF Link

\* One more event extends a hash by what it covers.
LEMMA HashNext ==
  ASSUME NEW l \in Legacies, NEW es, NEW i \in Nat, i >= l.u
  PROVE  HashAt(es, l, i + 1) = Append(HashAt(es, l, i), Covers(es[i + 1], i + 1 > l.c + 1))
<1>1. l.u \in Nat /\ l.c \in Nat
  BY DEF Legacies
<1>2. PICK h : h = HashAt(es, l, i)
  OBVIOUS
<1>3. PICK g : g = HashAt(es, l, i + 1)
  OBVIOUS
<1>4. PICK x : x = Covers(es[i + 1], i + 1 > l.c + 1)
  OBVIOUS
<1>5. AList(h) /\ Len(h) = i - l.u
  BY <1>2, HashIsList
<1>6. AList(g) /\ Len(g) = i + 1 - l.u
  BY <1>1, <1>3, HashIsList
<1>7. \A j \in 1 .. i - l.u : g[j] = h[j]
  BY <1>1, <1>2, <1>3 DEF HashAt
<1>8. g[i + 1 - l.u] = x
  <2>1. PICK k : k = i + 1 - l.u
    OBVIOUS
  <2>2. k \in 1 .. (i + 1) - l.u /\ k + l.u = i + 1
    BY <1>1, <2>1
  <2>3. g = [j \in 1 .. (i + 1) - l.u |-> Covers(es[j + l.u], j + l.u > l.c + 1)]
    BY <1>3 DEF HashAt
  <2>4. g[k] = Covers(es[k + l.u], k + l.u > l.c + 1)
    BY <2>2, <2>3
  <2>5. QED
    BY <1>4, <2>1, <2>2, <2>4
<1>9. /\ AList(Append(h, x)) /\ Len(Append(h, x)) = Len(h) + 1
      /\ \A j \in 1 .. Len(h) : Append(h, x)[j] = h[j]
      /\ Append(h, x)[Len(h) + 1] = x
  BY <1>5, Appended
<1>10. \A j \in 1 .. Len(g) : g[j] = Append(h, x)[j]
  BY <1>1, <1>5, <1>6, <1>7, <1>8, <1>9
<1>11. g = Append(h, x)
  <2>1. Len(g) = Len(Append(h, x))
    BY <1>1, <1>5, <1>6, <1>9
  <2>2. QED
    BY <1>6, <1>9, <1>10, <2>1, SameList
<1>12. QED
  BY <1>2, <1>3, <1>4, <1>11

LEMMA TrailIs ==
  ASSUME NEW l \in Legacies, NEW es, Trail(es, l)
  PROVE  /\ AList(es) /\ Len(es) \in Nat /\ DOMAIN es = 1 .. Len(es)
         /\ l.u \in Nat /\ l.c \in Nat /\ l.u <= l.c /\ l.c <= Len(es) /\ l.role \in Roles
BY ListIs DEF Trail, Legacies

LEMMA TrailEnd ==
  ASSUME NEW l \in Legacies, NEW es, Trail(es, l)
  PROVE  HashOf(es) = HashAt(es, l, Len(es))
<1>1. AList(es) /\ Len(es) \in Nat /\ l.u \in Nat
  BY TrailIs
<1>2. CASE es = <<>>
  BY <1>1, <1>2, NoneListed, HashIsList DEF HashOf, NoHash
<1>3. CASE es # <<>>
  <2>1. Len(es) # 0
    BY <1>1, <1>3, NoneListed, SameList
  <2>2. Link(es, l, Len(es))
    BY <1>1, <2>1 DEF Trail
  <2>3. es[Len(es)].hash = HashAt(es, l, Len(es))
    BY <2>2 DEF Link
  <2>4. QED
    BY <1>3, <2>3 DEF HashOf, Last
<1>4. QED
  BY <1>2, <1>3

\* The marker comes after what an older acline left, and only there.
ChainsNext(es, l, type, msg, role, n) ==
  /\ Len(es) = l.c => /\ type = Marker /\ msg = Text("event_hash_v2") /\ role = NoRole
                      /\ n = Chained(es, type, msg, role, FALSE)
  /\ Len(es) > l.c => type # Marker /\ n = Chained(es, type, msg, role, TRUE)

LEMMA ChainedIs ==
  ASSUME NEW l \in Legacies, NEW es, Trail(es, l), NEW type, NEW msg, NEW role \in Roles,
         Says(es, Len(es), l, type, msg),
         NEW n, ChainsNext(es, l, type, msg, role, n)
  PROVE  /\ Trail(n, l) /\ Continues(es, n) /\ Len(n) = Len(es) + 1
         /\ n[Len(n)].type = type /\ n[Len(n)].msg = msg
<1> DEFINE N == Len(es)
           D == [id |-> N + 1, type |-> type, msg |-> msg, role |-> role]
           E == [id |-> N + 1, type |-> type, msg |-> msg, role |-> role,
                 prev |-> HashOf(es), hash |-> Append(HashOf(es), Covers(D, N > l.c))]
<1>1. AList(es) /\ N \in Nat /\ l.u \in Nat /\ l.c \in Nat /\ l.u <= l.c /\ l.c <= N
  BY TrailIs
<1>2. n = Append(es, E)
  <2>1. CASE N > l.c
    BY <1>1, <2>1 DEF ChainsNext, Chained, Hash, Covers
  <2>2. CASE N = l.c
    BY <1>1, <2>2 DEF ChainsNext, Chained, Hash, Covers
  <2>3. QED
    BY <1>1, <2>1, <2>2
<1>3. PICK e : e = E
  OBVIOUS
<1>4. /\ AList(n) /\ Len(n) = N + 1 /\ \A i \in 1 .. N : n[i] = es[i]
      /\ n[N + 1] = e
  BY <1>1, <1>2, <1>3, Appended
<1>5. /\ e = [id |-> N + 1, type |-> e.type, msg |-> e.msg, role |-> e.role, prev |-> e.prev, hash |-> e.hash]
      /\ e.type = type /\ e.msg = msg /\ e.role = role /\ e.prev = HashOf(es)
      /\ e.hash = Append(HashOf(es), Covers(e, N > l.c))
  BY <1>3 DEF Covers
<1>6. HashAt(n, l, N) = HashAt(es, l, N)
  BY <1>1, <1>4, HashSame
<1>7. e.prev = HashAt(n, l, N)
  BY <1>5, <1>6, TrailEnd
<1>8. e.hash = HashAt(n, l, N + 1)
  <2>1. Covers(e, N > l.c) = Covers(e, N + 1 > l.c + 1)
    <3>1. CASE N > l.c
      BY <1>1, <3>1 DEF Covers
    <3>2. CASE ~(N > l.c)
      BY <1>1, <3>2 DEF Covers
    <3>3. QED
      BY <3>1, <3>2
  <2>2. HashAt(n, l, N + 1) = Append(HashAt(n, l, N), Covers(n[N + 1], N + 1 > l.c + 1))
    BY <1>1, HashNext
  <2>3. QED
    BY <1>4, <1>5, <1>7, <2>1, <2>2
<1>9. Says(n, N, l, e.type, e.msg)
  BY <1>4, <1>5 DEF Says, Anchored
<1>10. Link(n, l, N + 1)
  <2>1. (N + 1) - 1 = N
    BY <1>1
  <2>2. n[N + 1] = [id |-> N + 1, type |-> n[N + 1].type, msg |-> n[N + 1].msg, role |-> n[N + 1].role,
                    prev |-> HashAt(n, l, (N + 1) - 1), hash |-> HashAt(n, l, N + 1)]
    BY <1>4, <1>5, <1>7, <1>8, <2>1
  <2>3. ~(N + 1 <= l.c) /\ (N + 1 = l.c + 1 <=> N = l.c) /\ (N + 1 > l.c + 1 <=> N > l.c)
    BY <1>1
  <2>4. n[N + 1].role \in Roles /\ n[N + 1].type = type /\ n[N + 1].msg = msg /\ n[N + 1].role = role
    BY <1>4, <1>5
  <2>5. Says(n, (N + 1) - 1, l, n[N + 1].type, n[N + 1].msg)
    BY <1>4, <1>9, <2>1
  <2>6. /\ N = l.c => type = Marker /\ msg = Text("event_hash_v2") /\ role = NoRole
        /\ N > l.c => type # Marker
    BY DEF ChainsNext
  <2>7. QED
    BY <2>2, <2>3, <2>4, <2>5, <2>6 DEF Link
<1>11. ASSUME NEW i \in 1 .. N PROVE Link(n, l, i)
  <2>1. i \in Nat /\ i # 0 /\ \A j \in 1 .. i : n[j] = es[j]
    BY <1>1, <1>4
  <2>2. Link(es, l, i)
    BY DEF Trail
  <2>3. QED
    BY <2>1, <2>2, LinkSame
<1>12. Trail(n, l)
  <2>1. \A i \in 1 .. N + 1 : i = N + 1 \/ i \in 1 .. N
    BY <1>1
  <2>2. Len(n) >= l.c
    BY <1>1, <1>4
  <2>3. QED
    BY <1>4, <1>10, <1>11, <2>1, <2>2 DEF Trail
<1>13. Continues(es, n)
  BY <1>1, <1>4 DEF Continues
<1>14. QED
  BY <1>4, <1>5, <1>12, <1>13

-----------------------------------------------------------------------------
(* A trail verifies, and is continued by what is logged.                   *)

LEMMA MarkerSplits ==
  ASSUME NEW l \in Legacies, NEW es, Trail(es, l), NEW i \in 1 .. Len(es)
  PROVE  /\ es[i].type = Marker <=> i = l.c + 1
         /\ IsMarker(es[i]) <=> i = l.c + 1
         /\ es[i].hash = NoHash <=> i <= l.u
         /\ es[i].id = i /\ es[i].role \in Roles
         /\ es[i].prev = HashAt(es, l, i - 1) /\ es[i].hash = HashAt(es, l, i)
<1>1. Link(es, l, i) /\ i \in Nat /\ i # 0 /\ l.c \in Nat /\ l.u \in Nat /\ l.u <= l.c
  BY TrailIs DEF Trail
<1>2. es[i].type = Marker <=> i = l.c + 1
  <2>1. CASE i <= l.c
    BY <1>1, <2>1 DEF Link, Marker
  <2>2. CASE i = l.c + 1
    BY <1>1, <2>2 DEF Link
  <2>3. CASE i > l.c + 1
    BY <1>1, <2>3 DEF Link
  <2>4. QED
    BY <1>1, <2>1, <2>2, <2>3
<1>3. IsMarker(es[i]) <=> i = l.c + 1
  BY <1>1, <1>2 DEF Link, IsMarker
<1>4. /\ es[i].id = i /\ es[i].role \in Roles
      /\ es[i].prev = HashAt(es, l, i - 1) /\ es[i].hash = HashAt(es, l, i)
  BY <1>1 DEF Link
<1>5. es[i].hash = NoHash <=> i <= l.u
  <2>1. CASE i <= l.u
    BY <1>1, <1>4, <2>1, HashIsList DEF NoHash
  <2>2. CASE i > l.u
    <3>1. Len(HashAt(es, l, i)) = i - l.u /\ i - l.u # 0
      BY <1>1, <2>2, HashIsList
    <3>2. QED
      BY <1>1, <1>4, <2>2, <3>1, NoneListed DEF NoHash
  <2>3. QED
    BY <1>1, <2>1, <2>2
<1>6. QED
  BY <1>2, <1>3, <1>4, <1>5

LEMMA HasMarker ==
  ASSUME NEW l \in Legacies, NEW es, Trail(es, l)
  PROVE  Has(es, Marker) <=> Len(es) > l.c
<1>1. Len(es) \in Nat /\ l.c \in Nat /\ DOMAIN es = 1 .. Len(es)
  BY TrailIs
<1>2. ASSUME Len(es) > l.c PROVE Has(es, Marker)
  <2>1. l.c + 1 \in 1 .. Len(es)
    BY <1>1, <1>2
  <2>2. es[l.c + 1].type = Marker
    BY <2>1, MarkerSplits
  <2>3. QED
    BY <1>1, <2>1, <2>2 DEF Has
<1>3. ASSUME Has(es, Marker) PROVE Len(es) > l.c
  <2>1. PICK i \in 1 .. Len(es) : es[i].type = Marker
    BY <1>1, <1>3 DEF Has
  <2>2. i = l.c + 1
    BY <2>1, MarkerSplits
  <2>3. QED
    BY <1>1, <2>2
<1>4. QED
  BY <1>2, <1>3

\* What verifyChain takes for the hash before an event.
LEMMA PrevIs ==
  ASSUME NEW es, AList(es), NEW k \in Nat, k <= Len(es)
  PROVE  HashOf(SubSeq(es, 1, k)) = IF k = 0 THEN NoHash ELSE es[k].hash
<1>1. PICK s : s = SubSeq(es, 1, k)
  OBVIOUS
<1>2. AList(s) /\ Len(s) = k /\ \A i \in 1 .. k : s[i] = es[i]
  BY <1>1, Prefix
<1>3. CASE k = 0
  <2>1. s = <<>>
    BY <1>2, <1>3, NoneListed, SameList
  <2>2. QED
    BY <1>1, <1>3, <2>1 DEF HashOf
<1>4. CASE k # 0
  <2>1. s # <<>>
    BY <1>2, <1>4, NoneListed
  <2>2. s[k] = es[k]
    BY <1>2, <1>4
  <2>3. QED
    BY <1>1, <1>2, <1>4, <2>1, <2>2 DEF HashOf, Last
<1>5. QED
  BY <1>3, <1>4

LEMMA CoversRoleIs ==
  ASSUME NEW l \in Legacies, NEW es, Trail(es, l), NEW i \in 1 .. Len(es)
  PROVE  CoversRole(es, i) <=> i > l.c + 1
<1>1. l.c \in Nat /\ l.u \in Nat /\ l.u <= l.c /\ Len(es) \in Nat
  BY TrailIs
<1>2. \A j \in 1 .. i - 1 : j \in 1 .. Len(es)
  BY <1>1
<1>3. ASSUME i > l.c + 1 PROVE CoversRole(es, i)
  <2>1. l.c + 1 \in 1 .. i - 1 /\ l.c + 1 \in 1 .. Len(es) /\ ~(l.c + 1 <= l.u)
    BY <1>1, <1>3
  <2>2. IsMarker(es[l.c + 1]) /\ es[l.c + 1].hash # NoHash
    BY <2>1, MarkerSplits
  <2>3. QED
    BY <2>1, <2>2 DEF CoversRole
<1>4. ASSUME CoversRole(es, i) PROVE i > l.c + 1
  <2>1. PICK j \in 1 .. i - 1 : IsMarker(es[j])
    BY <1>4 DEF CoversRole
  <2>2. j = l.c + 1
    BY <1>2, <2>1, MarkerSplits
  <2>3. QED
    BY <1>1, <2>1, <2>2
<1>5. QED
  BY <1>3, <1>4

LEMMA TrailVerifies ==
  ASSUME NEW l \in Legacies, NEW es, Trail(es, l)
  PROVE  ChainOK(es)
<1>1. /\ AList(es) /\ Len(es) \in Nat /\ DOMAIN es = 1 .. Len(es)
      /\ l.u \in Nat /\ l.c \in Nat /\ l.u <= l.c
  BY TrailIs
<1>2. SUFFICES ASSUME NEW i \in 1 .. Len(es)
               PROVE  LET prev == HashOf(SubSeq(es, 1, i - 1))
                      IN  IF es[i].hash = NoHash THEN prev = NoHash
                          ELSE /\ es[i].prev = prev
                               /\ es[i].hash = Hash(prev, es[i], CoversRole(es, i))
  BY <1>1 DEF ChainOK
<1>3. HashOf(SubSeq(es, 1, i - 1)) = HashAt(es, l, i - 1)
  <2>1. i - 1 \in Nat /\ i - 1 <= Len(es)
    BY <1>1
  <2>2. CASE i = 1
    <3>1. HashAt(es, l, i - 1) = NoHash
      BY <1>1, <2>2, HashIsList DEF NoHash
    <3>2. QED
      BY <1>1, <2>1, <2>2, <3>1, PrevIs
  <2>3. CASE i # 1
    <3>1. i - 1 \in 1 .. Len(es) /\ i - 1 # 0
      BY <1>1, <2>3
    <3>2. es[i - 1].hash = HashAt(es, l, i - 1)
      BY <3>1, MarkerSplits
    <3>3. QED
      BY <1>1, <2>1, <3>1, <3>2, PrevIs
  <2>4. QED
    BY <2>2, <2>3
<1>4. CASE es[i].hash = NoHash
  <2>1. i - 1 <= l.u /\ i - 1 \in Int
    BY <1>1, <1>4, MarkerSplits
  <2>2. HashAt(es, l, i - 1) = NoHash
    BY <2>1, HashIsList DEF NoHash
  <2>3. QED
    BY <1>3, <1>4, <2>2
<1>5. CASE es[i].hash # NoHash
  <2>1. i - 1 >= l.u /\ i - 1 \in Nat /\ (i - 1) + 1 = i
    <3>1. ~(i <= l.u)
      BY <1>5, MarkerSplits
    <3>2. QED
      BY <1>1, <3>1
  <2>2. HashAt(es, l, i) = Append(HashAt(es, l, i - 1), Covers(es[i], i > l.c + 1))
    BY <2>1, HashNext
  <2>3. es[i].prev = HashAt(es, l, i - 1) /\ es[i].hash = HashAt(es, l, i)
    BY MarkerSplits
  <2>4. CoversRole(es, i) <=> i > l.c + 1
    BY CoversRoleIs
  <2>5. PICK h : h = HashAt(es, l, i - 1)
    OBVIOUS
  <2>6. Hash(h, es[i], CoversRole(es, i)) = Append(h, Covers(es[i], i > l.c + 1))
    <3>1. CASE i > l.c + 1
      BY <2>4, <3>1 DEF Hash, Covers
    <3>2. CASE ~(i > l.c + 1)
      BY <2>4, <3>2 DEF Hash, Covers
    <3>3. QED
      BY <3>1, <3>2
  <2>7. QED
    BY <1>3, <1>5, <2>2, <2>3, <2>5, <2>6
<1>6. QED
  BY <1>4, <1>5

-----------------------------------------------------------------------------
(* What a trail says, by type.                                             *)

SaidIn(es, type) == {es[i].msg : i \in {j \in DOMAIN es : es[j].type = type}}

\* n continues es with what was said: msg, in an event of the type, behind a marker
\* if there was none.
Adds(es, n, type, msg) ==
  /\ Continues(es, n) /\ Len(n) > Len(es)
  /\ \A t : t # Marker => SaidIn(n, t) = SaidIn(es, t) \union (IF t = type THEN {msg} ELSE {})

LEMMA ContinuesOn ==
  ASSUME NEW a, NEW b, NEW c, Continues(a, b), Continues(b, c)
  PROVE  Continues(a, c)
<1>1. Len(a) \in Nat /\ Len(b) \in Nat /\ Len(c) \in Nat
  BY ListIs DEF Continues
<1>2. QED
  BY <1>1 DEF Continues

LEMMA ContinuesItself ==
  ASSUME NEW a, AList(a)
  PROVE  Continues(a, a)
BY ListIs DEF Continues

LEMMA HasSaid ==
  ASSUME NEW es, NEW type
  PROVE  Has(es, type) <=> SaidIn(es, type) # {}
BY DEF Has, SaidIn

\* Where events are added of one type, all but the last markers, only that is said.
LEMMA OneMoreSaid ==
  ASSUME NEW es, NEW n, NEW type, type # Marker, Continues(es, n), Len(n) > Len(es),
         \A i \in Len(es) + 1 .. Len(n) - 1 : n[i].type = Marker,
         n[Len(n)].type = type
  PROVE  Adds(es, n, type, n[Len(n)].msg)
<1>1. /\ Len(es) \in Nat /\ Len(n) \in Nat /\ DOMAIN es = 1 .. Len(es) /\ DOMAIN n = 1 .. Len(n)
      /\ \A i \in 1 .. Len(es) : n[i] = es[i]
  BY ListIs DEF Continues
<1>2. ASSUME NEW t, t # Marker
      PROVE  SaidIn(n, t) = SaidIn(es, t) \union (IF t = type THEN {n[Len(n)].msg} ELSE {})
  <2>1. ASSUME NEW m \in SaidIn(n, t)
        PROVE  m \in SaidIn(es, t) \union (IF t = type THEN {n[Len(n)].msg} ELSE {})
    <3>1. PICK i \in 1 .. Len(n) : n[i].type = t /\ m = n[i].msg
      BY <1>1 DEF SaidIn
    <3>2. CASE i \in 1 .. Len(es)
      BY <1>1, <3>1, <3>2 DEF SaidIn
    <3>3. CASE i = Len(n)
      BY <3>1, <3>3
    <3>4. i \in 1 .. Len(es) \/ i = Len(n)
      <4>1. i \in Len(es) + 1 .. Len(n) - 1 => n[i].type = Marker
        OBVIOUS
      <4>2. i \notin Len(es) + 1 .. Len(n) - 1
        BY <1>2, <3>1, <4>1
      <4>3. QED
        <5>1. PICK k \in Nat, j \in Nat : k = Len(es) /\ j = Len(n)
          BY <1>1
        <5>2. i \in 1 .. j /\ i \notin k + 1 .. j - 1
          BY <4>2, <5>1
        <5>3. i \in 1 .. k \/ i = j
          BY <5>2
        <5>4. QED
          BY <5>1, <5>3
    <3>5. QED
      BY <3>2, <3>3, <3>4
  <2>2. ASSUME NEW m \in SaidIn(es, t) PROVE m \in SaidIn(n, t)
    <3>1. PICK i \in 1 .. Len(es) : es[i].type = t /\ m = es[i].msg
      BY <1>1 DEF SaidIn
    <3>2. i \in 1 .. Len(n) /\ n[i] = es[i]
      BY <1>1
    <3>3. QED
      BY <1>1, <3>1, <3>2 DEF SaidIn
  <2>3. ASSUME t = type PROVE n[Len(n)].msg \in SaidIn(n, t)
    <3>1. Len(n) \in DOMAIN n
      BY <1>1
    <3>2. QED
      BY <2>3, <3>1 DEF SaidIn
  <2>4. QED
    BY <2>1, <2>2, <2>3
<1>3. QED
  BY <1>2 DEF Adds

LEMMA MarkedIs ==
  ASSUME NEW l \in Legacies, NEW es, Trail(es, l), NEW n, n = WithMarker(es)
  PROVE  /\ Trail(n, l) /\ Continues(es, n) /\ Len(n) > l.c
         /\ \A i \in Len(es) + 1 .. Len(n) : n[i].type = Marker
<1>1. Len(es) \in Nat /\ l.c \in Nat /\ AList(es) /\ l.c <= Len(es)
  BY TrailIs
<1>2. CASE Len(es) > l.c
  <2>1. n = es
    BY <1>2, HasMarker DEF WithMarker
  <2>2. \A i \in Len(es) + 1 .. Len(es) : FALSE
    BY <1>1
  <2>3. QED
    BY <1>1, <1>2, <2>1, <2>2, ContinuesItself
<1>3. CASE Len(es) = l.c
  <2>1. ~Has(es, Marker) /\ ~(Len(es) > l.c)
    BY <1>1, <1>3, HasMarker
  <2>2. n = Chained(es, Marker, Text("event_hash_v2"), NoRole, FALSE)
    BY <2>1 DEF WithMarker
  <2>3. Says(es, Len(es), l, Marker, Text("event_hash_v2"))
    <3>1. Text("event_hash_v2") # Text("altered")
      BY DEF Text
    <3>2. QED
      BY <3>1 DEF Says, Marker
  <2>4. NoRole \in Roles
    BY AuditAssumption
  <2>5. /\ Trail(n, l) /\ Continues(es, n) /\ Len(n) = Len(es) + 1
        /\ n[Len(n)].type = Marker
    <3>1. ChainsNext(es, l, Marker, Text("event_hash_v2"), NoRole, n)
      BY <2>1, <2>2 DEF ChainsNext
    <3>2. QED
      BY <2>3, <2>4, <3>1, ChainedIs
  <2>6. \A i \in Len(es) + 1 .. Len(n) : i = Len(n)
    BY <1>1, <2>5
  <2>7. Len(n) > l.c
    BY <1>1, <1>3, <2>5
  <2>8. \A i \in Len(es) + 1 .. Len(n) : n[i].type = Marker
    BY <2>5, <2>6
  <2>9. QED
    BY <2>5, <2>7, <2>8
<1>4. QED
  BY <1>1, <1>2, <1>3

LEMMA SaysOn ==
  ASSUME NEW l, NEW es, NEW n, Continues(es, n), NEW type, NEW msg,
         Says(es, Len(es), l, type, msg)
  PROVE  Says(n, Len(n), l, type, msg)
<1>1. Len(es) \in Nat /\ Len(n) \in Nat /\ Len(es) <= Len(n) /\ \A i \in 1 .. Len(es) : n[i] = es[i]
  BY ListIs DEF Continues
<1>2. ASSUME NEW h, Anchored(es, Len(es), h) PROVE Anchored(n, Len(n), h)
  <2>1. PICK k \in 1 .. Len(es) : es[k].id = h.id /\ es[k].hash = h.hash
    BY <1>2 DEF Anchored
  <2>2. k \in 1 .. Len(n) /\ n[k] = es[k]
    BY <1>1
  <2>3. QED
    BY <2>1, <2>2 DEF Anchored
<1>3. QED
  BY <1>2 DEF Says

LEMMA LoggedIs ==
  ASSUME NEW l \in Legacies, NEW es, Trail(es, l), NEW type, type # Marker, NEW msg,
         NEW role \in Roles,
         Says(es, Len(es), l, type, msg), NEW n, n = Logged(es, type, msg, role)
  PROVE  Trail(n, l) /\ Adds(es, n, type, msg) /\ Len(n) > l.c
<1>1. PICK m : m = WithMarker(es)
  OBVIOUS
<1>2. /\ Trail(m, l) /\ Continues(es, m) /\ Len(m) > l.c
      /\ \A i \in Len(es) + 1 .. Len(m) : m[i].type = Marker
  BY <1>1, MarkedIs
<1>3. n = Chained(m, type, msg, role, TRUE)
  BY <1>1 DEF Logged
<1>4. Says(m, Len(m), l, type, msg)
  BY <1>2, SaysOn
<1>5. Len(m) # l.c
  BY <1>2, TrailIs
<1>6. /\ Trail(n, l) /\ Continues(m, n) /\ Len(n) = Len(m) + 1
      /\ n[Len(n)].type = type /\ n[Len(n)].msg = msg
  <2>1. ChainsNext(m, l, type, msg, role, n)
    BY <1>2, <1>3, <1>5 DEF ChainsNext
  <2>2. Trail(m, l)
    BY <1>2
  <2>3. QED
    BY <1>4, <2>1, <2>2, ChainedIs
<1>7. Continues(es, n)
  BY <1>2, <1>6, ContinuesOn
<1>8. Len(es) \in Nat /\ Len(m) \in Nat /\ Len(n) \in Nat /\ Len(es) <= Len(m) /\ l.c \in Nat
  BY <1>2, <1>6, TrailIs, ListIs DEF Continues
<1>9. \A i \in Len(es) + 1 .. Len(n) - 1 : n[i].type = Marker
  <2>1. ASSUME NEW i \in Len(es) + 1 .. Len(n) - 1 PROVE n[i].type = Marker
    <3>1. i \in Len(es) + 1 .. Len(m) /\ i \in 1 .. Len(m)
      BY <1>6, <1>8
    <3>2. n[i] = m[i]
      BY <1>6, <3>1 DEF Continues
    <3>3. QED
      BY <1>2, <3>1, <3>2
  <2>2. QED
    BY <2>1
<1>10. Len(n) > Len(es) /\ Len(n) > l.c
  BY <1>2, <1>6, <1>8
<1>11. Adds(es, n, type, msg)
  BY <1>6, <1>7, <1>9, <1>10, OneMoreSaid
<1>12. QED
  BY <1>6, <1>10, <1>11

-----------------------------------------------------------------------------
(* Two trails, one of which may be an older acline's: a merge that chains  *)
(* is one of them.                                                         *)

NoLegacy(l) == [c |-> 0, u |-> 0, role |-> l.role]

ATrail(es, l) == Trail(es, l) \/ Trail(es, NoLegacy(l))

LEMMA NoLegacyIs ==
  ASSUME NEW l \in Legacies
  PROVE  NoLegacy(l) \in Legacies
BY DEF Legacies, NoLegacy

LEMMA MergedIs ==
  ASSUME NEW a, AList(a), NEW b, AList(b), NEW m, m = Merged(a, b)
  PROVE  /\ AList(m) /\ Continues(a, m)
         /\ Len(m) = IF Len(a) < Len(b) THEN Len(b) ELSE Len(a)
         /\ \A i \in Len(a) + 1 .. Len(b) : m[i] = b[i]
<1>1. Len(a) \in Nat /\ Len(b) \in Nat
  BY ListIs
<1>2. PICK s : s = SubSeq(b, Len(a) + 1, Len(b))
  OBVIOUS
<1>3. /\ AList(s) /\ Len(s) = IF Len(a) < Len(b) THEN Len(b) - Len(a) ELSE 0
      /\ \A i \in 1 .. Len(s) : s[i] = b[Len(a) + i]
  <2>1. CASE Len(a) <= Len(b)
    <3>1. /\ AList(s) /\ Len(s) = Len(b) + 1 - (Len(a) + 1)
          /\ \A i \in 1 .. (Len(b) + 1 - (Len(a) + 1)) : s[i] = b[(Len(a) + 1) + i - 1]
      BY <1>1, <1>2, <2>1, PartOf
    <3>2. Len(b) + 1 - (Len(a) + 1) = Len(b) - Len(a)
      BY <1>1
    <3>3. \A i \in 1 .. Len(s) : (Len(a) + 1) + i - 1 = Len(a) + i
      BY <1>1
    <3>4. \A i \in 1 .. Len(s) : s[i] = b[Len(a) + i]
      BY <3>1, <3>3
    <3>5. QED
      BY <1>1, <2>1, <3>1, <3>2, <3>4
  <2>2. CASE Len(a) > Len(b)
    <3>1. s = <<>>
      BY <1>1, <1>2, <2>2, SubSeqEmpty
    <3>2. \A i \in 1 .. 0 : FALSE
      OBVIOUS
    <3>3. QED
      BY <1>1, <2>2, <3>1, <3>2, NoneListed
  <2>3. QED
    BY <1>1, <2>1, <2>2
<1>4. /\ AList(m) /\ Len(m) = Len(a) + Len(s)
      /\ \A i \in 1 .. Len(a) : m[i] = a[i]
      /\ \A i \in 1 .. Len(s) : m[Len(a) + i] = s[i]
  <2>1. m = a \o s
    BY <1>2 DEF Merged
  <2>2. AList(s)
    BY <1>3
  <2>3. /\ AList(a \o s) /\ Len(a \o s) = Len(a) + Len(s)
        /\ \A i \in 1 .. Len(a) : (a \o s)[i] = a[i]
        /\ \A i \in 1 .. Len(s) : (a \o s)[Len(a) + i] = s[i]
    BY <2>2, Joined
  <2>4. QED
    BY <2>1, <2>3
<1>5. ASSUME NEW i \in Len(a) + 1 .. Len(b) PROVE m[i] = b[i]
  <2>1. PICK j : j = i - Len(a)
    OBVIOUS
  <2>2. j \in 1 .. Len(s) /\ Len(a) + j = i
    BY <1>1, <1>3, <2>1
  <2>3. QED
    BY <1>3, <1>4, <2>2
<1>6. QED
  BY <1>1, <1>3, <1>4, <1>5 DEF Continues

LEMMA CoversTells ==
  ASSUME NEW d, NEW e, NEW v \in BOOLEAN, Covers(d, v) = Covers(e, v)
  PROVE  d.type = e.type /\ d.msg = e.msg /\ (v => d.role = e.role)
<1>1. CASE v = TRUE
  BY <1>1 DEF Covers
<1>2. CASE v = FALSE
  BY <1>2 DEF Covers
<1>3. QED
  BY <1>1, <1>2

\* The j-th part of a hash.
LEMMA HashPart ==
  ASSUME NEW l \in Legacies, NEW es, NEW k \in Nat, NEW i \in Nat, i > l.u, i <= k
  PROVE  HashAt(es, l, k)[i - l.u] = Covers(es[i], i > l.c + 1)
<1>1. l.u \in Nat
  BY DEF Legacies
<1>2. PICK j : j = i - l.u
  OBVIOUS
<1>3. j \in 1 .. k - l.u /\ j + l.u = i
  BY <1>1, <1>2
<1>4. HashAt(es, l, k)[j] = Covers(es[j + l.u], j + l.u > l.c + 1)
  BY <1>3 DEF HashAt
<1>5. QED
  BY <1>2, <1>3, <1>4

\* Trails of one kind whose hashes agree at an event agree up to it.
LEMMA SameHashSame ==
  ASSUME NEW l \in Legacies, NEW a, NEW b, Trail(a, l), Trail(b, l),
         NEW k \in Nat, k <= Len(a), k <= Len(b), HashAt(a, l, k) = HashAt(b, l, k)
  PROVE  \A i \in 1 .. k : a[i] = b[i]
<1>1. Len(a) \in Nat /\ Len(b) \in Nat /\ l.c \in Nat /\ l.u \in Nat /\ l.u <= l.c
  BY TrailIs
<1>2. ASSUME NEW i \in 1 .. k
      PROVE  a[i].type = b[i].type /\ a[i].msg = b[i].msg /\ a[i].role = b[i].role
  <2>1. Link(a, l, i) /\ Link(b, l, i) /\ i \in Nat
    BY <1>1 DEF Trail
  <2>2. CASE i <= l.c
    BY <2>1, <2>2 DEF Link
  <2>3. CASE i = l.c + 1
    BY <2>1, <2>3 DEF Link
  <2>4. CASE i > l.c + 1
    <3>1. i > l.u /\ i <= k
      BY <1>1, <2>4
    <3>2. Covers(a[i], i > l.c + 1) = Covers(b[i], i > l.c + 1)
      <4>1. /\ HashAt(a, l, k)[i - l.u] = Covers(a[i], i > l.c + 1)
            /\ HashAt(b, l, k)[i - l.u] = Covers(b[i], i > l.c + 1)
        BY <2>1, <3>1, HashPart
      <4>2. QED
        BY <4>1
    <3>3. Covers(a[i], TRUE) = Covers(b[i], TRUE)
      BY <2>4, <3>2 DEF Covers
    <3>4. QED
      BY <3>3 DEF Covers
  <2>5. QED
    BY <1>1, <2>1, <2>2, <2>3, <2>4
<1>3. ASSUME NEW i \in Int, i <= k PROVE HashAt(a, l, i) = HashAt(b, l, i)
  <2>1. ASSUME NEW j \in 1 .. i - l.u
        PROVE  Covers(a[j + l.u], j + l.u > l.c + 1) = Covers(b[j + l.u], j + l.u > l.c + 1)
    <3>1. j + l.u \in 1 .. k
      BY <1>1, <1>3
    <3>2. QED
      BY <1>2, <3>1 DEF Covers
  <2>2. QED
    BY <2>1 DEF HashAt
<1>4. ASSUME NEW i \in 1 .. k PROVE a[i] = b[i]
  <2>1. Link(a, l, i) /\ Link(b, l, i)
    BY <1>1 DEF Trail
  <2>2. HashAt(a, l, i) = HashAt(b, l, i)
    BY <1>3
  <2>3. HashAt(a, l, i - 1) = HashAt(b, l, i - 1)
    <3>1. i - 1 \in Int /\ i - 1 <= k
      OBVIOUS
    <3>2. QED
      BY <1>3, <3>1
  <2>4. QED
    BY <1>2, <2>1, <2>2, <2>3 DEF Link
<1>5. QED
  BY <1>4

\* A trail of an older acline and one without its events have no hash in common.
LEMMA NoHashInCommon ==
  ASSUME NEW l \in Legacies, l # NoLegacy(l), NEW a, NEW b, Trail(a, l), Trail(b, NoLegacy(l)),
         NEW k \in Nat, k # 0, k <= Len(a), k <= Len(b), k >= l.u,
         HashAt(a, l, k) = HashAt(b, NoLegacy(l), k)
  PROVE  FALSE
<1>1. PICK n : n = NoLegacy(l)
  OBVIOUS
<1>2. n \in Legacies /\ n.c = 0 /\ n.u = 0 /\ l # n
  BY <1>1, NoLegacyIs DEF NoLegacy
<1>3. Len(a) \in Nat /\ Len(b) \in Nat /\ l.c \in Nat /\ l.u \in Nat /\ l.u <= l.c
  BY TrailIs
<1>4. Len(HashAt(a, l, k)) = k - l.u /\ Len(HashAt(b, n, k)) = k - 0
  BY <1>2, <1>3, HashIsList
<1>5. l.u = 0
  BY <1>1, <1>3, <1>4
<1>6. l.c # 0
  <2>1. ASSUME l.c = 0 PROVE FALSE
    <3>1. l = [c |-> l.c, u |-> l.u, role |-> l.role]
      BY DEF Legacies
    <3>2. QED
      BY <1>1, <1>2, <1>5, <2>1, <3>1 DEF NoLegacy
  <2>2. QED
    BY <2>1
<1>7. HashAt(a, l, k)[1] = Covers(a[1], FALSE)
  <2>1. 1 \in Nat /\ 1 > l.u /\ 1 <= k /\ 1 - l.u = 1 /\ ~(1 > l.c + 1)
    BY <1>3, <1>5
  <2>2. HashAt(a, l, k)[1 - l.u] = Covers(a[1], 1 > l.c + 1)
    BY <2>1, HashPart
  <2>3. QED
    BY <2>1, <2>2 DEF Covers
<1>8. HashAt(b, n, k)[1] = Covers(b[1], FALSE)
  <2>1. 1 \in Nat /\ 1 > n.u /\ 1 <= k /\ 1 - n.u = 1 /\ ~(1 > n.c + 1)
    BY <1>2
  <2>2. HashAt(b, n, k)[1 - n.u] = Covers(b[1], 1 > n.c + 1)
    BY <1>2, <2>1, HashPart
  <2>3. QED
    BY <2>1, <2>2 DEF Covers
<1>9. a[1].type = b[1].type
  BY <1>1, <1>7, <1>8 DEF Covers
<1>10. a[1].type # Marker
  <2>1. 1 \in 1 .. Len(a) /\ 1 # l.c + 1
    BY <1>3, <1>6
  <2>2. QED
    BY <2>1, MarkerSplits
<1>11. b[1].type = Marker
  <2>1. 1 \in 1 .. Len(b) /\ 1 = n.c + 1
    BY <1>2, <1>3
  <2>2. QED
    BY <1>1, <1>2, <2>1, MarkerSplits
<1>12. QED
  BY <1>9, <1>10, <1>11

LEMMA LoggedContinues ==
  ASSUME NEW m, AList(m), NEW type, NEW msg, NEW role, NEW n, n = Logged(m, type, msg, role)
  PROVE  Continues(m, n) /\ Len(n) > Len(m)
<1>1. ASSUME NEW s, AList(s), NEW t, NEW x, NEW r, NEW v
      PROVE  Continues(s, Chained(s, t, x, r, v)) /\ Len(Chained(s, t, x, r, v)) > Len(s)
  <2> DEFINE E == [id |-> Len(s) + 1, type |-> t, msg |-> x, role |-> r, prev |-> HashOf(s),
                   hash |-> Hash(HashOf(s), [id |-> Len(s) + 1, type |-> t, msg |-> x, role |-> r], v)]
  <2>1. Chained(s, t, x, r, v) = Append(s, E)
    BY DEF Chained
  <2> HIDE DEF E
  <2>2. /\ AList(Append(s, E)) /\ Len(Append(s, E)) = Len(s) + 1 /\ Len(s) \in Nat
        /\ \A i \in 1 .. Len(s) : Append(s, E)[i] = s[i]
    BY <1>1, Appended
  <2>3. QED
    BY <1>1, <2>1, <2>2 DEF Continues
<1>2. PICK w : w = WithMarker(m)
  OBVIOUS
<1>3. Continues(m, w)
  <2>1. CASE Has(m, Marker)
    BY <1>2, <2>1, ContinuesItself DEF WithMarker
  <2>2. CASE ~Has(m, Marker)
    <3>1. w = Chained(m, Marker, Text("event_hash_v2"), NoRole, FALSE)
      BY <1>2, <2>2 DEF WithMarker
    <3>2. QED
      BY <1>1, <3>1
  <2>3. QED
    BY <2>1, <2>2
<1>4. n = Chained(w, type, msg, role, TRUE)
  BY <1>2 DEF Logged
<1>5. AList(w) /\ Continues(w, n) /\ Len(n) > Len(w)
  <2>1. AList(w)
    BY <1>3 DEF Continues
  <2>2. QED
    BY <1>1, <1>4, <2>1
<1>6. Len(m) \in Nat /\ Len(w) \in Nat /\ Len(n) \in Nat /\ Len(m) <= Len(w)
  BY <1>3, <1>5, ListIs DEF Continues
<1>7. QED
  BY <1>3, <1>5, <1>6, ContinuesOn

\* At the seam of two trails the chain compares their hashes.
LEMMA SeamHolds ==
  ASSUME NEW l \in Legacies, NEW h \in Legacies, NEW a, NEW b, Trail(a, l), Trail(b, h),
         Len(a) < Len(b), Len(a) # 0, NEW m, m = Merged(a, b), NEW n, Continues(m, n), ChainOK(n)
  PROVE  HashAt(a, l, Len(a)) = HashAt(b, h, Len(a))
<1> DEFINE k == Len(a)
<1>1. /\ AList(a) /\ AList(b) /\ k \in Nat /\ Len(b) \in Nat /\ AList(n) /\ Len(n) \in Nat
      /\ DOMAIN n = 1 .. Len(n) /\ h.u \in Nat
  BY TrailIs, ListIs DEF Continues
<1>2. /\ Continues(a, m) /\ Len(m) = Len(b) /\ \A i \in k + 1 .. Len(b) : m[i] = b[i]
  BY <1>1, MergedIs
<1>3. k \in 1 .. Len(a) /\ k + 1 \in 1 .. Len(b) /\ k + 1 \in k + 1 .. Len(b) /\ k \in 1 .. Len(m) /\ k + 1 \in 1 .. Len(m)
  BY <1>1, <1>2
<1>4. n[k] = a[k] /\ n[k + 1] = b[k + 1] /\ k + 1 \in DOMAIN n /\ k <= Len(n)
  BY <1>1, <1>2, <1>3 DEF Continues
<1>5. a[k].hash = HashAt(a, l, k)
  BY <1>3, MarkerSplits
<1>6. /\ b[k + 1].prev = HashAt(b, h, k)
      /\ b[k + 1].hash = NoHash <=> k + 1 <= h.u
  <2>1. (k + 1) - 1 = k
    BY <1>1
  <2>2. QED
    BY <1>3, <2>1, MarkerSplits
<1>7. HashOf(SubSeq(n, 1, (k + 1) - 1)) = HashAt(a, l, k)
  <2>1. (k + 1) - 1 = k /\ k # 0
    BY <1>1
  <2>2. HashOf(SubSeq(n, 1, k)) = n[k].hash
    BY <1>1, <1>4, <2>1, PrevIs
  <2>3. QED
    BY <1>4, <1>5, <2>1, <2>2
<1>8. IF n[k + 1].hash = NoHash THEN HashAt(a, l, k) = NoHash ELSE n[k + 1].prev = HashAt(a, l, k)
  BY <1>4, <1>7 DEF ChainOK
<1>9. CASE n[k + 1].hash = NoHash
  <2>1. k <= h.u
    BY <1>1, <1>4, <1>6, <1>9
  <2>2. HashAt(b, h, k) = NoHash
    BY <1>1, <2>1, HashIsList DEF NoHash
  <2>3. QED
    BY <1>8, <1>9, <2>2
<1>10. CASE n[k + 1].hash # NoHash
  BY <1>4, <1>6, <1>8, <1>10
<1>11. QED
  BY <1>9, <1>10

LEMMA MergeIsOne ==
  ASSUME NEW l \in Legacies, NEW a, NEW b, ATrail(a, l), ATrail(b, l),
         NEW m, m = Merged(a, b), NEW n, Continues(m, n), ChainOK(n)
  PROVE  m = a \/ m = b
<1>1. PICK h \in {l, NoLegacy(l)} : Trail(a, h)
  BY DEF ATrail
<1>2. PICK g \in {l, NoLegacy(l)} : Trail(b, g)
  BY DEF ATrail
<1>3. h \in Legacies /\ g \in Legacies
  BY NoLegacyIs
<1>4. /\ AList(a) /\ AList(b) /\ Len(a) \in Nat /\ Len(b) \in Nat /\ h.c <= Len(a) /\ h.u <= h.c
      /\ h.u \in Nat /\ h.c \in Nat /\ g.u \in Nat
  BY <1>1, <1>2, <1>3, TrailIs
<1>5. /\ AList(m) /\ Continues(a, m)
      /\ Len(m) = IF Len(a) < Len(b) THEN Len(b) ELSE Len(a)
      /\ \A i \in Len(a) + 1 .. Len(b) : m[i] = b[i]
  BY <1>4, MergedIs
<1>6. CASE ~(Len(a) < Len(b))
  <2>1. Len(m) = Len(a) /\ \A i \in 1 .. Len(a) : m[i] = a[i]
    BY <1>5, <1>6 DEF Continues
  <2>2. m = a
    BY <1>4, <1>5, <2>1, SameList
  <2>3. QED
    BY <2>2
<1>7. CASE Len(a) < Len(b) /\ \A i \in 1 .. Len(a) : a[i] = b[i]
  <2>1. ASSUME NEW i \in 1 .. Len(b) PROVE m[i] = b[i]
    <3>1. CASE i \in 1 .. Len(a)
      BY <1>5, <1>7, <3>1 DEF Continues
    <3>2. CASE i \in Len(a) + 1 .. Len(b)
      BY <1>5, <3>2
    <3>3. QED
      BY <1>4, <3>1, <3>2
  <2>2. Len(m) = Len(b)
    BY <1>5, <1>7
  <2>3. m = b
    BY <1>4, <1>5, <2>1, <2>2, SameList
  <2>4. QED
    BY <2>3
<1>8. CASE Len(a) < Len(b) /\ Len(a) # 0
  <2>1. HashAt(a, h, Len(a)) = HashAt(b, g, Len(a))
    BY <1>1, <1>2, <1>3, <1>8, SeamHolds
  <2>2. Len(a) <= Len(a) /\ Len(a) <= Len(b) /\ Len(a) >= h.u
    BY <1>4, <1>8
  <2>3. CASE h = g
    <3>1. \A i \in 1 .. Len(a) : a[i] = b[i]
      BY <1>1, <1>2, <1>3, <1>4, <2>1, <2>2, <2>3, SameHashSame
    <3>2. QED
      BY <1>7, <1>8, <3>1
  <2>4. CASE h # g
    <3>1. CASE h = l /\ g = NoLegacy(l)
      BY <1>1, <1>2, <1>4, <1>8, <2>1, <2>2, <2>4, <3>1, NoHashInCommon
    <3>2. CASE h = NoLegacy(l) /\ g = l
      <4>1. l.u <= Len(a)
        <5>1. Len(HashAt(a, h, Len(a))) = Len(a)
          <6>1. h.u = 0
            BY <3>2 DEF NoLegacy
          <6>2. Len(HashAt(a, h, Len(a))) = Len(a) - h.u
            BY <1>3, <1>4, <2>2, HashIsList
          <6>3. QED
            BY <1>4, <6>1, <6>2
        <5>2. ASSUME ~(l.u <= Len(a)) PROVE FALSE
          <6>1. HashAt(b, g, Len(a)) = <<>>
            BY <1>3, <1>4, <3>2, <5>2, HashIsList
          <6>2. QED
            BY <1>8, <2>1, <5>1, <6>1, NoneListed
        <5>3. QED
          BY <5>2
      <4>2. Len(a) >= l.u /\ HashAt(b, l, Len(a)) = HashAt(a, NoLegacy(l), Len(a))
        BY <1>3, <1>4, <2>1, <3>2, <4>1
      <4>3. Trail(b, l) /\ Trail(a, NoLegacy(l)) /\ l # NoLegacy(l)
        BY <1>1, <1>2, <2>4, <3>2
      <4>4. QED
        BY <1>4, <1>8, <2>2, <4>2, <4>3, NoHashInCommon
    <3>3. QED
      BY <2>4, <3>1, <3>2
  <2>5. QED
    BY <2>3, <2>4
<1>9. CASE Len(a) < Len(b) /\ Len(a) = 0
  <2>1. \A i \in 1 .. 0 : a[i] = b[i]
    OBVIOUS
  <2>2. QED
    BY <1>7, <1>9, <2>1
<1>10. QED
  BY <1>6, <1>8, <1>9

-----------------------------------------------------------------------------
(* What verifying reads of a trail, as the trail grows.                    *)

LEMMA FirstThere ==
  ASSUME NEW es, AList(es), NEW type, Has(es, type)
  PROVE  \E i \in 1 .. Len(es) : es[i].type = type /\ \A j \in 1 .. i - 1 : es[j].type # type
<1>1. Len(es) \in Nat /\ DOMAIN es = 1 .. Len(es)
  BY ListIs
<1> DEFINE S == {i \in Nat : i \in 1 .. Len(es) /\ es[i].type = type}
           R == {ss \in Nat \X Nat : ss[1] < ss[2]}
<1>2. S # {} /\ S \subseteq Nat
  BY <1>1 DEF Has
<1>3. IsWellFoundedOn(R, Nat)
  BY NatLessThanWellFounded DEF OpToRel
<1>4. PICK x \in S : \A y \in S : ~(<<y, x>> \in R)
  <2> HIDE DEF S, R
  <2>1. QED
    BY <1>2, <1>3, WFMin
<1>5. \A j \in 1 .. x - 1 : es[j].type # type
  <2>1. ASSUME NEW j \in 1 .. x - 1, es[j].type = type PROVE FALSE
    <3>1. j \in S /\ j < x /\ x \in Nat
      BY <1>1, <1>4, <2>1
    <3>2. QED
      BY <1>4, <3>1
  <2>2. QED
    BY <2>1
<1>6. QED
  BY <1>4, <1>5

LEMMA FirstIs ==
  ASSUME NEW es, AList(es), NEW type, NEW i \in 1 .. Len(es), es[i].type = type,
         \A j \in 1 .. i - 1 : es[j].type # type
  PROVE  FirstEvent(es, type) = es[i]
<1>1. Len(es) \in Nat /\ DOMAIN es = 1 .. Len(es)
  BY ListIs
<1>2. ASSUME NEW k \in 1 .. Len(es), es[k].type = type, \A j \in 1 .. k - 1 : es[j].type # type
      PROVE  k = i
  <2>1. ~(k < i) /\ ~(i < k)
    BY <1>1, <1>2
  <2>2. QED
    BY <1>1, <2>1
<1>3. (CHOOSE k \in DOMAIN es : es[k].type = type /\ \A j \in 1 .. k - 1 : es[j].type # type) = i
  BY <1>1, <1>2
<1>4. QED
  BY <1>3 DEF FirstEvent

LEMMA FirstStays ==
  ASSUME NEW es, NEW n, Continues(es, n), NEW type, Has(es, type)
  PROVE  FirstEvent(n, type) = FirstEvent(es, type) /\ FirstEvent(es, type).msg \in SaidIn(es, type)
<1>1. AList(es) /\ AList(n) /\ Len(es) \in Nat /\ Len(n) \in Nat /\ Len(es) <= Len(n) /\ DOMAIN es = 1 .. Len(es)
  BY ListIs DEF Continues
<1>2. PICK i \in 1 .. Len(es) : es[i].type = type /\ \A j \in 1 .. i - 1 : es[j].type # type
  BY <1>1, FirstThere
<1>3. FirstEvent(es, type) = es[i]
  BY <1>1, <1>2, FirstIs
<1>4. i \in 1 .. Len(n) /\ n[i].type = type /\ \A j \in 1 .. i - 1 : n[j].type # type
  <2>1. \A j \in 1 .. i : j \in 1 .. Len(es) /\ j \in 1 .. Len(n)
    BY <1>1
  <2>2. \A j \in 1 .. i : n[j] = es[j]
    BY <2>1 DEF Continues
  <2>3. i \in 1 .. i /\ \A j \in 1 .. i - 1 : j \in 1 .. i
    BY <1>1
  <2>4. QED
    BY <1>2, <2>1, <2>2, <2>3
<1>5. FirstEvent(n, type) = n[i]
  BY <1>1, <1>4, FirstIs
<1>6. n[i] = es[i]
  BY <1>1 DEF Continues
<1>7. es[i].msg \in SaidIn(es, type)
  BY <1>1, <1>2 DEF SaidIn
<1>8. QED
  BY <1>3, <1>5, <1>6, <1>7

LEMMA SealsAre ==
  ASSUME NEW es
  PROVE  /\ SealsIn(es).of = SaidIn(es, "row_seal")
         /\ SealsIn(es).resealed <=> SaidIn(es, "legacy_attested") # {}
         /\ Has(es, "seal_watermark") => SealsIn(es).lines = {FirstEvent(es, "seal_watermark").msg}
         /\ ~Has(es, "seal_watermark") => SealsIn(es).lines = {}
         /\ SealsIn(es) = [of |-> SealsIn(es).of, lines |-> SealsIn(es).lines, resealed |-> Has(es, "legacy_attested")]
BY HasSaid DEF SealsIn, SaidIn

LEMMA SealsGrow ==
  ASSUME NEW es, NEW n, NEW type, NEW msg, Adds(es, n, type, msg)
  PROVE  /\ SealsIn(n).of = SealsIn(es).of \union (IF type = "row_seal" THEN {msg} ELSE {})
         /\ SealsIn(n).resealed <=> SealsIn(es).resealed \/ type = "legacy_attested"
         /\ Has(n, "seal_watermark") <=> Has(es, "seal_watermark") \/ type = "seal_watermark"
         /\ Has(n, "legacy_attested") <=> Has(es, "legacy_attested") \/ type = "legacy_attested"
         /\ Has(es, "seal_watermark") \/ type # "seal_watermark" => SealsIn(n).lines = SealsIn(es).lines
         /\ ~Has(es, "seal_watermark") /\ type = "seal_watermark" => SealsIn(n).lines = {msg}
<1>1. "row_seal" # Marker /\ "legacy_attested" # Marker /\ "seal_watermark" # Marker
  BY DEF Marker
<1>2. SaidIn(n, "row_seal") = SaidIn(es, "row_seal") \union (IF "row_seal" = type THEN {msg} ELSE {})
  BY <1>1 DEF Adds
<1>3. SaidIn(n, "legacy_attested") = SaidIn(es, "legacy_attested") \union (IF "legacy_attested" = type THEN {msg} ELSE {})
  BY <1>1 DEF Adds
<1>4. SaidIn(n, "seal_watermark") = SaidIn(es, "seal_watermark") \union (IF "seal_watermark" = type THEN {msg} ELSE {})
  BY <1>1 DEF Adds
<1>5. Has(n, "seal_watermark") <=> Has(es, "seal_watermark") \/ type = "seal_watermark"
  BY <1>4, HasSaid
<1>6. Has(n, "legacy_attested") <=> Has(es, "legacy_attested") \/ type = "legacy_attested"
  BY <1>3, HasSaid
<1>7. Continues(es, n)
  BY DEF Adds
<1>8. ASSUME Has(es, "seal_watermark") PROVE SealsIn(n).lines = SealsIn(es).lines
  BY <1>5, <1>7, <1>8, FirstStays, SealsAre
<1>9. ASSUME ~Has(es, "seal_watermark"), type # "seal_watermark"
      PROVE SealsIn(n).lines = SealsIn(es).lines
  BY <1>5, <1>9, SealsAre
<1>10. ASSUME ~Has(es, "seal_watermark"), type = "seal_watermark" PROVE SealsIn(n).lines = {msg}
  <2>1. SaidIn(n, "seal_watermark") = {msg}
    BY <1>4, <1>10, HasSaid
  <2>2. Has(n, "seal_watermark") /\ AList(n)
    BY <1>5, <1>7, <1>10 DEF Continues
  <2>3. FirstEvent(n, "seal_watermark").msg = msg
    BY <2>1, <2>2, ContinuesItself, FirstStays
  <2>4. QED
    BY <2>2, <2>3, SealsAre
<1>11. SealsIn(n).resealed <=> SealsIn(es).resealed \/ type = "legacy_attested"
  BY <1>3, SealsAre
<1>12. SealsIn(n).of = SealsIn(es).of \union (IF type = "row_seal" THEN {msg} ELSE {})
  BY <1>2, SealsAre
<1>13. QED
  BY <1>5, <1>6, <1>8, <1>9, <1>10, <1>11, <1>12

\* What is logged of anything but records changes nothing of what is verified.
LEMMA SealsSame ==
  ASSUME NEW es, NEW n, NEW type, NEW msg, Adds(es, n, type, msg),
         type \notin {"row_seal", "legacy_attested", "seal_watermark"}
  PROVE  SealsIn(n) = SealsIn(es)
<1>1. SealsIn(n).of = SealsIn(es).of
  BY SealsGrow
<1>2. SealsIn(n).lines = SealsIn(es).lines
  BY SealsGrow
<1>3. Has(n, "legacy_attested") <=> Has(es, "legacy_attested")
  BY SealsGrow
<1>4. Has(n, "legacy_attested") = Has(es, "legacy_attested")
  BY <1>3 DEF Has
<1>5. QED
  BY <1>1, <1>2, <1>4, SealsAre

-----------------------------------------------------------------------------
(* The attestation of a trail that has its marker.                         *)

LEMMA BeforeMarkerIs ==
  ASSUME NEW es, AList(es), NEW c \in Nat, c < Len(es), \A i \in 1 .. c : ~IsMarker(es[i]),
         IsMarker(es[c + 1])
  PROVE  BeforeMarker(es) = SubSeq(es, 1, c)
<1>1. Len(es) \in Nat
  BY ListIs
<1>2. ASSUME NEW n \in 0 .. Len(es), \A i \in 1 .. n : ~IsMarker(es[i]), n < Len(es) => IsMarker(es[n + 1])
      PROVE  n = c
  <2>1. ~(n > c)
    <3>1. n > c => c + 1 \in 1 .. n
      BY <1>1
    <3>2. QED
      BY <1>2, <3>1
  <2>2. ~(n < c)
    <3>1. n < c => n + 1 \in 1 .. c /\ n < Len(es)
      BY <1>1
    <3>2. QED
      BY <1>2, <3>1
  <2>3. QED
    BY <1>1, <2>1, <2>2
<1>3. c \in 0 .. Len(es)
  BY <1>1
<1>4. (CHOOSE n \in 0 .. Len(es) : /\ \A i \in 1 .. n : ~IsMarker(es[i])
                                   /\ n < Len(es) => IsMarker(es[n + 1])) = c
  BY <1>2, <1>3
<1>5. QED
  BY <1>4 DEF BeforeMarker

\* What an attestation says of an event before the marker.
Attests(e) == IF e.hash = NoHash THEN <<e.id, e.role, e.type, e.msg>> ELSE <<e.id, e.role>>

LEMMA AttestationIs ==
  ASSUME NEW es, AList(es), NEW c \in Nat, c < Len(es), \A i \in 1 .. c : ~IsMarker(es[i]),
         IsMarker(es[c + 1])
  PROVE  Attestation(es) = [marker |-> es[c + 1].id, digest |-> [i \in 1 .. c |-> Attests(es[i])]]
<1>1. PICK old : old = SubSeq(es, 1, c)
  OBVIOUS
<1>2. AList(old) /\ Len(old) = c /\ \A i \in 1 .. c : old[i] = es[i]
  BY <1>1, Prefix
<1>3. DOMAIN old = 1 .. c
  BY <1>2, ListIs
<1>4. BeforeMarker(es) = old
  BY <1>1, BeforeMarkerIs
<1>5. [i \in DOMAIN old |-> IF old[i].hash = NoHash THEN <<old[i].id, old[i].role, old[i].type, old[i].msg>>
                                                    ELSE <<old[i].id, old[i].role>>]
      = [i \in 1 .. c |-> Attests(es[i])]
  BY <1>2, <1>3 DEF Attests
<1>6. Attestation(es) = [marker |-> IF c < Len(es) THEN es[c + 1].id ELSE 0,
                         digest |-> [i \in DOMAIN old |->
                            IF old[i].hash = NoHash THEN <<old[i].id, old[i].role, old[i].type, old[i].msg>>
                                                    ELSE <<old[i].id, old[i].role>>]]
  BY <1>2, <1>4 DEF Attestation
<1>7. QED
  BY <1>5, <1>6

LEMMA TrailAttested ==
  ASSUME NEW l \in Legacies, NEW es, Trail(es, l), Len(es) > l.c
  PROVE  Attestation(es) = OldAttestation(l)
<1>1. /\ AList(es) /\ Len(es) \in Nat /\ l.c \in Nat /\ l.u \in Nat /\ l.u <= l.c
  BY TrailIs
<1>2. l.c < Len(es) /\ l.c + 1 \in 1 .. Len(es) /\ \A i \in 1 .. l.c : i \in 1 .. Len(es) /\ i # l.c + 1
  BY <1>1
<1>3. (\A i \in 1 .. l.c : ~IsMarker(es[i])) /\ IsMarker(es[l.c + 1]) /\ es[l.c + 1].id = l.c + 1
  BY <1>2, MarkerSplits
<1>4. Attestation(es) = [marker |-> es[l.c + 1].id, digest |-> [i \in 1 .. l.c |-> Attests(es[i])]]
  BY <1>1, <1>2, <1>3, AttestationIs
<1>5. ASSUME NEW i \in 1 .. l.c
      PROVE  Attests(es[i]) = IF i <= l.u THEN <<i, l.role, "note", Text("old")>> ELSE <<i, l.role>>
  <2>1. i \in 1 .. Len(es)
    BY <1>2
  <2>2. es[i].id = i /\ (es[i].hash = NoHash <=> i <= l.u)
    BY <2>1, MarkerSplits
  <2>3. es[i].type = "note" /\ es[i].msg = Text("old") /\ es[i].role = l.role
    <3>1. Link(es, l, i) /\ i <= l.c
      BY <1>1, <2>1 DEF Trail
    <3>2. QED
      BY <3>1 DEF Link
  <2>4. QED
    BY <2>2, <2>3 DEF Attests
<1>6. QED
  BY <1>3, <1>4, <1>5 DEF OldAttestation

\* Events of these types come after the marker.
LEMMA SaidAfterMarker ==
  ASSUME NEW l \in Legacies, NEW es, Trail(es, l), NEW type, type # "note", type # Marker,
         NEW i \in 1 .. Len(es), es[i].type = type
  PROVE  i > l.c + 1 /\ Len(es) > l.c /\ Says(es, i - 1, l, type, es[i].msg)
<1>1. Link(es, l, i) /\ l.c \in Nat /\ Len(es) \in Nat
  BY TrailIs DEF Trail
<1>2. ~(i <= l.c) /\ i # l.c + 1
  BY <1>1 DEF Link
<1>3. QED
  BY <1>1, <1>2 DEF Link

LEMMA FirstAttested ==
  ASSUME NEW l \in Legacies, NEW es, AList(es),
         \A i \in 1 .. Len(es) : es[i].type = "legacy_attested" => es[i].msg = OldAttestation(l),
         Has(es, "legacy_attested")
  PROVE  FirstEvent(es, "legacy_attested").msg = OldAttestation(l)
<1>1. FirstEvent(es, "legacy_attested").msg \in SaidIn(es, "legacy_attested")
  BY ContinuesItself, FirstStays
<1>2. QED
  BY <1>1, ListIs DEF SaidIn

LEMMA TrailIsOK ==
  ASSUME NEW l \in Legacies, NEW es, Trail(es, l)
  PROVE  TrailOK(es)
<1>1. AList(es) /\ DOMAIN es = 1 .. Len(es)
  BY TrailIs
<1>2. "legacy_attested" # "note" /\ "legacy_attested" # Marker
  BY DEF Marker
<1>3. ASSUME NEW i \in 1 .. Len(es), es[i].type = "legacy_attested"
      PROVE  es[i].msg = OldAttestation(l) /\ Len(es) > l.c
  BY <1>2, <1>3, SaidAfterMarker DEF Says
<1>4. ASSUME Has(es, "legacy_attested")
      PROVE Attestation(es) = FirstEvent(es, "legacy_attested").msg
  <2>1. Len(es) > l.c
    BY <1>1, <1>3, <1>4 DEF Has
  <2>2. FirstEvent(es, "legacy_attested").msg = OldAttestation(l)
    BY <1>1, <1>3, <1>4, FirstAttested
  <2>3. QED
    BY <2>1, <2>2, TrailAttested
<1>5. QED
  BY <1>4, TrailVerifies DEF TrailOK, AttestationHolds

-----------------------------------------------------------------------------
(* Tables and their seals.                                                 *)

IsRow(row) == row = [id |-> row.id, content |-> row.content]

RowsTyped(rows) ==
  /\ AList(rows)
  /\ \A i \in 1 .. Len(rows) : IsRow(rows[i]) /\ rows[i].id = i /\ rows[i].content \in Contents

TableOK(seals, table, rows) == RowsOK(seals, table, rows) /\ NoneMissing(seals, table, rows)

LEMMA RecordsAreTables ==
  ASSUME NEW seals, NEW a, NEW k
  PROVE  RecordsOK(seals, a, k) <=> TableOK(seals, "approvals", a) /\ TableOK(seals, "checks", k)
BY DEF RecordsOK, TableOK

LEMMA RowsAppended ==
  ASSUME NEW rows, RowsTyped(rows), NEW c \in Contents,
         NEW longer, longer = Append(rows, [id |-> Len(rows) + 1, content |-> c])
  PROVE  /\ RowsTyped(longer) /\ Continues(rows, longer) /\ Len(longer) = Len(rows) + 1 /\ Len(rows) \in Nat
         /\ longer[Len(rows) + 1] = [id |-> Len(rows) + 1, content |-> c]
<1>1. PICK x : x = [id |-> Len(rows) + 1, content |-> c]
  OBVIOUS
<1>2. /\ AList(longer) /\ Len(longer) = Len(rows) + 1 /\ Len(rows) \in Nat /\ AList(rows)
      /\ \A i \in 1 .. Len(rows) : longer[i] = rows[i]
      /\ longer[Len(rows) + 1] = x
  BY <1>1, Appended DEF RowsTyped
<1>3. ASSUME NEW i \in 1 .. Len(longer)
      PROVE IsRow(longer[i]) /\ longer[i].id = i /\ longer[i].content \in Contents
  <2>1. CASE i \in 1 .. Len(rows)
    BY <1>2, <2>1 DEF RowsTyped
  <2>2. CASE i = Len(rows) + 1
    BY <1>1, <1>2, <2>2 DEF IsRow
  <2>3. QED
    BY <1>2, <2>1, <2>2
<1>4. QED
  BY <1>1, <1>2, <1>3 DEF RowsTyped, Continues

\* Rows are judged alike by seals alike.
LEMMA JudgedAlike ==
  ASSUME NEW s, NEW r, NEW table, NEW rows,
         \A x : x.table = table => (x \in s.of <=> x \in r.of),
         s.resealed <=> r.resealed, r.lines = s.lines, TableOK(s, table, rows)
  PROVE  TableOK(r, table, rows)
<1>1. \A id : Sealed(s, table, id) <=> Sealed(r, table, id)
  BY DEF Sealed
<1>2. \A id : MayLackSeal(s, table, id) <=> MayLackSeal(r, table, id)
  BY DEF MayLackSeal
<1>3. \A row : Digest(table, row) \in s.of <=> Digest(table, row) \in r.of
  <2>1. \A row : Digest(table, row).table = table
    BY DEF Digest
  <2>2. QED
    BY <2>1
<1>4. RowsOK(r, table, rows)
  BY <1>1, <1>2, <1>3 DEF TableOK, RowsOK, RowOK
<1>5. NoneMissing(r, table, rows)
  BY DEF TableOK, NoneMissing
<1>6. QED
  BY <1>4, <1>5 DEF TableOK

\* A row and its seal, in one transaction.
LEMMA SealedWithRow ==
  ASSUME NEW s, NEW r, NEW table, NEW rows, RowsTyped(rows), NEW c \in Contents,
         NEW row, row = [id |-> Len(rows) + 1, content |-> c],
         NEW longer, longer = Append(rows, row),
         r.of = s.of \union {Digest(table, row)}, s.resealed <=> r.resealed, r.lines = s.lines,
         TableOK(s, table, rows)
  PROVE  TableOK(r, table, longer)
<1>1. /\ RowsTyped(longer) /\ Continues(rows, longer) /\ Len(longer) = Len(rows) + 1
      /\ Len(rows) \in Nat
      /\ longer[Len(rows) + 1] = row
  BY RowsAppended
<1>2. DOMAIN rows = 1 .. Len(rows) /\ DOMAIN longer = 1 .. Len(rows) + 1
  BY <1>1, ListIs DEF RowsTyped
<1>3. /\ Digest(table, row).table = table /\ Digest(table, row).id = Len(rows) + 1
      /\ row.id = Len(rows) + 1
  BY DEF Digest
<1>4. \A i \in 1 .. Len(rows) : longer[i] = rows[i] /\ rows[i].id = i /\ i # Len(rows) + 1
  BY <1>1 DEF RowsTyped, Continues
<1>5. ASSUME NEW i \in 1 .. Len(rows) PROVE RowOK(r, table, longer[i])
  <2>1. RowOK(s, table, rows[i]) /\ longer[i] = rows[i]
    BY <1>2, <1>4 DEF TableOK, RowsOK
  <2>2. Sealed(s, table, rows[i].id) <=> Sealed(r, table, rows[i].id)
    BY <1>3, <1>4 DEF Sealed
  <2>3. MayLackSeal(s, table, rows[i].id) <=> MayLackSeal(r, table, rows[i].id)
    BY DEF MayLackSeal
  <2>4. QED
    BY <2>1, <2>2, <2>3 DEF RowOK
<1>6. RowOK(r, table, longer[Len(rows) + 1])
  <2>1. Digest(table, row) \in r.of
    OBVIOUS
  <2>2. Sealed(r, table, row.id)
    BY <1>3, <2>1 DEF Sealed
  <2>3. QED
    BY <1>1, <2>1, <2>2 DEF RowOK
<1>7. RowsOK(r, table, longer)
  <2>1. \A i \in 1 .. Len(rows) + 1 : i \in 1 .. Len(rows) \/ i = Len(rows) + 1
    BY <1>1
  <2>2. QED
    BY <1>2, <1>5, <1>6, <2>1 DEF RowsOK
<1>8. NoneMissing(r, table, longer)
  <2>1. ASSUME NEW x \in r.of, x.table = table
        PROVE \E i \in DOMAIN longer : longer[i].id = x.id
    <3>1. CASE x \in s.of
      <4>1. PICK i \in 1 .. Len(rows) : rows[i].id = x.id
        BY <1>2, <2>1, <3>1 DEF TableOK, NoneMissing
      <4>2. i \in DOMAIN longer /\ longer[i] = rows[i]
        BY <1>1, <1>2, <1>4
      <4>3. QED
        BY <4>1, <4>2
    <3>2. CASE x = Digest(table, row)
      <4>1. Len(rows) + 1 \in DOMAIN longer
        BY <1>1, <1>2
      <4>2. QED
        BY <1>1, <1>3, <3>2, <4>1
    <3>3. QED
      BY <3>1, <3>2
  <2>2. QED
    BY <2>1 DEF NoneMissing
<1>9. QED
  BY <1>7, <1>8 DEF TableOK

\* A watermark where there was none leaves no row out.
LEMMA WatermarkCovers ==
  ASSUME NEW s, NEW r, NEW table \in Tables, NEW rows, RowsTyped(rows), NEW line,
         line[table] = Len(rows),
         r.of = s.of, s.resealed <=> r.resealed, s.lines = {}, r.lines = {line}, TableOK(s, table, rows)
  PROVE  TableOK(r, table, rows)
<1>1. DOMAIN rows = 1 .. Len(rows) /\ Len(rows) \in Nat /\ \A i \in 1 .. Len(rows) : rows[i].id = i
  BY ListIs DEF RowsTyped
<1>2. ASSUME NEW i \in 1 .. Len(rows) PROVE RowOK(r, table, rows[i])
  <2>1. RowOK(s, table, rows[i])
    BY <1>1 DEF TableOK, RowsOK
  <2>2. Sealed(s, table, rows[i].id) <=> Sealed(r, table, rows[i].id)
    BY DEF Sealed
  <2>3. rows[i].id <= line[table]
    BY <1>1
  <2>4. MayLackSeal(s, table, rows[i].id) => MayLackSeal(r, table, rows[i].id)
    BY <2>3 DEF MayLackSeal
  <2>5. QED
    BY <2>1, <2>2, <2>4 DEF RowOK
<1>3. NoneMissing(r, table, rows)
  BY DEF TableOK, NoneMissing
<1>4. QED
  BY <1>1, <1>2, <1>3 DEF TableOK, RowsOK

\* Every row that had no seal is sealed.
LEMMA AllAreSealed ==
  ASSUME NEW s, NEW r, NEW table, NEW rows, AList(rows), TableOK(s, table, rows),
         s.of \subseteq r.of,
         \A i \in 1 .. Len(rows) : ~Sealed(s, table, rows[i].id) => Digest(table, rows[i]) \in r.of,
         \A x \in r.of : x.table = table =>
            x \in s.of \/ \E i \in 1 .. Len(rows) : x = Digest(table, rows[i])
  PROVE  TableOK(r, table, rows)
<1>1. DOMAIN rows = 1 .. Len(rows)
  BY ListIs
<1>2. ASSUME NEW i \in 1 .. Len(rows) PROVE RowOK(r, table, rows[i])
  <2>1. RowOK(s, table, rows[i])
    BY <1>1 DEF TableOK, RowsOK
  <2>2. Digest(table, rows[i]) \in r.of
    BY <2>1 DEF RowOK
  <2>3. Digest(table, rows[i]).table = table /\ Digest(table, rows[i]).id = rows[i].id
    BY DEF Digest
  <2>4. Sealed(r, table, rows[i].id)
    BY <2>2, <2>3 DEF Sealed
  <2>5. QED
    BY <2>2, <2>4 DEF RowOK
<1>3. NoneMissing(r, table, rows)
  <2>1. ASSUME NEW x \in r.of, x.table = table PROVE \E i \in DOMAIN rows : rows[i].id = x.id
    <3>1. CASE x \in s.of
      BY <2>1, <3>1 DEF TableOK, NoneMissing
    <3>2. CASE \E i \in 1 .. Len(rows) : x = Digest(table, rows[i])
      BY <1>1, <3>2 DEF Digest
    <3>3. QED
      BY <2>1, <3>1, <3>2
  <2>2. QED
    BY <2>1 DEF NoneMissing
<1>4. QED
  BY <1>1, <1>2, <1>3 DEF TableOK, RowsOK

-----------------------------------------------------------------------------
(* Stores and snapshots.                                                   *)

\* No line is drawn beyond the rows.
Below(es, a, k) ==
  \A line \in SaidIn(es, "seal_watermark") : line["approvals"] \in 0 .. a /\ line["checks"] \in 0 .. k

FileOK(f, l) ==
  /\ ATrail(f.events, l)
  /\ RowsTyped(f.approvals) /\ RowsTyped(f.checks)
  /\ Below(f.events, Len(f.approvals), Len(f.checks))

StoreOK(d, l, whole) ==
  /\ d = [events |-> d.events, approvals |-> d.approvals, checks |-> d.checks, token |-> d.token]
  /\ FileOK(d, l)
  /\ whole => RecordsOK(SealsIn(d.events), d.approvals, d.checks)

Lasts(d, e) ==
  Continues(d.events, e.events) /\ Continues(d.approvals, e.approvals) /\ Continues(d.checks, e.checks)

LEMMA FileIs ==
  ASSUME NEW l \in Legacies, NEW f, FileOK(f, l)
  PROVE  /\ AList(f.events) /\ AList(f.approvals) /\ AList(f.checks)
         /\ Len(f.events) \in Nat /\ Len(f.approvals) \in Nat /\ Len(f.checks) \in Nat
<1>1. AList(f.events)
  BY NoLegacyIs, TrailIs DEF FileOK, ATrail
<1>2. QED
  BY <1>1, ListIs DEF FileOK, RowsTyped

\* Only the trail goes on, with anything but records.
GoesOn(d, e, type, msg, token) ==
  /\ Adds(d.events, e.events, type, msg)
  /\ type \notin {"row_seal", "legacy_attested", "seal_watermark"}
  /\ e = [events |-> e.events, approvals |-> d.approvals, checks |-> d.checks, token |-> token]

LEMMA SaidElse ==
  ASSUME NEW es, NEW n, NEW type, NEW msg, Adds(es, n, type, msg), NEW t, t # Marker, t # type
  PROVE  SaidIn(n, t) = SaidIn(es, t)
BY DEF Adds

LEMMA TrailGoesOn ==
  ASSUME NEW l \in Legacies, NEW d, NEW whole, StoreOK(d, l, whole), NEW token, NEW type,
         NEW msg,
         NEW e, GoesOn(d, e, type, msg, token), ATrail(e.events, l)
  PROVE  StoreOK(e, l, whole) /\ Lasts(d, e) /\ e.token = token
<1>1. /\ e.approvals = d.approvals /\ e.checks = d.checks /\ e.token = token
      /\ e = [events |-> e.events, approvals |-> e.approvals, checks |-> e.checks, token |-> e.token]
  BY DEF GoesOn
<1>2. SealsIn(e.events) = SealsIn(d.events)
  BY SealsSame DEF GoesOn
<1>3. SaidIn(e.events, "seal_watermark") = SaidIn(d.events, "seal_watermark")
  <2>1. "seal_watermark" # Marker
    BY DEF Marker
  <2>2. QED
    BY <2>1, SaidElse DEF GoesOn
<1>4. StoreOK(e, l, whole)
  BY <1>1, <1>2, <1>3 DEF StoreOK, FileOK, Below
<1>5. Lasts(d, e)
  BY <1>1, ContinuesItself DEF GoesOn, Lasts, Adds, StoreOK, FileOK, RowsTyped
<1>6. QED
  BY <1>1, <1>4, <1>5

\* What may be said in anything that is no record.
Plain(type, msg) ==
  /\ type \in {"note", "secret_redacted", "approval_token", "approval", "check", "snapshot_imported"}
  /\ \E x \in Contents \union {"log", "enabled", "rotated", "disabled", "check_failed", "snapshot"} : msg = Text(x)

LEMMA PlainSays ==
  ASSUME NEW l, NEW es, NEW n, NEW type, NEW msg, Plain(type, msg)
  PROVE  Says(es, n, l, type, msg) /\ type # Marker /\ type \notin {"row_seal", "legacy_attested", "seal_watermark"}
<1>1. PICK x \in Contents \union {"log", "enabled", "rotated", "disabled", "check_failed", "snapshot"} : msg = Text(x)
  BY DEF Plain
<1>2. x # "altered"
  BY AuditAssumption
<1>3. msg # Text("altered")
  <2>1. Text(x).text = x /\ Text("altered").text = "altered"
    BY DEF Text
  <2>2. QED
    BY <1>1, <1>2, <2>1
<1>4. QED
  BY <1>3 DEF Plain, Says, Marker

LEMMA ALogged ==
  ASSUME NEW l \in Legacies, NEW es, ATrail(es, l), NEW type, type # Marker, NEW msg,
         NEW role \in Roles,
         type # "legacy_attested", Says(es, Len(es), l, type, msg),
         NEW n, n = Logged(es, type, msg, role)
  PROVE  ATrail(n, l) /\ Adds(es, n, type, msg)
<1>1. PICK h \in {l, NoLegacy(l)} : Trail(es, h)
  BY DEF ATrail
<1>2. h \in Legacies
  BY NoLegacyIs
<1>3. Says(es, Len(es), h, type, msg)
  BY DEF Says
<1>4. Trail(n, h) /\ Adds(es, n, type, msg)
  BY <1>1, <1>2, <1>3, LoggedIs
<1>5. QED
  BY <1>1, <1>4 DEF ATrail

LEMMA PlainLogged ==
  ASSUME NEW l \in Legacies, NEW es, ATrail(es, l), NEW type, NEW msg, Plain(type, msg),
         NEW role \in Roles,
         NEW n, n = Logged(es, type, msg, role)
  PROVE  ATrail(n, l) /\ Adds(es, n, type, msg)
<1>1. Says(es, Len(es), l, type, msg) /\ type # Marker /\ type # "legacy_attested"
  BY PlainSays DEF Plain
<1>2. QED
  BY <1>1, ALogged

-----------------------------------------------------------------------------
(* Recording.                                                              *)

\* e is b with one more event, and this token.
OneMore(b, e, type, msg, role, token) ==
  /\ e.events = Logged(b.events, type, msg, role)
  /\ e = [events |-> e.events, approvals |-> b.approvals, checks |-> b.checks, token |-> token]

LEMMA OneMoreIs ==
  ASSUME NEW b, NEW type, NEW msg, NEW role, NEW token, NEW e,
         e = [events |-> Logged(b.events, type, msg, role), approvals |-> b.approvals, checks |-> b.checks, token |-> token]
  PROVE  OneMore(b, e, type, msg, role, token)
<1>1. PICK es : es = Logged(b.events, type, msg, role)
  OBVIOUS
<1>2. e.events = es /\ e = [events |-> es, approvals |-> b.approvals, checks |-> b.checks, token |-> token]
  BY <1>1
<1>3. QED
  BY <1>1, <1>2 DEF OneMore

LEMMA PlainStore ==
  ASSUME NEW l \in Legacies, NEW d, NEW whole, StoreOK(d, l, whole), NEW token, NEW type,
         NEW msg,
         Plain(type, msg), NEW role \in Roles,
         NEW e, OneMore(d, e, type, msg, role, token)
  PROVE  /\ StoreOK(e, l, whole) /\ Lasts(d, e) /\ e.token = token /\ e.events = Logged(d.events, type, msg, role)
         /\ e.approvals = d.approvals /\ e.checks = d.checks
<1> USE DEF OneMore
<1>1. PICK es : es = Logged(d.events, type, msg, role)
  OBVIOUS
<1>2. ATrail(d.events, l)
  BY DEF StoreOK, FileOK
<1>3. ATrail(es, l) /\ Adds(d.events, es, type, msg)
  BY <1>1, <1>2, PlainLogged
<1>4. type \notin {"row_seal", "legacy_attested", "seal_watermark"}
  BY PlainSays
<1>5. GoesOn(d, e, type, msg, token) /\ e.events = es
  BY <1>1, <1>3, <1>4 DEF GoesOn
<1>6. StoreOK(e, l, whole) /\ Lasts(d, e) /\ e.token = token
  BY <1>3, <1>5, TrailGoesOn
<1>7. e.approvals = d.approvals /\ e.checks = d.checks
  OBVIOUS
<1>8. QED
  BY <1>1, <1>5, <1>6, <1>7

LEMMA HeadIsSealed ==
  ASSUME NEW l \in Legacies, NEW d, NEW whole, StoreOK(d, l, whole), NEW head, NEW token,
         Anchored(d.events, Len(d.events), head),
         NEW e, OneMore(d, e, "head_sealed", HeadSeal(head, token), NoRole, d.token)
  PROVE  StoreOK(e, l, whole) /\ Lasts(d, e) /\ e.token = d.token
<1> USE DEF OneMore
<1>1. PICK es : es = Logged(d.events, "head_sealed", HeadSeal(head, token), NoRole)
  OBVIOUS
<1>2. PICK msg : msg = HeadSeal(head, token)
  OBVIOUS
<1>3. msg # Text("altered")
  <2>1. DOMAIN msg = {"head", "key", "mac"} /\ DOMAIN Text("altered") = {"text"}
    BY <1>2 DEF HeadSeal, Text
  <2>2. "head" \notin {"text"} /\ "head" \in {"head", "key", "mac"}
    OBVIOUS
  <2>3. QED
    BY <2>1, <2>2
<1>4. msg.head = head /\ msg.key = token
  BY <1>2 DEF HeadSeal
<1>5. Says(d.events, Len(d.events), l, "head_sealed", msg)
  BY <1>2, <1>3, <1>4 DEF Says
<1>6. ATrail(d.events, l) /\ NoRole \in Roles /\ "head_sealed" # Marker
  BY AuditAssumption DEF StoreOK, FileOK, Marker
<1>7. ATrail(es, l) /\ Adds(d.events, es, "head_sealed", msg)
  BY <1>1, <1>2, <1>5, <1>6, ALogged
<1>8. GoesOn(d, e, "head_sealed", msg, d.token) /\ e.events = es
  BY <1>1, <1>7 DEF GoesOn
<1>9. QED
  BY <1>7, <1>8, TrailGoesOn

LEMMA WatermarkedIs ==
  ASSUME NEW l \in Legacies, NEW d, NEW whole, StoreOK(d, l, whole), NEW w, w = Watermarked(d)
  PROVE  /\ StoreOK(w, l, whole) /\ Lasts(d, w)
         /\ w.approvals = d.approvals /\ w.checks = d.checks /\ w.token = d.token
<1>1. CASE Has(d.events, "seal_watermark")
  <2>1. w = d
    BY <1>1 DEF Watermarked
  <2>2. Lasts(d, d)
    BY FileIs, ContinuesItself DEF Lasts, StoreOK
  <2>3. QED
    BY <2>1, <2>2
<1>2. CASE ~Has(d.events, "seal_watermark")
  <2> DEFINE N == [approvals |-> Len(d.approvals), checks |-> Len(d.checks)]
  <2>1. PICK line : line = N
    OBVIOUS
  <2>2. PICK es : es = Logged(d.events, "seal_watermark", line, NoRole)
    OBVIOUS
  <2>3. w = [events |-> es, approvals |-> d.approvals, checks |-> d.checks, token |-> d.token]
    <3>1. d = [events |-> d.events, approvals |-> d.approvals, checks |-> d.checks, token |-> d.token]
      BY DEF StoreOK
    <3>2. w = [d EXCEPT !.events = Logged(d.events, "seal_watermark", line, NoRole)]
      BY <1>2, <2>1 DEF Watermarked
    <3>3. QED
      BY <2>2, <3>1, <3>2
  <2>4. line["approvals"] = Len(d.approvals) /\ line["checks"] = Len(d.checks)
    BY <2>1
  <2>5. line # Text("altered")
    <3>1. DOMAIN line = {"approvals", "checks"} /\ DOMAIN Text("altered") = {"text"}
      BY <2>1 DEF Text
    <3>2. "checks" \notin {"text"} /\ "checks" \in {"approvals", "checks"}
      OBVIOUS
    <3>3. QED
      BY <3>1, <3>2
  <2>6. Says(d.events, Len(d.events), l, "seal_watermark", line)
    BY <2>5 DEF Says
  <2>7. ATrail(d.events, l) /\ NoRole \in Roles /\ "seal_watermark" # Marker
    BY AuditAssumption DEF StoreOK, FileOK, Marker
  <2>8. ATrail(es, l) /\ Adds(d.events, es, "seal_watermark", line)
    BY <2>2, <2>6, <2>7, ALogged
  <2>9. Len(d.approvals) \in Nat /\ Len(d.checks) \in Nat
    BY FileIs DEF StoreOK
  <2>10. Below(es, Len(d.approvals), Len(d.checks))
    <3>1. SaidIn(es, "seal_watermark") = {line}
      BY <1>2, <2>7, <2>8, HasSaid DEF Adds
    <3>2. QED
      BY <2>4, <2>9, <3>1 DEF Below
  <2>11. FileOK(w, l)
    BY <2>3, <2>8, <2>10 DEF StoreOK, FileOK
  <2>12. ASSUME whole PROVE RecordsOK(SealsIn(es), d.approvals, d.checks)
    <3>1. PICK s : s = SealsIn(d.events)
      OBVIOUS
    <3>2. PICK r : r = SealsIn(es)
      OBVIOUS
    <3>3. r.of = s.of /\ (s.resealed <=> r.resealed) /\ s.lines = {} /\ r.lines = {line}
      <4>1. s.lines = {}
        BY <1>2, <3>1, SealsAre
      <4>2. r.lines = {line}
        BY <1>2, <2>8, <3>2, SealsGrow
      <4>3. r.of = s.of
        BY <2>8, <3>1, <3>2, SealsGrow
      <4>4. s.resealed <=> r.resealed
        BY <2>8, <3>1, <3>2, SealsGrow
      <4>5. QED
        BY <4>1, <4>2, <4>3, <4>4
    <3>4. TableOK(s, "approvals", d.approvals) /\ TableOK(s, "checks", d.checks)
      BY <2>12, <3>1, RecordsAreTables DEF StoreOK
    <3>5. RowsTyped(d.approvals) /\ RowsTyped(d.checks) /\ "approvals" \in Tables /\ "checks" \in Tables
      BY DEF StoreOK, FileOK, Tables
    <3>6. TableOK(r, "approvals", d.approvals)
      BY <2>4, <3>3, <3>4, <3>5, WatermarkCovers
    <3>7. TableOK(r, "checks", d.checks)
      BY <2>4, <3>3, <3>4, <3>5, WatermarkCovers
    <3>8. QED
      BY <3>2, <3>6, <3>7, RecordsAreTables
  <2>13. StoreOK(w, l, whole)
    BY <2>3, <2>11, <2>12 DEF StoreOK
  <2>14. Lasts(d, w)
    BY <2>3, <2>8, FileIs, ContinuesItself DEF Lasts, Adds, StoreOK
  <2>15. QED
    BY <2>3, <2>13, <2>14
<1>3. QED
  BY <1>1, <1>2

LEMMA DigestSays ==
  ASSUME NEW l, NEW es, NEW n, NEW table \in Tables, NEW row, row.id \in Nat,
         row.content \in Contents
  PROVE  Says(es, n, l, "row_seal", Digest(table, row)) /\ "row_seal" # Marker
<1>1. PICK msg : msg = Digest(table, row)
  OBVIOUS
<1>2. msg # Text("altered")
  <2>1. DOMAIN msg = {"table", "id", "content"} /\ DOMAIN Text("altered") = {"text"}
    BY <1>1 DEF Digest, Text
  <2>2. "table" \notin {"text"} /\ "table" \in {"table", "id", "content"}
    OBVIOUS
  <2>3. QED
    BY <2>1, <2>2
<1>3. msg \in Digests
  BY <1>1 DEF Digest, Digests
<1>4. QED
  BY <1>1, <1>2, <1>3 DEF Says, Marker

LEMMA SealRowIs ==
  ASSUME NEW l \in Legacies, NEW es, Trail(es, l), NEW table \in Tables, NEW row,
         row.id \in Nat, row.content \in Contents,
         NEW n, n = SealRow(es, table, row)
  PROVE  Trail(n, l) /\ Adds(es, n, "row_seal", Digest(table, row))
<1>1. Says(es, Len(es), l, "row_seal", Digest(table, row)) /\ "row_seal" # Marker /\ NoRole \in Roles
  BY DigestSays, AuditAssumption
<1>2. n = Logged(es, "row_seal", Digest(table, row), NoRole)
  BY DEF SealRow
<1>3. QED
  BY <1>1, <1>2, LoggedIs

LEMMA ASealRow ==
  ASSUME NEW l \in Legacies, NEW es, ATrail(es, l), NEW table \in Tables, NEW row,
         row.id \in Nat, row.content \in Contents,
         NEW n, n = SealRow(es, table, row)
  PROVE  ATrail(n, l) /\ Adds(es, n, "row_seal", Digest(table, row))
<1>1. PICK h \in {l, NoLegacy(l)} : Trail(es, h)
  BY DEF ATrail
<1>2. h \in Legacies
  BY NoLegacyIs
<1>3. Trail(n, h) /\ Adds(es, n, "row_seal", Digest(table, row))
  BY <1>1, <1>2, SealRowIs
<1>4. QED
  BY <1>1, <1>3 DEF ATrail

\* A row and its seal join a table; the other table is left alone.
LEMMA RowJoins ==
  ASSUME NEW l \in Legacies, NEW d, NEW whole, StoreOK(d, l, whole), NEW c \in Contents,
         NEW table \in Tables, NEW other \in Tables, other # table,
         NEW row, row = [id |-> Len(d[table]) + 1, content |-> c],
         NEW es, es = SealRow(d.events, table, row)
  PROVE  /\ ATrail(es, l) /\ Continues(d.events, es)
         /\ RowsTyped(Append(d[table], row)) /\ Continues(d[table], Append(d[table], row))
         /\ Len(Append(d[table], row)) = Len(d[table]) + 1
         /\ SaidIn(es, "seal_watermark") = SaidIn(d.events, "seal_watermark")
         /\ whole => /\ TableOK(SealsIn(es), table, Append(d[table], row))
                     /\ TableOK(SealsIn(es), other, d[other])
<1>1. PICK rows : rows = d[table]
  OBVIOUS
<1>2. PICK longer : longer = Append(rows, row)
  OBVIOUS
<1>3. RowsTyped(rows)
  BY <1>1 DEF StoreOK, FileOK, Tables
<1>4. row = [id |-> Len(rows) + 1, content |-> c]
  BY <1>1
<1>5. RowsTyped(longer) /\ Continues(rows, longer) /\ Len(longer) = Len(rows) + 1 /\ Len(rows) \in Nat
  BY <1>2, <1>3, <1>4, RowsAppended
<1>6. row.id \in Nat /\ row.content \in Contents
  BY <1>4, <1>5
<1>7. ATrail(es, l) /\ Adds(d.events, es, "row_seal", Digest(table, row))
  BY <1>6, ASealRow DEF StoreOK, FileOK
<1>8. SaidIn(es, "seal_watermark") = SaidIn(d.events, "seal_watermark")
  <2>1. "seal_watermark" # Marker
    BY DEF Marker
  <2>2. QED
    BY <1>7, <2>1, SaidElse
<1>9. ASSUME whole
      PROVE  TableOK(SealsIn(es), table, longer) /\ TableOK(SealsIn(es), other, d[other])
  <2>1. PICK s : s = SealsIn(d.events)
    OBVIOUS
  <2>2. PICK r : r = SealsIn(es)
    OBVIOUS
  <2>3. r.of = s.of \union {Digest(table, row)} /\ (s.resealed <=> r.resealed) /\ r.lines = s.lines
    BY <1>7, <2>1, <2>2, SealsGrow
  <2>4. TableOK(s, table, rows) /\ TableOK(s, other, d[other])
    <3>1. TableOK(s, "approvals", d.approvals) /\ TableOK(s, "checks", d.checks)
      BY <1>9, <2>1, RecordsAreTables DEF StoreOK
    <3>2. QED
      BY <1>1, <3>1 DEF Tables
  <2>5. TableOK(r, table, longer)
    BY <1>2, <1>3, <1>4, <2>3, <2>4, SealedWithRow
  <2>6. \A x : x.table = other => (x \in s.of <=> x \in r.of)
    <3>1. Digest(table, row).table = table
      BY DEF Digest
    <3>2. QED
      BY <2>3, <3>1
  <2>7. TableOK(r, other, d[other])
    BY <2>3, <2>4, <2>6, JudgedAlike
  <2>8. QED
    BY <2>2, <2>5, <2>7
<1>10. QED
  BY <1>1, <1>2, <1>5, <1>7, <1>8, <1>9 DEF Adds

\* RecordedIs puts a table's row, its seal and its event together.
LEMMA RecordedIs ==
  ASSUME NEW l \in Legacies, NEW d, NEW whole, StoreOK(d, l, whole), NEW table \in Tables,
         NEW c \in Contents, NEW role \in Roles, NEW e, e = Recorded(d, table, c, role)
  PROVE  StoreOK(e, l, whole) /\ Lasts(d, e) /\ e.token = d.token
<1>1. PICK w : w = Watermarked(d)
  OBVIOUS
<1>2. /\ StoreOK(w, l, whole) /\ Lasts(d, w)
      /\ w.approvals = d.approvals /\ w.checks = d.checks /\ w.token = d.token
  BY <1>1, WatermarkedIs
<1>3. PICK row : row = [id |-> Len(w[table]) + 1, content |-> c]
  OBVIOUS
<1>4. PICK es : es = SealRow(w.events, table, row)
  OBVIOUS
<1>5. PICK other \in Tables : other # table
  BY DEF Tables
<1>6. /\ ATrail(es, l) /\ Continues(w.events, es)
      /\ RowsTyped(Append(w[table], row)) /\ Continues(w[table], Append(w[table], row))
      /\ Len(Append(w[table], row)) = Len(w[table]) + 1
      /\ SaidIn(es, "seal_watermark") = SaidIn(w.events, "seal_watermark")
      /\ whole => /\ TableOK(SealsIn(es), table, Append(w[table], row))
                  /\ TableOK(SealsIn(es), other, w[other])
  BY <1>2, <1>3, <1>4, <1>5, RowJoins
<1>7. PICK v : v = [events |-> es, approvals |-> IF table = "approvals" THEN Append(w.approvals, row) ELSE w.approvals,
                    checks |-> IF table = "approvals" THEN w.checks ELSE Append(w.checks, row), token |-> w.token]
  OBVIOUS
<1>8. /\ v = [events |-> v.events, approvals |-> v.approvals, checks |-> v.checks, token |-> v.token]
      /\ v.events = es /\ v.token = w.token
      /\ table = "approvals" => v.approvals = Append(w[table], row) /\ v.checks = w[other] /\ other = "checks"
      /\ table = "checks" => v.checks = Append(w[table], row) /\ v.approvals = w[other] /\ other = "approvals"
  BY <1>5, <1>7 DEF Tables
<1>9. /\ RowsTyped(w[other]) /\ Continues(w[other], w[other]) /\ Len(w[table]) \in Nat
      /\ Len(w[other]) \in Nat
      /\ w["approvals"] = w.approvals /\ w["checks"] = w.checks
  <2>1. RowsTyped(w.approvals) /\ RowsTyped(w.checks) /\ AList(w.approvals) /\ AList(w.checks)
    BY <1>2 DEF StoreOK, FileOK, RowsTyped
  <2>2. QED
    BY <2>1, ContinuesItself, ListIs DEF Tables
<1>10. Below(es, Len(v.approvals), Len(v.checks))
  <2>1. Below(es, Len(w.approvals), Len(w.checks))
    BY <1>2, <1>6 DEF StoreOK, FileOK, Below
  <2>2. CASE table = "approvals"
    BY <1>6, <1>8, <1>9, <2>1, <2>2 DEF Below
  <2>3. CASE table = "checks"
    BY <1>6, <1>8, <1>9, <2>1, <2>3 DEF Below
  <2>4. QED
    BY <2>2, <2>3 DEF Tables
<1>11. RowsTyped(v.approvals) /\ RowsTyped(v.checks) /\ Continues(w.approvals, v.approvals) /\ Continues(w.checks, v.checks)
  BY <1>6, <1>8, <1>9 DEF Tables
<1>12. ASSUME whole PROVE RecordsOK(SealsIn(es), v.approvals, v.checks)
  <2>1. TableOK(SealsIn(es), table, Append(w[table], row)) /\ TableOK(SealsIn(es), other, w[other])
    BY <1>6, <1>12
  <2>2. TableOK(SealsIn(es), "approvals", v.approvals) /\ TableOK(SealsIn(es), "checks", v.checks)
    BY <1>8, <2>1 DEF Tables
  <2>3. QED
    BY <2>2, RecordsAreTables
<1>13. StoreOK(v, l, whole)
  BY <1>6, <1>8, <1>10, <1>11, <1>12 DEF StoreOK, FileOK
<1>14. Lasts(w, v)
  BY <1>6, <1>8, <1>11 DEF Lasts
<1>15. PICK type \in {"approval", "check"} : e.events = Logged(es, type, Text(c), role) /\
         e = [events |-> e.events, approvals |-> v.approvals, checks |-> v.checks, token |-> v.token]
  <2>1. w = [events |-> w.events, approvals |-> w.approvals, checks |-> w.checks, token |-> w.token]
    BY <1>2 DEF StoreOK
  <2>2. Len(d[table]) = Len(w[table])
    BY <1>2 DEF Tables
  <2>3. PICK type \in {"approval", "check"} : type = IF table = "approvals" THEN "approval" ELSE "check"
    OBVIOUS
  <2>4. PICK n : n = Logged(es, type, Text(c), role)
    OBVIOUS
  <2>5. e = [WithRow(w, table, row) EXCEPT !.events = n]
    BY <1>1, <1>3, <1>4, <2>2, <2>3, <2>4 DEF Recorded
  <2>6. WithRow(w, table, row) = [events |-> w.events, approvals |-> v.approvals, checks |-> v.checks, token |-> w.token]
    <3>1. CASE table = "approvals"
      <4>1. WithRow(w, table, row) = [w EXCEPT !.approvals = Append(w.approvals, row)]
        BY <3>1 DEF WithRow
      <4>2. QED
        BY <1>7, <2>1, <3>1, <4>1
    <3>2. CASE table # "approvals"
      <4>1. WithRow(w, table, row) = [w EXCEPT !.checks = Append(w.checks, row)]
        BY <3>2 DEF WithRow
      <4>2. QED
        BY <1>7, <2>1, <3>2, <4>1
    <3>3. QED
      BY <3>1, <3>2
  <2>7. e = [events |-> n, approvals |-> v.approvals, checks |-> v.checks, token |-> w.token]
    BY <2>5, <2>6
  <2>8. QED
    BY <1>8, <2>4, <2>7
<1>16. PICK msg : msg = Text(c)
  OBVIOUS
<1>17. Plain(type, msg)
  BY <1>16 DEF Plain
<1>18. StoreOK(e, l, whole) /\ Lasts(v, e) /\ e.token = v.token
  <2>1. ATrail(v.events, l)
    BY <1>6, <1>8
  <2>2. e.events = Logged(v.events, type, msg, role)
    BY <1>8, <1>15, <1>16
  <2>3. ATrail(e.events, l) /\ Adds(v.events, e.events, type, msg)
    BY <1>17, <2>1, <2>2, PlainLogged
  <2>4. GoesOn(v, e, type, msg, v.token)
    BY <1>15, <1>17, <2>3, PlainSays DEF GoesOn
  <2>5. QED
    BY <1>13, <2>3, <2>4, TrailGoesOn
<1>19. Lasts(d, e)
  BY <1>2, <1>14, <1>18, ContinuesOn DEF Lasts
<1>20. QED
  BY <1>2, <1>8, <1>18, <1>19

-----------------------------------------------------------------------------
(* Resealing.                                                              *)

LEMMA AllNaturals ==
  ASSUME NEW S, 0 \in S, \A n \in Nat : n \in S => n + 1 \in S
  PROVE  \A n \in Nat : n \in S
<1> DEFINE R == {ss \in Nat \X Nat : ss[1] < ss[2]}
           Bad == Nat \ S
<1> SUFFICES ASSUME Bad # {} PROVE FALSE
  OBVIOUS
<1>1. IsWellFoundedOn(R, Nat)
  BY NatLessThanWellFounded DEF OpToRel
<1>2. PICK x \in Bad : \A y \in Bad : ~(<<y, x>> \in R)
  <2>1. Bad \subseteq Nat
    OBVIOUS
  <2> HIDE DEF Bad, R
  <2>2. QED
    BY <1>1, <2>1, WFMin
<1>3. x \in Nat /\ x # 0 /\ x - 1 \in Nat
  OBVIOUS
<1>4. x - 1 \notin Bad
  <2>1. <<x - 1, x>> \in R
    BY <1>3
  <2> HIDE DEF Bad, R
  <2>2. QED
    BY <1>2, <2>1
<1>5. QED
  BY <1>3, <1>4

\* One more row of a table sealed, if it was not.
SealNext(seals, table, row, es) == IF Sealed(seals, table, row.id) THEN es ELSE SealRow(es, table, row)

IsSealing(f, n, es, seals, table, rows) ==
  f = [k \in 0 .. n |-> IF k = 0 THEN es ELSE SealNext(seals, table, rows[k], f[k - 1])]

LEMMA SealingExists ==
  ASSUME NEW es, NEW seals, NEW table, NEW rows
  PROVE  \A n \in Nat : \E f : IsSealing(f, n, es, seals, table, rows)
<1> DEFINE S == {n \in Nat : \E f : IsSealing(f, n, es, seals, table, rows)}
<1>1. 0 \in S
  <2> DEFINE f == [k \in 0 .. 0 |-> es]
  <2>1. IsSealing(f, 0, es, seals, table, rows)
    BY DEF IsSealing
  <2>2. QED
    BY <2>1
<1>2. ASSUME NEW n \in Nat, n \in S PROVE n + 1 \in S
  <2>1. PICK f : IsSealing(f, n, es, seals, table, rows)
    BY <1>2
  <2> DEFINE g == [k \in 0 .. (n + 1) |-> IF k = n + 1 THEN SealNext(seals, table, rows[n + 1], f[n]) ELSE f[k]]
             h == [k \in 0 .. (n + 1) |-> IF k = 0 THEN es ELSE SealNext(seals, table, rows[k], g[k - 1])]
  <2>2. ASSUME NEW k \in 0 .. (n + 1) PROVE g[k] = h[k]
    <3>1. CASE k = n + 1
      BY <3>1
    <3>2. CASE k # n + 1
      <4>1. k \in 0 .. n /\ (k # 0 => k - 1 \in 0 .. n)
        BY <3>2
      <4>2. f[k] = IF k = 0 THEN es ELSE SealNext(seals, table, rows[k], f[k - 1])
        BY <2>1, <4>1 DEF IsSealing
      <4>3. QED
        BY <3>2, <4>1, <4>2
    <3>3. QED
      BY <3>1, <3>2
  <2>3. g = h
    BY <2>2
  <2>4. IsSealing(g, n + 1, es, seals, table, rows)
    BY <2>3 DEF IsSealing
  <2> HIDE DEF g
  <2>5. QED
    BY <2>4
<1> HIDE DEF S
<1>3. \A n \in Nat : n \in S
  BY <1>1, <1>2, AllNaturals
<1>4. QED
  BY <1>3 DEF S

LEMMA SealRestIs ==
  ASSUME NEW es, NEW d, NEW table, AList(d[table])
  PROVE  \E f : IsSealing(f, Len(d[table]), es, SealsIn(d.events), table, d[table])
                /\ SealRest(es, d, table) = f[Len(d[table])]
<1> DEFINE n == Len(d[table])
           f == CHOOSE f : IsSealing(f, n, es, SealsIn(d.events), table, d[table])
<1>1. n \in Nat
  BY ListIs
<1>2. IsSealing(f, n, es, SealsIn(d.events), table, d[table])
  BY <1>1, SealingExists
<1>3. SealRest(es, d, table) = f[n]
  BY DEF SealRest, IsSealing, SealNext
<1>4. QED
  BY <1>2, <1>3

\* A trail that goes on with seals of rows.
SealsOn(es, n, new) ==
  /\ Continues(es, n)
  /\ SaidIn(n, "row_seal") = SaidIn(es, "row_seal") \union new
  /\ \A t : t \notin {Marker, "row_seal"} => SaidIn(n, t) = SaidIn(es, t)

UnsealedOf(seals, table, rows, k) ==
  {Digest(table, rows[i]) : i \in {j \in 1 .. k : ~Sealed(seals, table, rows[j].id)}}

LEMMA SealingIs ==
  ASSUME NEW l \in Legacies, NEW es, Trail(es, l), NEW seals, NEW table \in Tables,
         NEW rows, RowsTyped(rows),
         NEW f, IsSealing(f, Len(rows), es, seals, table, rows)
  PROVE  \A k \in Nat : k <= Len(rows) => Trail(f[k], l) /\ SealsOn(es, f[k], UnsealedOf(seals, table, rows, k))
<1> DEFINE N == Len(rows)
           S == {k \in Nat : k <= N => Trail(f[k], l) /\ SealsOn(es, f[k], UnsealedOf(seals, table, rows, k))}
<1>1. N \in Nat
  BY ListIs DEF RowsTyped
<1>2. f = [k \in 0 .. N |-> IF k = 0 THEN es ELSE SealNext(seals, table, rows[k], f[k - 1])]
  BY DEF IsSealing
<1>3. 0 \in S
  <2>1. f[0] = es
    BY <1>1, <1>2
  <2>2. UnsealedOf(seals, table, rows, 0) = {}
    BY DEF UnsealedOf
  <2>3. Continues(es, es)
    BY TrailIs, ContinuesItself
  <2>4. QED
    BY <2>1, <2>2, <2>3 DEF SealsOn
<1>4. ASSUME NEW k \in Nat, k \in S PROVE k + 1 \in S
  <2> SUFFICES ASSUME k + 1 <= N
               PROVE  Trail(f[k + 1], l) /\ SealsOn(es, f[k + 1], UnsealedOf(seals, table, rows, k + 1))
    OBVIOUS
  <2>1. PICK b : b = f[k]
    OBVIOUS
  <2>2. Trail(b, l) /\ SealsOn(es, b, UnsealedOf(seals, table, rows, k))
    BY <1>1, <1>4, <2>1
  <2>3. PICK row : row = rows[k + 1]
    OBVIOUS
  <2>4. f[k + 1] = SealNext(seals, table, row, b)
    <3>1. k + 1 \in 0 .. N /\ k + 1 # 0 /\ (k + 1) - 1 = k
      BY <1>1
    <3>2. QED
      BY <1>2, <2>1, <2>3, <3>1
  <2>5. row.id \in Nat /\ row.content \in Contents
    <3>1. k + 1 \in 1 .. Len(rows)
      BY <1>1
    <3>2. row.id = k + 1 /\ row.content \in Contents
      BY <2>3, <3>1 DEF RowsTyped
    <3>3. QED
      BY <3>2
  <2>6. \A j \in 1 .. k + 1 : j \in 1 .. k \/ j = k + 1
    OBVIOUS
  <2>7. k + 1 \in 1 .. k + 1 /\ \A j \in 1 .. k : j \in 1 .. k + 1
    OBVIOUS
  <2>8. CASE Sealed(seals, table, row.id)
    <3>1. UnsealedOf(seals, table, rows, k + 1) = UnsealedOf(seals, table, rows, k)
      BY <2>3, <2>6, <2>7, <2>8 DEF UnsealedOf
    <3>2. f[k + 1] = b
      BY <2>4, <2>8 DEF SealNext
    <3>3. QED
      BY <2>2, <3>1, <3>2
  <2>9. CASE ~Sealed(seals, table, row.id)
    <3>1. UnsealedOf(seals, table, rows, k + 1) = UnsealedOf(seals, table, rows, k) \union {Digest(table, row)}
      BY <2>3, <2>6, <2>7, <2>9 DEF UnsealedOf
    <3>2. PICK n : n = SealRow(b, table, row)
      OBVIOUS
    <3>3. Trail(n, l) /\ Adds(b, n, "row_seal", Digest(table, row))
      BY <2>2, <2>5, <3>2, SealRowIs
    <3>4. f[k + 1] = n
      BY <2>4, <2>9, <3>2 DEF SealNext
    <3>5. Continues(es, n)
      BY <2>2, <3>3, ContinuesOn DEF SealsOn, Adds
    <3>6. SaidIn(n, "row_seal") = SaidIn(es, "row_seal") \union UnsealedOf(seals, table, rows, k + 1)
      <4>1. SaidIn(n, "row_seal") = SaidIn(b, "row_seal") \union {Digest(table, row)}
        BY <3>3 DEF Adds, Marker
      <4>2. QED
        BY <2>2, <3>1, <4>1 DEF SealsOn
    <3>7. \A t : t \notin {Marker, "row_seal"} => SaidIn(n, t) = SaidIn(es, t)
      BY <2>2, <3>3, SaidElse DEF SealsOn
    <3>8. QED
      BY <3>3, <3>4, <3>5, <3>6, <3>7 DEF SealsOn
  <2>10. QED
    BY <2>8, <2>9
<1> HIDE DEF S
<1>5. \A k \in Nat : k \in S
  BY <1>3, <1>4, AllNaturals
<1>6. QED
  BY <1>5 DEF S

LEMMA SealRestKeeps ==
  ASSUME NEW l \in Legacies, NEW es, Trail(es, l), NEW d, NEW table \in Tables,
         RowsTyped(d[table]),
         NEW n, n = SealRest(es, d, table)
  PROVE  /\ Trail(n, l)
         /\ SealsOn(es, n, UnsealedOf(SealsIn(d.events), table, d[table], Len(d[table])))
<1>1. AList(d[table]) /\ Len(d[table]) \in Nat /\ Len(d[table]) <= Len(d[table])
  BY ListIs DEF RowsTyped
<1>2. PICK seals : seals = SealsIn(d.events)
  OBVIOUS
<1>3. PICK rows : rows = d[table]
  OBVIOUS
<1>4. PICK f : IsSealing(f, Len(rows), es, seals, table, rows) /\ n = f[Len(rows)]
  BY <1>1, <1>2, <1>3, SealRestIs
<1>5. \A k \in Nat : k <= Len(rows) => Trail(f[k], l) /\ SealsOn(es, f[k], UnsealedOf(seals, table, rows, k))
  BY <1>3, <1>4, SealingIs
<1>6. QED
  BY <1>1, <1>2, <1>3, <1>4, <1>5

LEMMA MarkersSayNothing ==
  ASSUME NEW es, NEW n, Continues(es, n), \A i \in Len(es) + 1 .. Len(n) : n[i].type = Marker
  PROVE  SealsOn(es, n, {})
<1>1. /\ Len(es) \in Nat /\ Len(n) \in Nat /\ DOMAIN es = 1 .. Len(es) /\ DOMAIN n = 1 .. Len(n)
      /\ Len(es) <= Len(n) /\ \A i \in 1 .. Len(es) : n[i] = es[i]
  BY ListIs DEF Continues
<1>2. ASSUME NEW t, t # Marker PROVE SaidIn(n, t) = SaidIn(es, t)
  <2>1. \A i \in 1 .. Len(n) : n[i].type = t => i \in 1 .. Len(es)
    BY <1>1, <1>2
  <2>2. \A i \in 1 .. Len(es) : i \in 1 .. Len(n)
    BY <1>1
  <2>3. \A m : m \in SaidIn(n, t) <=> m \in SaidIn(es, t)
    BY <1>1, <2>1, <2>2 DEF SaidIn
  <2>4. QED
    BY <2>3
<1>3. "row_seal" # Marker
  BY DEF Marker
<1>4. QED
  BY <1>2, <1>3 DEF SealsOn

LEMMA OldAttestationSays ==
  ASSUME NEW l, NEW es, NEW n
  PROVE  Says(es, n, l, "legacy_attested", OldAttestation(l)) /\ "legacy_attested" # Marker
<1>1. PICK msg : msg = OldAttestation(l)
  OBVIOUS
<1>2. msg # Text("altered")
  <2>1. DOMAIN msg = {"marker", "digest"} /\ DOMAIN Text("altered") = {"text"}
    BY <1>1 DEF OldAttestation, Text
  <2>2. "marker" \notin {"text"} /\ "marker" \in {"marker", "digest"}
    OBVIOUS
  <2>3. QED
    BY <2>1, <2>2
<1>3. QED
  BY <1>1, <1>2 DEF Says, Marker

\* Resealing leaves no row without its seal, in one transaction.
LEMMA ResealedIs ==
  ASSUME NEW l \in Legacies, NEW d, NEW whole, StoreOK(d, l, whole), NEW e, e = Resealed(d)
  PROVE  StoreOK(e, l, whole) /\ Lasts(d, e) /\ e.token = d.token
<1>1. CASE Has(d.events, "legacy_attested")
  <2>1. e = d
    BY <1>1 DEF Resealed
  <2>2. Lasts(d, d)
    BY FileIs, ContinuesItself DEF Lasts, StoreOK
  <2>3. QED
    BY <2>1, <2>2
<1>2. CASE ~Has(d.events, "legacy_attested")
  <2>1. PICK h \in {l, NoLegacy(l)} : Trail(d.events, h)
    BY DEF StoreOK, FileOK, ATrail
  <2>2. h \in Legacies
    BY NoLegacyIs
  <2>3. RowsTyped(d.approvals) /\ RowsTyped(d.checks) /\ "approvals" \in Tables /\ "checks" \in Tables
    BY DEF StoreOK, FileOK, Tables
  <2>4. PICK m : m = WithMarker(d.events)
    OBVIOUS
  <2>5. /\ Trail(m, h) /\ Continues(d.events, m) /\ Len(m) > h.c
        /\ \A i \in Len(d.events) + 1 .. Len(m) : m[i].type = Marker
    BY <2>1, <2>2, <2>4, MarkedIs
  <2>6. SealsOn(d.events, m, {})
    BY <2>5, MarkersSayNothing
  <2>7. PICK a : a = SealRest(m, d, "approvals")
    OBVIOUS
  <2>8. PICK UA : UA = UnsealedOf(SealsIn(d.events), "approvals", d.approvals, Len(d.approvals))
    OBVIOUS
  <2>9. Trail(a, h) /\ SealsOn(m, a, UA)
    <3>1. d["approvals"] = d.approvals
      OBVIOUS
    <3>2. QED
      BY <2>2, <2>3, <2>5, <2>7, <2>8, <3>1, SealRestKeeps
  <2>10. PICK s : s = SealRest(a, d, "checks")
    OBVIOUS
  <2>11. PICK UC : UC = UnsealedOf(SealsIn(d.events), "checks", d.checks, Len(d.checks))
    OBVIOUS
  <2>12. Trail(s, h) /\ SealsOn(a, s, UC)
    <3>1. d["checks"] = d.checks
      OBVIOUS
    <3>2. QED
      BY <2>2, <2>3, <2>9, <2>10, <2>11, <3>1, SealRestKeeps
  <2>13. s = AllSealed(WithMarker(d.events), d)
    BY <2>4, <2>7, <2>10 DEF AllSealed
  <2>14. Len(s) > h.c
    <3>1. Continues(m, s)
      BY <2>9, <2>12, ContinuesOn DEF SealsOn
    <3>2. Len(m) \in Nat /\ Len(s) \in Nat /\ Len(m) <= Len(s) /\ h.c \in Nat
      BY <2>2, <2>5, <3>1, TrailIs, ListIs DEF Continues
    <3>3. QED
      BY <2>5, <3>2
  <2>15. Attestation(s) = OldAttestation(h)
    BY <2>2, <2>12, <2>14, TrailAttested
  <2>16. PICK att : att = OldAttestation(h)
    OBVIOUS
  <2>17. PICK n : n = Logged(s, "legacy_attested", att, NoRole)
    OBVIOUS
  <2>18. Trail(n, h) /\ Adds(s, n, "legacy_attested", att)
    <3>1. Says(s, Len(s), h, "legacy_attested", att) /\ "legacy_attested" # Marker /\ NoRole \in Roles
      BY <2>16, OldAttestationSays, AuditAssumption
    <3>2. QED
      BY <2>2, <2>12, <2>17, <3>1, LoggedIs
  <2>19. e = [events |-> n, approvals |-> d.approvals, checks |-> d.checks, token |-> d.token]
    <3>1. e = [d EXCEPT !.events = n]
      BY <1>2, <2>13, <2>15, <2>16, <2>17 DEF Resealed
    <3>2. d = [events |-> d.events, approvals |-> d.approvals, checks |-> d.checks, token |-> d.token]
      BY DEF StoreOK
    <3>3. QED
      BY <3>1, <3>2
  <2>20. e.events = n /\ e.approvals = d.approvals /\ e.checks = d.checks /\ e.token = d.token
    BY <2>19
  <2>21. SaidIn(n, "seal_watermark") = SaidIn(d.events, "seal_watermark")
    <3>1. "seal_watermark" \notin {Marker, "row_seal"} /\ "seal_watermark" # "legacy_attested"
      BY DEF Marker
    <3>2. SaidIn(n, "seal_watermark") = SaidIn(s, "seal_watermark")
      BY <2>18, <3>1, SaidElse
    <3>3. SaidIn(s, "seal_watermark") = SaidIn(d.events, "seal_watermark")
      BY <2>6, <2>9, <2>12, <3>1 DEF SealsOn
    <3>4. QED
      BY <3>2, <3>3
  <2>22. FileOK(e, l)
    BY <2>1, <2>3, <2>18, <2>20, <2>21 DEF FileOK, StoreOK, ATrail, Below
  <2>23. PICK r : r = SealsIn(n)
    OBVIOUS
  <2>24. PICK o : o = SealsIn(d.events)
    OBVIOUS
  <2>25. r.of = o.of \union UA \union UC
    <3>1. r.of = SaidIn(n, "row_seal") /\ o.of = SaidIn(d.events, "row_seal")
      BY <2>23, <2>24, SealsAre
    <3>2. SaidIn(n, "row_seal") = SaidIn(s, "row_seal")
      <4>1. "row_seal" # Marker
        BY DEF Marker
      <4>2. QED
        BY <2>18, <4>1, SaidElse
    <3>3. SaidIn(s, "row_seal") = SaidIn(d.events, "row_seal") \union UA \union UC
      BY <2>6, <2>9, <2>12 DEF SealsOn
    <3>4. QED
      BY <3>1, <3>2, <3>3
  <2>26. ASSUME whole PROVE RecordsOK(r, d.approvals, d.checks)
    <3>1. TableOK(o, "approvals", d.approvals) /\ TableOK(o, "checks", d.checks)
      BY <2>24, <2>26, RecordsAreTables DEF StoreOK
    <3>2. \A x \in UA : x.table = "approvals" /\ \E i \in 1 .. Len(d.approvals) : x = Digest("approvals", d.approvals[i])
      BY <2>8 DEF UnsealedOf, Digest
    <3>3. \A x \in UC : x.table = "checks" /\ \E i \in 1 .. Len(d.checks) : x = Digest("checks", d.checks[i])
      BY <2>11 DEF UnsealedOf, Digest
    <3>4. AList(d.approvals) /\ AList(d.checks)
      BY <2>3 DEF RowsTyped
    <3>5. o.of \subseteq r.of
      BY <2>25
    <3>6. TableOK(r, "approvals", d.approvals)
      <4>1. \A i \in 1 .. Len(d.approvals) : ~Sealed(o, "approvals", d.approvals[i].id) => Digest("approvals", d.approvals[i]) \in r.of
        BY <2>8, <2>24, <2>25 DEF UnsealedOf
      <4>2. \A x \in r.of : x.table = "approvals" =>
               x \in o.of \/ \E i \in 1 .. Len(d.approvals) : x = Digest("approvals", d.approvals[i])
        BY <2>25, <3>2, <3>3
      <4>3. QED
        BY <3>1, <3>4, <3>5, <4>1, <4>2, AllAreSealed
    <3>7. TableOK(r, "checks", d.checks)
      <4>1. \A i \in 1 .. Len(d.checks) : ~Sealed(o, "checks", d.checks[i].id) => Digest("checks", d.checks[i]) \in r.of
        BY <2>11, <2>24, <2>25 DEF UnsealedOf
      <4>2. \A x \in r.of : x.table = "checks" =>
               x \in o.of \/ \E i \in 1 .. Len(d.checks) : x = Digest("checks", d.checks[i])
        BY <2>25, <3>2, <3>3
      <4>3. QED
        BY <3>1, <3>4, <3>5, <4>1, <4>2, AllAreSealed
    <3>8. QED
      BY <3>6, <3>7, RecordsAreTables
  <2>27. StoreOK(e, l, whole)
    BY <2>19, <2>20, <2>22, <2>23, <2>26 DEF StoreOK
  <2>28. Lasts(d, e)
    <3>1. Continues(d.events, n)
      BY <2>6, <2>9, <2>12, <2>18, ContinuesOn DEF SealsOn, Adds
    <3>2. QED
      BY <2>3, <2>20, <3>1, ContinuesItself DEF Lasts, RowsTyped
  <2>29. QED
    BY <2>20, <2>27, <2>28
<1>3. QED
  BY <1>1, <1>2

-----------------------------------------------------------------------------
(* Importing.                                                              *)

LEMMA RowsMerged ==
  ASSUME NEW a, RowsTyped(a), NEW b, RowsTyped(b), NEW m, m = Merged(a, b)
  PROVE  RowsTyped(m) /\ Continues(a, m) /\ Len(m) >= Len(a) /\ Len(m) >= Len(b) /\ Len(m) \in Nat
<1>1. AList(a) /\ AList(b) /\ Len(a) \in Nat /\ Len(b) \in Nat
  BY ListIs DEF RowsTyped
<1>2. /\ AList(m) /\ Continues(a, m)
      /\ Len(m) = IF Len(a) < Len(b) THEN Len(b) ELSE Len(a)
      /\ \A i \in Len(a) + 1 .. Len(b) : m[i] = b[i]
  BY <1>1, MergedIs
<1>3. ASSUME NEW i \in 1 .. Len(m) PROVE IsRow(m[i]) /\ m[i].id = i /\ m[i].content \in Contents
  <2>1. CASE i \in 1 .. Len(a)
    BY <1>2, <2>1 DEF Continues, RowsTyped
  <2>2. CASE i \in Len(a) + 1 .. Len(b) /\ i \in 1 .. Len(b)
    BY <1>2, <2>2 DEF RowsTyped
  <2>3. QED
    BY <1>1, <1>2, <2>1, <2>2
<1>4. QED
  BY <1>1, <1>2, <1>3 DEF RowsTyped

LEMMA ImportedIs ==
  ASSUME NEW l \in Legacies, NEW d, NEW whole, StoreOK(d, l, whole), NEW f, FileOK(f, l),
         NEW e, e = Imported(d, f), Keeps(e), NEW v, ~v
  PROVE  StoreOK(e, l, v) /\ Lasts(d, e) /\ e.token = d.token
<1>1. FileOK(d, l) /\ d = [events |-> d.events, approvals |-> d.approvals, checks |-> d.checks, token |-> d.token]
  BY DEF StoreOK
<1>2. PICK m : m = Merged(d.events, f.events)
  OBVIOUS
<1>3. PICK n : n = Logged(m, "snapshot_imported", Text("snapshot"), NoRole)
  OBVIOUS
<1>4. PICK a : a = Merged(d.approvals, f.approvals)
  OBVIOUS
<1>5. PICK k : k = Merged(d.checks, f.checks)
  OBVIOUS
<1>6. e = [events |-> n, approvals |-> a, checks |-> k, token |-> d.token]
  <2>1. e = [d EXCEPT !.events = n, !.approvals = a, !.checks = k]
    BY <1>2, <1>3, <1>4, <1>5 DEF Imported
  <2>2. QED
    BY <1>1, <2>1
<1>7. e.events = n /\ e.approvals = a /\ e.checks = k /\ e.token = d.token
  BY <1>6
<1>8. AList(d.events) /\ AList(f.events)
  BY <1>1, FileIs
<1>9. AList(m) /\ Continues(d.events, m)
  BY <1>2, <1>8, MergedIs
<1>10. Continues(m, n)
  BY <1>3, <1>9, LoggedContinues
<1>11. m = d.events \/ m = f.events
  <2>1. ChainOK(n)
    BY <1>7 DEF Keeps
  <2>2. QED
    BY <1>1, <1>2, <1>10, <2>1, MergeIsOne DEF FileOK
<1>12. ATrail(m, l)
  BY <1>1, <1>11 DEF FileOK
<1>13. Plain("snapshot_imported", Text("snapshot")) /\ NoRole \in Roles
  BY AuditAssumption DEF Plain
<1>14. ATrail(n, l) /\ Adds(m, n, "snapshot_imported", Text("snapshot"))
  BY <1>3, <1>12, <1>13, PlainLogged
<1>15. /\ RowsTyped(a) /\ Continues(d.approvals, a) /\ Len(a) >= Len(d.approvals)
       /\ Len(a) >= Len(f.approvals) /\ Len(a) \in Nat
  BY <1>1, <1>4, RowsMerged DEF FileOK
<1>16. /\ RowsTyped(k) /\ Continues(d.checks, k) /\ Len(k) >= Len(d.checks)
       /\ Len(k) >= Len(f.checks) /\ Len(k) \in Nat
  BY <1>1, <1>5, RowsMerged DEF FileOK
<1>17. Below(n, Len(a), Len(k))
  <2>1. SaidIn(n, "seal_watermark") = SaidIn(m, "seal_watermark")
    <3>1. "seal_watermark" # Marker
      BY DEF Marker
    <3>2. QED
      BY <1>14, <3>1, SaidElse
  <2>2. /\ Below(d.events, Len(d.approvals), Len(d.checks))
        /\ Below(f.events, Len(f.approvals), Len(f.checks))
        /\ Len(d.approvals) \in Nat /\ Len(d.checks) \in Nat /\ Len(f.approvals) \in Nat
        /\ Len(f.checks) \in Nat
    BY <1>1, FileIs DEF FileOK
  <2>3. Below(m, Len(a), Len(k))
    <3>1. CASE m = d.events
      BY <1>15, <1>16, <2>2, <3>1 DEF Below
    <3>2. CASE m = f.events
      BY <1>15, <1>16, <2>2, <3>2 DEF Below
    <3>3. QED
      BY <1>11, <3>1, <3>2
  <2>4. QED
    BY <2>1, <2>3 DEF Below
<1>18. StoreOK(e, l, v)
  BY <1>6, <1>7, <1>14, <1>15, <1>16, <1>17 DEF StoreOK, FileOK
<1>19. Lasts(d, e)
  <2>1. Continues(d.events, n)
    BY <1>9, <1>10, ContinuesOn
  <2>2. QED
    BY <1>7, <1>15, <1>16, <2>1 DEF Lasts
<1>20. QED
  BY <1>7, <1>18, <1>19

-----------------------------------------------------------------------------
(* What is done to an event is found.                                      *)

LEMMA RemovedIs ==
  ASSUME NEW s, AList(s), NEW i \in 1 .. Len(s), NEW r, r = RemoveAt(s, i)
  PROVE  /\ AList(r) /\ Len(r) = Len(s) - 1 /\ Len(s) \in Nat
         /\ \A j \in 1 .. i - 1 : r[j] = s[j]
         /\ \A j \in i .. Len(s) - 1 : r[j] = s[j + 1]
<1>1. Len(s) \in Nat /\ i \in Nat /\ i >= 1 /\ i <= Len(s)
  BY ListIs
<1>2. PICK a : a = SubSeq(s, 1, i - 1)
  OBVIOUS
<1>3. AList(a) /\ Len(a) = i - 1 /\ \A j \in 1 .. i - 1 : a[j] = s[j]
  <2>1. i - 1 \in Nat /\ i - 1 <= Len(s)
    BY <1>1
  <2>2. QED
    BY <1>2, <2>1, Prefix
<1>4. PICK b : b = SubSeq(s, i + 1, Len(s))
  OBVIOUS
<1>5. AList(b) /\ Len(b) = Len(s) - i /\ \A j \in 1 .. Len(s) - i : b[j] = s[i + j]
  <2>1. i + 1 \in Nat /\ i + 1 >= 1 /\ i + 1 <= Len(s) + 1 /\ Len(s) <= Len(s)
    BY <1>1
  <2>2. /\ AList(b) /\ Len(b) = Len(s) + 1 - (i + 1)
        /\ \A j \in 1 .. (Len(s) + 1 - (i + 1)) : b[j] = s[(i + 1) + j - 1]
    BY <1>1, <1>4, <2>1, PartOf
  <2>3. Len(s) + 1 - (i + 1) = Len(s) - i /\ \A j \in Nat : (i + 1) + j - 1 = i + j
    BY <1>1
  <2>4. \A j \in 1 .. Len(s) - i : b[j] = s[i + j]
    BY <2>2, <2>3
  <2>5. QED
    BY <2>2, <2>3, <2>4
<1>6. r = a \o b
  BY <1>2, <1>4 DEF RemoveAt
<1>7. /\ AList(r) /\ Len(r) = Len(a) + Len(b)
      /\ \A j \in 1 .. Len(a) : r[j] = a[j]
      /\ \A j \in 1 .. Len(b) : r[Len(a) + j] = b[j]
  <2>1. /\ AList(a \o b) /\ Len(a \o b) = Len(a) + Len(b)
        /\ \A j \in 1 .. Len(a) : (a \o b)[j] = a[j]
        /\ \A j \in 1 .. Len(b) : (a \o b)[Len(a) + j] = b[j]
    <3>1. AList(a) /\ AList(b)
      BY <1>3, <1>5
    <3>2. QED
      BY <3>1, Joined
  <2>2. QED
    BY <1>6, <2>1
<1>8. ASSUME NEW j \in i .. Len(s) - 1 PROVE r[j] = s[j + 1]
  <2>1. PICK k : k = j - (i - 1)
    OBVIOUS
  <2>2. k \in 1 .. Len(b) /\ Len(a) + k = j /\ i + k = j + 1 /\ k \in 1 .. Len(s) - i
    BY <1>1, <1>3, <1>5, <2>1
  <2>3. QED
    BY <1>5, <1>7, <2>2
<1>9. QED
  BY <1>1, <1>3, <1>5, <1>7, <1>8

\* The hash that the chain finds before event i of a trail unchanged so far.
LEMMA PrevUnchanged ==
  ASSUME NEW l \in Legacies, NEW es, Trail(es, l), NEW i \in 1 .. Len(es),
         NEW r, AList(r), i - 1 <= Len(r), \A j \in 1 .. i - 1 : r[j] = es[j]
  PROVE  HashOf(SubSeq(r, 1, i - 1)) = HashAt(es, l, i - 1)
<1>1. Len(es) \in Nat /\ l.u \in Nat /\ i - 1 \in Nat /\ i \in Nat
  BY TrailIs
<1>2. CASE i = 1
  <2>1. HashAt(es, l, 0) = NoHash
    BY <1>1, HashIsList DEF NoHash
  <2>2. i - 1 = 0
    BY <1>2
  <2>3. QED
    BY <1>1, <2>1, <2>2, PrevIs
<1>3. CASE i # 1
  <2>1. i - 1 \in 1 .. Len(es) /\ i - 1 \in 1 .. i - 1 /\ i - 1 # 0
    BY <1>1, <1>3
  <2>2. r[i - 1] = es[i - 1] /\ es[i - 1].hash = HashAt(es, l, i - 1)
    BY <2>1, MarkerSplits
  <2>3. QED
    BY <1>1, <2>1, <2>2, PrevIs
<1>4. QED
  BY <1>2, <1>3

\* One event changed, but not its type, its id nor its hash.
Differ(es, r, i) ==
  /\ AList(r) /\ Len(r) = Len(es) /\ \A j \in 1 .. Len(es) : j # i => r[j] = es[j]
  /\ r[i].type = es[i].type /\ r[i].hash = es[i].hash /\ r[i].id = es[i].id

\* An event with a hash, changed, must be covered by it as before.
LEMMA CoveredAsBefore ==
  ASSUME NEW l \in Legacies, NEW es, Trail(es, l), NEW i \in 1 .. Len(es), es[i].hash # NoHash,
         NEW r, Differ(es, r, i), ChainOK(r)
  PROVE  r[i].msg = es[i].msg /\ (i > l.c + 1 => r[i].role = es[i].role)
<1> USE DEF Differ
<1>1. /\ Len(es) \in Nat /\ l.u \in Nat /\ l.c \in Nat /\ l.u <= l.c /\ i \in Nat /\ i - 1 <= Len(r)
      /\ DOMAIN r = 1 .. Len(r) /\ AList(r) /\ r[i].hash = es[i].hash
      /\ \A j \in 1 .. i - 1 : r[j] = es[j]
  <2>1. Len(es) \in Nat /\ l.u \in Nat /\ l.c \in Nat /\ l.u <= l.c /\ DOMAIN r = 1 .. Len(r)
    BY TrailIs, ListIs
  <2>2. QED
    BY <2>1
<1>2. PICK h : h = HashAt(es, l, i - 1)
  OBVIOUS
<1>3. HashOf(SubSeq(r, 1, i - 1)) = h
  BY <1>1, <1>2, PrevUnchanged
<1>4. r[i].hash = Hash(h, r[i], CoversRole(r, i))
  BY <1>1, <1>3 DEF ChainOK
<1>5. CoversRole(r, i) <=> CoversRole(es, i)
  BY <1>1 DEF CoversRole
<1>6. CoversRole(r, i) <=> i > l.c + 1
  BY <1>5, CoversRoleIs
<1>7. Hash(h, r[i], CoversRole(r, i)) = Append(h, Covers(r[i], i > l.c + 1))
  <2>1. CASE i > l.c + 1
    BY <1>6, <2>1 DEF Hash, Covers
  <2>2. CASE ~(i > l.c + 1)
    BY <1>6, <2>2 DEF Hash, Covers
  <2>3. QED
    BY <2>1, <2>2
<1>8. es[i].hash = Append(h, Covers(es[i], i > l.c + 1))
  <2>1. ~(i <= l.u) /\ es[i].hash = HashAt(es, l, i)
    BY MarkerSplits
  <2>2. i - 1 \in Nat /\ i - 1 >= l.u /\ (i - 1) + 1 = i
    BY <1>1, <2>1
  <2>3. HashAt(es, l, i) = Append(HashAt(es, l, i - 1), Covers(es[i], i > l.c + 1))
    BY <2>2, HashNext
  <2>4. QED
    BY <1>2, <2>1, <2>3
<1>9. PICK x : x = Covers(r[i], i > l.c + 1)
  OBVIOUS
<1>10. PICK y : y = Covers(es[i], i > l.c + 1)
  OBVIOUS
<1>11. Append(h, x) = Append(h, y)
  BY <1>1, <1>4, <1>7, <1>8, <1>9, <1>10
<1>12. AList(h)
  <2>1. i - 1 \in Int
    BY <1>1
  <2>2. QED
    BY <1>2, <2>1, HashIsList
<1>13. Append(h, x)[Len(h) + 1] = x /\ Append(h, y)[Len(h) + 1] = y
  BY <1>12, Appended
<1>14. Covers(r[i], i > l.c + 1) = Covers(es[i], i > l.c + 1)
  BY <1>9, <1>10, <1>11, <1>13
<1>15. CASE i > l.c + 1
  <2>1. <<r[i].type, r[i].msg, r[i].role>> = <<es[i].type, es[i].msg, es[i].role>>
    BY <1>14, <1>15 DEF Covers
  <2>2. QED
    BY <2>1
<1>16. CASE ~(i > l.c + 1)
  <2>1. <<r[i].type, r[i].msg>> = <<es[i].type, es[i].msg>>
    BY <1>14, <1>16 DEF Covers
  <2>2. QED
    BY <1>16, <2>1
<1>17. QED
  BY <1>15, <1>16

\* An attested trail has what its attestation speaks of.
LEMMA AttestedIs ==
  ASSUME NEW l \in Legacies, NEW es, Trail(es, l), Has(es, "legacy_attested")
  PROVE  /\ \E k \in 1 .. Len(es) : k > l.c + 1 /\ es[k].type = "legacy_attested"
         /\ \A k \in 1 .. Len(es) : es[k].type = "legacy_attested" => k > l.c + 1 /\ es[k].msg = OldAttestation(l)
<1>1. DOMAIN es = 1 .. Len(es) /\ "legacy_attested" # "note" /\ "legacy_attested" # Marker
  BY TrailIs DEF Marker
<1>2. \A k \in 1 .. Len(es) : es[k].type = "legacy_attested" => k > l.c + 1 /\ es[k].msg = OldAttestation(l)
  BY <1>1, SaidAfterMarker DEF Says
<1>3. QED
  BY <1>1, <1>2 DEF Has

\* An event before the marker of an attested trail must be attested as before.
LEMMA AttestedAsBefore ==
  ASSUME NEW l \in Legacies, NEW es, Trail(es, l), Has(es, "legacy_attested"),
         NEW i \in 1 .. Len(es), i <= l.c,
         NEW r, Differ(es, r, i), TrailOK(r)
  PROVE  Attests(r[i]) = Attests(es[i])
<1>1. /\ Len(es) \in Nat /\ l.c \in Nat /\ DOMAIN r = 1 .. Len(r) /\ AList(es)
      /\ AList(r) /\ Len(r) = Len(es) /\ \A j \in 1 .. Len(es) : j # i => r[j] = es[j]
      /\ r[i].type = es[i].type
  BY TrailIs, ListIs DEF Differ
<1>2. PICK k \in 1 .. Len(es) : k > l.c + 1 /\ es[k].type = "legacy_attested"
  BY AttestedIs
<1>3. k # i /\ l.c < Len(es) /\ l.c + 1 \in 1 .. Len(es) /\ l.c + 1 # i
  BY <1>1, <1>2
<1>4. Has(r, "legacy_attested")
  BY <1>1, <1>2, <1>3 DEF Has
<1>5. es[i].type = "note"
  <2>1. Link(es, l, i)
    BY DEF Trail
  <2>2. QED
    BY <2>1 DEF Link
<1>6. \A j \in 1 .. Len(r) : r[j].type = "legacy_attested" => r[j].msg = OldAttestation(l)
  <2>1. SUFFICES ASSUME NEW j \in 1 .. Len(es), r[j].type = "legacy_attested" PROVE r[j].msg = OldAttestation(l)
    BY <1>1
  <2>2. j # i /\ r[j] = es[j]
    BY <1>1, <1>5, <2>1
  <2>3. QED
    BY <2>1, <2>2, AttestedIs
<1>7. FirstEvent(r, "legacy_attested").msg = OldAttestation(l)
  BY <1>1, <1>4, <1>6, FirstAttested
<1>8. ASSUME NEW j \in 1 .. l.c PROVE ~IsMarker(r[j]) /\ ~IsMarker(es[j])
  <2>1. j \in 1 .. Len(es) /\ j # l.c + 1
    BY <1>1, <1>3
  <2>2. ~IsMarker(es[j])
    BY <2>1, MarkerSplits
  <2>3. CASE j = i
    BY <1>1, <1>5, <2>2, <2>3 DEF IsMarker, Marker
  <2>4. CASE j # i
    BY <1>1, <2>1, <2>2, <2>4
  <2>5. QED
    BY <2>2, <2>3, <2>4
<1>9. IsMarker(r[l.c + 1]) /\ IsMarker(es[l.c + 1])
  <2>1. IsMarker(es[l.c + 1])
    BY <1>3, MarkerSplits
  <2>2. QED
    BY <1>1, <1>3, <2>1
<1>10. Attestation(r) = [marker |-> r[l.c + 1].id, digest |-> [j \in 1 .. l.c |-> Attests(r[j])]]
  BY <1>1, <1>3, <1>8, <1>9, AttestationIs
<1>11. Attestation(es) = [marker |-> es[l.c + 1].id, digest |-> [j \in 1 .. l.c |-> Attests(es[j])]]
  BY <1>1, <1>3, <1>8, <1>9, AttestationIs
<1>12. Attestation(r) = Attestation(es)
  <2>1. Attestation(es) = OldAttestation(l)
    BY <1>1, <1>3, TrailAttested
  <2>2. Attestation(r) = FirstEvent(r, "legacy_attested").msg
    BY <1>4 DEF TrailOK, AttestationHolds
  <2>3. QED
    BY <1>7, <2>1, <2>2
<1>13. [j \in 1 .. l.c |-> Attests(r[j])] = [j \in 1 .. l.c |-> Attests(es[j])]
  BY <1>10, <1>11, <1>12
<1>14. i \in 1 .. l.c
  BY <1>1
<1>15. QED
  BY <1>13, <1>14

TextChanged(es, i, x, r) == r = [es EXCEPT ![i].msg = x]
RoleChanged(es, i, x, r) == r = [es EXCEPT ![i].role = x]

LEMMA AlteredIs ==
  ASSUME NEW l \in Legacies, NEW es, Trail(es, l), NEW i \in 1 .. Len(es), NEW x, NEW r
  PROVE  /\ TextChanged(es, i, x, r) => Differ(es, r, i) /\ r[i].msg = x /\ r[i].role = es[i].role
         /\ RoleChanged(es, i, x, r) => Differ(es, r, i) /\ r[i].role = x /\ r[i].msg = es[i].msg
<1>1. Len(es) \in Nat /\ es = [j \in 1 .. Len(es) |-> es[j]]
  BY TrailIs, ListIs
<1>2. es[i] = [id |-> i, type |-> es[i].type, msg |-> es[i].msg, role |-> es[i].role,
               prev |-> HashAt(es, l, i - 1), hash |-> HashAt(es, l, i)]
  <2>1. Link(es, l, i)
    BY DEF Trail
  <2>2. QED
    BY <2>1 DEF Link
<1>3. ASSUME TextChanged(es, i, x, r)
      PROVE Differ(es, r, i) /\ r[i].msg = x /\ r[i].role = es[i].role
  <2>1. /\ r = [j \in 1 .. Len(es) |-> r[j]] /\ \A j \in 1 .. Len(es) : j # i => r[j] = es[j]
        /\ r[i] = [es[i] EXCEPT !.msg = x]
    BY <1>1, <1>3 DEF TextChanged
  <2>2. AList(r) /\ Len(r) = Len(es)
    BY <1>1, <2>1, FunctionIsList
  <2>3. r[i] = [id |-> i, type |-> es[i].type, msg |-> x, role |-> es[i].role,
                prev |-> HashAt(es, l, i - 1), hash |-> HashAt(es, l, i)]
    BY <1>2, <2>1
  <2>4. r[i].type = es[i].type /\ r[i].hash = es[i].hash /\ r[i].id = es[i].id /\ r[i].msg = x /\ r[i].role = es[i].role
    BY <1>2, <2>3
  <2>5. QED
    BY <2>1, <2>2, <2>4 DEF Differ
<1>4. ASSUME RoleChanged(es, i, x, r)
      PROVE Differ(es, r, i) /\ r[i].role = x /\ r[i].msg = es[i].msg
  <2>1. /\ r = [j \in 1 .. Len(es) |-> r[j]] /\ \A j \in 1 .. Len(es) : j # i => r[j] = es[j]
        /\ r[i] = [es[i] EXCEPT !.role = x]
    BY <1>1, <1>4 DEF RoleChanged
  <2>2. AList(r) /\ Len(r) = Len(es)
    BY <1>1, <2>1, FunctionIsList
  <2>3. r[i] = [id |-> i, type |-> es[i].type, msg |-> es[i].msg, role |-> x,
                prev |-> HashAt(es, l, i - 1), hash |-> HashAt(es, l, i)]
    BY <1>2, <2>1
  <2>4. r[i].type = es[i].type /\ r[i].hash = es[i].hash /\ r[i].id = es[i].id /\ r[i].role = x /\ r[i].msg = es[i].msg
    BY <1>2, <2>3
  <2>5. QED
    BY <2>1, <2>2, <2>4 DEF Differ
<1>5. QED
  BY <1>3, <1>4

\* An event dropped from before the last breaks the chain, or the attestation.
LEMMA DroppedIsFound ==
  ASSUME NEW l \in Legacies, NEW es, Trail(es, l), NEW i \in 1 .. Len(es), i < Len(es),
         es[i].hash # NoHash \/ Has(es, "legacy_attested"),
         NEW r, r = RemoveAt(es, i)
  PROVE  ~TrailOK(r)
<1> SUFFICES ASSUME TrailOK(r) PROVE FALSE
  OBVIOUS
<1>1. /\ AList(es) /\ Len(es) \in Nat /\ l.u \in Nat /\ l.c \in Nat /\ l.u <= l.c
      /\ i \in Nat /\ i >= 1
  BY TrailIs
<1>2. /\ AList(r) /\ Len(r) = Len(es) - 1
      /\ \A j \in 1 .. i - 1 : r[j] = es[j]
      /\ \A j \in i .. Len(es) - 1 : r[j] = es[j + 1]
  BY <1>1, RemovedIs
<1>3. DOMAIN r = 1 .. Len(es) - 1
  BY <1>2, ListIs
<1>4. CASE es[i].hash # NoHash
  <2>1. i > l.u
    BY <1>1, <1>4, MarkerSplits
  <2>2. i + 1 \in 1 .. Len(es) /\ (i + 1) - 1 = i /\ ~(i + 1 <= l.u)
    BY <1>1, <2>1
  <2>3. es[i + 1].hash # NoHash /\ es[i + 1].prev = HashAt(es, l, i)
    BY <2>2, MarkerSplits
  <2>4. i \in 1 .. Len(es) - 1 /\ i \in i .. Len(es) - 1 /\ i - 1 <= Len(r)
    BY <1>1, <1>2
  <2>5. r[i] = es[i + 1]
    BY <1>2, <2>4
  <2>6. HashOf(SubSeq(r, 1, i - 1)) = HashAt(es, l, i - 1)
    BY <1>2, <2>4, PrevUnchanged
  <2>7. r[i].prev = HashAt(es, l, i - 1)
    BY <1>3, <2>3, <2>4, <2>5, <2>6 DEF TrailOK, ChainOK
  <2>8. Len(HashAt(es, l, i)) = i - l.u /\ Len(HashAt(es, l, i - 1)) = i - 1 - l.u
    <3>1. i \in Int /\ i - 1 \in Int /\ i >= l.u /\ i - 1 >= l.u
      BY <1>1, <2>1
    <3>2. QED
      BY <3>1, HashIsList
  <2>9. i - l.u # i - 1 - l.u
    BY <1>1
  <2>10. QED
    BY <2>3, <2>5, <2>7, <2>8, <2>9
<1>5. CASE es[i].hash = NoHash
  <2>1. i <= l.u /\ Has(es, "legacy_attested")
    BY <1>5, MarkerSplits
  <2>2. PICK k \in 1 .. Len(es) : k > l.c + 1 /\ es[k].type = "legacy_attested"
    BY <2>1, AttestedIs
  <2>3. l.c - 1 \in Nat /\ l.c - 1 < Len(r) /\ k - 1 \in i .. Len(es) - 1 /\ (k - 1) + 1 = k /\ (l.c - 1) + 1 = l.c
    BY <1>1, <1>2, <2>1, <2>2
  <2>4. r[k - 1] = es[k] /\ k - 1 \in DOMAIN r
    BY <1>1, <1>2, <1>3, <2>3
  <2>5. Has(r, "legacy_attested")
    BY <2>2, <2>4 DEF Has
  <2>6. \A j \in 1 .. Len(r) : r[j].type = "legacy_attested" => r[j].msg = OldAttestation(l)
    <3>1. SUFFICES ASSUME NEW j \in 1 .. Len(r), r[j].type = "legacy_attested" PROVE r[j].msg = OldAttestation(l)
      OBVIOUS
    <3>2. \/ j \in 1 .. i - 1 /\ j \in 1 .. Len(es)
          \/ j \in i .. Len(es) - 1 /\ j + 1 \in 1 .. Len(es)
      BY <1>1, <1>2
    <3>3. \E m \in 1 .. Len(es) : r[j] = es[m]
      BY <1>2, <3>2
    <3>4. QED
      BY <2>1, <3>1, <3>3, AttestedIs
  <2>7. FirstEvent(r, "legacy_attested").msg = OldAttestation(l)
    BY <1>2, <2>5, <2>6, FirstAttested
  <2>8. \A j \in 1 .. l.c - 1 : ~IsMarker(r[j])
    <3>1. SUFFICES ASSUME NEW j \in 1 .. l.c - 1 PROVE ~IsMarker(r[j])
      OBVIOUS
    <3>2. \/ j \in 1 .. i - 1 /\ j \in 1 .. Len(es) /\ j # l.c + 1
          \/ j \in i .. Len(es) - 1 /\ j + 1 \in 1 .. Len(es) /\ j + 1 # l.c + 1
      BY <1>1, <2>2
    <3>3. \E m \in 1 .. Len(es) : r[j] = es[m] /\ m # l.c + 1
      BY <1>2, <3>2
    <3>4. QED
      BY <3>3, MarkerSplits
  <2>9. IsMarker(r[(l.c - 1) + 1])
    <3>1. l.c \in i .. Len(es) - 1 /\ l.c + 1 \in 1 .. Len(es)
      BY <1>1, <2>1, <2>2
    <3>2. r[l.c] = es[l.c + 1]
      BY <1>2, <3>1
    <3>3. IsMarker(es[l.c + 1])
      BY <3>1, MarkerSplits
    <3>4. QED
      BY <2>3, <3>2, <3>3
  <2>10. PICK a : a = [j \in 1 .. l.c - 1 |-> Attests(r[j])]
    OBVIOUS
  <2>11. Attestation(r) = [marker |-> r[(l.c - 1) + 1].id, digest |-> a]
    <3>1. PICK c \in Nat : c = l.c - 1
      BY <2>3
    <3>2. AList(r) /\ c < Len(r) /\ (\A j \in 1 .. c : ~IsMarker(r[j])) /\ IsMarker(r[c + 1])
      BY <1>2, <2>3, <2>8, <2>9, <3>1
    <3>3. Attestation(r) = [marker |-> r[c + 1].id, digest |-> [j \in 1 .. c |-> Attests(r[j])]]
      BY <3>2, AttestationIs
    <3>4. QED
      BY <2>10, <3>1, <3>3
  <2>12. Attestation(r) = OldAttestation(l)
    BY <2>5, <2>7 DEF TrailOK, AttestationHolds
  <2>13. DOMAIN a = 1 .. l.c - 1 /\ DOMAIN OldAttestation(l).digest = 1 .. l.c
    BY <2>10 DEF OldAttestation
  <2>14. a = OldAttestation(l).digest
    BY <2>11, <2>12
  <2>15. l.c \in 1 .. l.c /\ l.c \notin 1 .. l.c - 1
    BY <1>1, <2>1
  <2>16. QED
    BY <2>13, <2>14, <2>15
<1>6. QED
  BY <1>4, <1>5

\* A changed text breaks the hash that covers it, or the attestation.
LEMMA AlteredTextIsFound ==
  ASSUME NEW l \in Legacies, NEW es, Trail(es, l), NEW i \in 1 .. Len(es),
         es[i].hash # NoHash \/ Has(es, "legacy_attested"),
         NEW x, x = Text("altered"), NEW r, TextChanged(es, i, x, r)
  PROVE  ~TrailOK(r)
<1> SUFFICES ASSUME TrailOK(r) PROVE FALSE
  OBVIOUS
<1>1. /\ Len(es) \in Nat /\ l.u \in Nat /\ l.c \in Nat /\ l.u <= l.c /\ i \in Nat
  BY TrailIs
<1>2. Differ(es, r, i) /\ r[i].msg = Text("altered")
  BY AlteredIs
<1>3. es[i].msg # Text("altered")
  <2>1. Link(es, l, i)
    BY DEF Trail
  <2>2. QED
    BY <2>1 DEF Link, Says
<1>4. CASE es[i].hash # NoHash
  <2>1. ChainOK(r)
    BY DEF TrailOK
  <2>2. r[i].msg = es[i].msg
    BY <1>2, <1>4, <2>1, CoveredAsBefore
  <2>3. QED
    BY <1>2, <1>3, <2>2
<1>5. CASE es[i].hash = NoHash
  <2>1. i <= l.c /\ Has(es, "legacy_attested")
    <3>1. i <= l.u
      BY <1>5, MarkerSplits
    <3>2. QED
      BY <1>1, <1>5, <3>1
  <2>2. Attests(r[i]) = Attests(es[i])
    BY <1>2, <2>1, AttestedAsBefore
  <2>3. <<r[i].id, r[i].role, r[i].type, r[i].msg>> = <<es[i].id, es[i].role, es[i].type, es[i].msg>>
    BY <1>2, <1>5, <2>2 DEF Attests, Differ
  <2>4. QED
    BY <1>2, <1>3, <2>3
<1>6. QED
  BY <1>4, <1>5

\* A changed role breaks the hash past the marker, the attestation before it.
LEMMA AlteredRoleIsFound ==
  ASSUME NEW l \in Legacies, NEW es, Trail(es, l), NEW i \in 1 .. Len(es),
         CoversRole(es, i) \/ (Has(es, "legacy_attested") /\ ~IsMarker(es[i])),
         NEW x, x = "altered", NEW r, RoleChanged(es, i, x, r)
  PROVE  ~TrailOK(r)
<1> SUFFICES ASSUME TrailOK(r) PROVE FALSE
  OBVIOUS
<1>1. /\ Len(es) \in Nat /\ l.u \in Nat /\ l.c \in Nat /\ l.u <= l.c /\ i \in Nat
  BY TrailIs
<1>2. Differ(es, r, i) /\ r[i].role = "altered"
  BY AlteredIs
<1>3. es[i].role # "altered"
  BY MarkerSplits, AuditAssumption
<1>4. CASE i > l.c + 1
  <2>1. ChainOK(r)
    BY DEF TrailOK
  <2>2. es[i].hash # NoHash
    <3>1. ~(i <= l.u)
      BY <1>1, <1>4
    <3>2. QED
      BY <3>1, MarkerSplits
  <2>3. r[i].role = es[i].role
    BY <1>2, <1>4, <2>1, <2>2, CoveredAsBefore
  <2>4. QED
    BY <1>2, <1>3, <2>3
<1>5. CASE ~(i > l.c + 1)
  <2>1. ~CoversRole(es, i)
    BY <1>5, CoversRoleIs
  <2>2. Has(es, "legacy_attested") /\ i # l.c + 1
    BY <2>1, MarkerSplits
  <2>3. i <= l.c
    BY <1>1, <1>5, <2>2
  <2>4. Attests(r[i]) = Attests(es[i])
    BY <1>2, <2>2, <2>3, AttestedAsBefore
  <2>5. r[i].role = es[i].role
    <3>1. CASE es[i].hash = NoHash
      <4>1. <<r[i].id, r[i].role, r[i].type, r[i].msg>> = <<es[i].id, es[i].role, es[i].type, es[i].msg>>
        BY <1>2, <2>4, <3>1 DEF Attests, Differ
      <4>2. QED
        BY <4>1
    <3>2. CASE es[i].hash # NoHash
      <4>1. <<r[i].id, r[i].role>> = <<es[i].id, es[i].role>>
        BY <1>2, <2>4, <3>2 DEF Attests, Differ
      <4>2. QED
        BY <4>1
    <3>3. QED
      BY <3>1, <3>2
  <2>6. QED
    BY <1>2, <1>3, <2>5
<1>6. QED
  BY <1>4, <1>5

LEMMA EventChangesAreFound ==
  ASSUME NEW l \in Legacies, NEW d, NEW whole, StoreOK(d, l, whole)
  PROVE  \A es \in EventChanges(d) : ~TrailOK(es)
<1>1. PICK h \in Legacies : Trail(d.events, h)
  BY NoLegacyIs DEF StoreOK, FileOK, ATrail
<1>2. DOMAIN d.events = 1 .. Len(d.events)
  BY <1>1, TrailIs
<1>3. ASSUME NEW i \in 1 .. Len(d.events), i < Len(d.events), d.events[i].hash # NoHash \/ Attested(d)
      PROVE  ~TrailOK(RemoveAt(d.events, i))
  <2>1. PICK r : r = RemoveAt(d.events, i)
    OBVIOUS
  <2>2. PICK t : t = d.events
    OBVIOUS
  <2>3. /\ Trail(t, h) /\ i \in 1 .. Len(t) /\ i < Len(t) /\ r = RemoveAt(t, i)
        /\ t[i].hash # NoHash \/ Has(t, "legacy_attested")
    BY <1>1, <1>3, <2>1, <2>2 DEF Attested
  <2>4. ~TrailOK(r)
    BY <2>3, DroppedIsFound
  <2>5. QED
    BY <2>1, <2>4
<1>4. ASSUME NEW i \in 1 .. Len(d.events), d.events[i].hash # NoHash \/ Attested(d)
      PROVE  ~TrailOK([d.events EXCEPT ![i].msg = Text("altered")])
  <2>1. PICK t : t = d.events
    OBVIOUS
  <2>2. PICK x : x = Text("altered")
    OBVIOUS
  <2>3. PICK r : r = [t EXCEPT ![i].msg = x]
    OBVIOUS
  <2>4. /\ Trail(t, h) /\ i \in 1 .. Len(t) /\ TextChanged(t, i, x, r)
        /\ t[i].hash # NoHash \/ Has(t, "legacy_attested")
    BY <1>1, <1>4, <2>1, <2>3 DEF Attested, TextChanged
  <2>5. ~TrailOK(r)
    <3> HIDE <2>3
    <3>1. QED
      BY <2>2, <2>4, AlteredTextIsFound
  <2>6. QED
    BY <2>1, <2>2, <2>3, <2>5
<1>5. ASSUME NEW i \in 1 .. Len(d.events),
             CoversRole(d.events, i) \/ (Attested(d) /\ ~IsMarker(d.events[i]))
      PROVE  ~TrailOK([d.events EXCEPT ![i].role = "altered"])
  <2>1. PICK t : t = d.events
    OBVIOUS
  <2>2. PICK x : x = "altered"
    OBVIOUS
  <2>3. PICK r : r = [t EXCEPT ![i].role = x]
    OBVIOUS
  <2>4. /\ Trail(t, h) /\ i \in 1 .. Len(t) /\ RoleChanged(t, i, x, r)
        /\ CoversRole(t, i) \/ (Has(t, "legacy_attested") /\ ~IsMarker(t[i]))
    BY <1>1, <1>5, <2>1, <2>3 DEF Attested, RoleChanged
  <2>5. ~TrailOK(r)
    <3> HIDE <2>3
    <3>1. QED
      BY <2>2, <2>4, AlteredRoleIsFound
  <2>6. QED
    BY <2>1, <2>2, <2>3, <2>5
<1>6. QED
  BY <1>2, <1>3, <1>4, <1>5 DEF EventChanges

-----------------------------------------------------------------------------
(* What is done to a record is found.                                      *)

LEMMA SealsAreDigests ==
  ASSUME NEW l \in Legacies, NEW es, ATrail(es, l)
  PROVE  SealsIn(es).of \subseteq Digests
<1>1. PICK h \in Legacies : Trail(es, h)
  BY NoLegacyIs DEF ATrail
<1>2. ASSUME NEW x \in SaidIn(es, "row_seal") PROVE x \in Digests
  <2>1. PICK i \in 1 .. Len(es) : es[i].type = "row_seal" /\ x = es[i].msg
    BY <1>1, TrailIs DEF SaidIn
  <2>2. PICK t : t = "row_seal"
    OBVIOUS
  <2>3. Says(es, i - 1, h, t, es[i].msg)
    BY <1>1, <2>1, <2>2, SaidAfterMarker DEF Marker
  <2>4. QED
    BY <2>1, <2>2, <2>3 DEF Says
<1>3. QED
  BY <1>2, SealsAre

LEMMA DroppedRowIsFound ==
  ASSUME NEW seals, NEW table, NEW rows, RowsTyped(rows), NEW i \in 1 .. Len(rows),
         Sealed(seals, table, rows[i].id), NEW r, r = RemoveAt(rows, i)
  PROVE  ~TableOK(seals, table, r)
<1> SUFFICES ASSUME TableOK(seals, table, r) PROVE FALSE
  OBVIOUS
<1>1. AList(rows) /\ \A j \in 1 .. Len(rows) : rows[j].id = j
  BY DEF RowsTyped
<1>2. /\ AList(r) /\ Len(r) = Len(rows) - 1 /\ Len(rows) \in Nat
      /\ \A j \in 1 .. i - 1 : r[j] = rows[j]
      /\ \A j \in i .. Len(rows) - 1 : r[j] = rows[j + 1]
  <2>1. AList(rows)
    BY <1>1
  <2>2. QED
    BY <2>1, RemovedIs, Zenon
<1>3. DOMAIN r = 1 .. Len(rows) - 1
  BY <1>2, ListIs
<1>4. PICK j \in DOMAIN r : r[j].id = i
  BY <1>1 DEF TableOK, NoneMissing, Sealed
<1>5. j \in 1 .. i - 1 \/ j \in i .. Len(rows) - 1
  BY <1>2, <1>3, <1>4
<1>6. CASE j \in 1 .. i - 1
  <2>1. r[j].id = j /\ j # i
    BY <1>1, <1>2, <1>6
  <2>2. QED
    BY <1>4, <2>1
<1>7. CASE j \in i .. Len(rows) - 1
  <2>1. j + 1 \in 1 .. Len(rows) /\ j + 1 # i
    BY <1>2, <1>7
  <2>2. r[j].id = j + 1
    BY <1>1, <1>2, <1>7, <2>1
  <2>3. QED
    BY <1>4, <2>1, <2>2
<1>8. QED
  BY <1>5, <1>6, <1>7

ContentChanged(rows, i, x, r) == r = [rows EXCEPT ![i].content = x]

LEMMA AlteredRowIs ==
  ASSUME NEW rows, AList(rows), NEW i \in 1 .. Len(rows), NEW x, NEW r,
         ContentChanged(rows, i, x, r),
         IsRow(rows[i])
  PROVE  i \in DOMAIN r /\ r[i].id = rows[i].id /\ r[i].content = x
<1>1. rows = [j \in 1 .. Len(rows) |-> rows[j]] /\ Len(rows) \in Nat
  BY ListIs
<1>2. DOMAIN r = 1 .. Len(rows) /\ r[i] = [rows[i] EXCEPT !.content = x]
  BY <1>1 DEF ContentChanged
<1>3. r[i] = [id |-> rows[i].id, content |-> x]
  BY <1>2 DEF IsRow
<1>4. QED
  BY <1>2, <1>3

LEMMA AlteredRowIsFound ==
  ASSUME NEW seals, seals.of \subseteq Digests, NEW table, NEW rows, RowsTyped(rows),
         NEW i \in 1 .. Len(rows),
         Sealed(seals, table, rows[i].id), NEW x, x \notin Contents, NEW r, ContentChanged(rows, i, x, r)
  PROVE  ~TableOK(seals, table, r)
<1> SUFFICES ASSUME TableOK(seals, table, r) PROVE FALSE
  OBVIOUS
<1>1. AList(rows) /\ IsRow(rows[i])
  BY DEF RowsTyped
<1>2. i \in DOMAIN r /\ r[i].id = rows[i].id /\ r[i].content = x
  BY <1>1, AlteredRowIs
<1>3. RowOK(seals, table, r[i]) /\ Sealed(seals, table, r[i].id)
  BY <1>2 DEF TableOK, RowsOK
<1>4. Digest(table, r[i]) \in Digests
  BY <1>3 DEF RowOK
<1>5. PICK y : y = Digest(table, r[i])
  OBVIOUS
<1>6. y.content = x
  BY <1>2, <1>5 DEF Digest
<1>7. y.content \in Contents
  BY <1>4, <1>5 DEF Digests
<1>8. QED
  BY <1>6, <1>7

\* No seal can be expected of a row that was there before them.
LEMMA AddedRowIsFound ==
  ASSUME NEW seals, NEW table, NEW rows, RowsTyped(rows), TableOK(seals, table, rows),
         NEW c \in Contents,
         seals.resealed \/ \E line \in seals.lines : line[table] \in 0 .. Len(rows),
         NEW r, r = Append(rows, [id |-> Len(rows) + 1, content |-> c])
  PROVE  ~TableOK(seals, table, r)
<1> SUFFICES ASSUME TableOK(seals, table, r) PROVE FALSE
  OBVIOUS
<1>1. /\ RowsTyped(r) /\ Len(r) = Len(rows) + 1 /\ Len(rows) \in Nat
      /\ r[Len(rows) + 1] = [id |-> Len(rows) + 1, content |-> c]
  BY RowsAppended
<1>2. DOMAIN r = 1 .. Len(r) /\ DOMAIN rows = 1 .. Len(rows) /\ \A i \in 1 .. Len(rows) : rows[i].id = i
  BY <1>1, ListIs DEF RowsTyped
<1>3. PICK k : k = Len(rows) + 1
  OBVIOUS
<1>4. k \in DOMAIN r /\ r[k].id = k /\ \A i \in 1 .. Len(rows) : rows[i].id # k
  BY <1>1, <1>2, <1>3
<1>5. ~Sealed(seals, table, k)
  BY <1>2, <1>4 DEF TableOK, NoneMissing, Sealed
<1>6. MayLackSeal(seals, table, k)
  <2>1. RowOK(seals, table, r[k])
    BY <1>4 DEF TableOK, RowsOK
  <2>2. QED
    BY <1>4, <1>5, <2>1 DEF RowOK
<1>7. PICK line \in seals.lines : line[table] \in 0 .. Len(rows)
  BY <1>6 DEF MayLackSeal
<1>8. k <= line[table]
  BY <1>6, <1>7 DEF MayLackSeal
<1>9. QED
  BY <1>1, <1>3, <1>7, <1>8

LEMMA RowChangesAreFound ==
  ASSUME NEW l \in Legacies, NEW d, NEW whole, StoreOK(d, l, whole), NEW table \in Tables,
         TableOK(SealsIn(d.events), table, d[table])
  PROVE  \A rows \in RowChanges(d, table) : ~TableOK(SealsIn(d.events), table, rows)
<1>1. PICK seals : seals = SealsIn(d.events)
  OBVIOUS
<1>2. PICK t : t = d[table]
  OBVIOUS
<1>3. ATrail(d.events, l)
  BY DEF StoreOK, FileOK
<1>4. RowsTyped(t) /\ TableOK(seals, table, t)
  <2>1. RowsTyped(d.approvals) /\ RowsTyped(d.checks)
    BY DEF StoreOK, FileOK
  <2>2. QED
    BY <1>1, <1>2, <2>1 DEF Tables
<1>5. DOMAIN t = 1 .. Len(t)
  BY <1>4, ListIs DEF RowsTyped
<1>6. seals.of \subseteq Digests
  BY <1>1, <1>3, SealsAreDigests
<1>7. ASSUME NEW i \in 1 .. Len(t), Sealed(seals, table, t[i].id)
      PROVE  ~TableOK(seals, table, RemoveAt(t, i))
  <2>1. PICK r : r = RemoveAt(t, i)
    OBVIOUS
  <2>2. ~TableOK(seals, table, r)
    BY <1>4, <1>7, <2>1, DroppedRowIsFound
  <2>3. QED
    BY <2>1, <2>2
<1>8. ASSUME NEW i \in 1 .. Len(t), Sealed(seals, table, t[i].id)
      PROVE  ~TableOK(seals, table, [t EXCEPT ![i].content = "altered"])
  <2>1. PICK x : x = "altered"
    OBVIOUS
  <2>2. PICK r : r = [t EXCEPT ![i].content = x]
    OBVIOUS
  <2>3. ContentChanged(t, i, x, r)
    BY <2>2 DEF ContentChanged
  <2>4. x \notin Contents
    BY <2>1, AuditAssumption
  <2>5. ~TableOK(seals, table, r)
    <3> HIDE <2>2
    <3>1. QED
      BY <1>4, <1>6, <1>8, <2>3, <2>4, AlteredRowIsFound
  <2>6. QED
    BY <2>1, <2>2, <2>5
<1>9. ASSUME Attested(d) \/ Has(d.events, "seal_watermark"), NEW c \in Contents
      PROVE  ~TableOK(seals, table, Append(t, [id |-> Len(t) + 1, content |-> c]))
  <2>1. seals.resealed \/ \E line \in seals.lines : line[table] \in 0 .. Len(t)
    <3>1. CASE Attested(d)
      BY <1>1, <3>1 DEF Attested, SealsIn
    <3>2. CASE Has(d.events, "seal_watermark")
      <4>1. AList(d.events)
        BY FileIs DEF StoreOK
      <4>2. PICK line : line = FirstEvent(d.events, "seal_watermark").msg
        OBVIOUS
      <4>3. line \in SaidIn(d.events, "seal_watermark")
        BY <3>2, <4>1, <4>2, ContinuesItself, FirstStays
      <4>4. line["approvals"] \in 0 .. Len(d.approvals) /\ line["checks"] \in 0 .. Len(d.checks)
        BY <4>3 DEF StoreOK, FileOK, Below
      <4>5. line[table] \in 0 .. Len(t)
        BY <1>2, <4>4 DEF Tables
      <4>6. line \in seals.lines
        BY <1>1, <3>2, <4>2, SealsAre
      <4>7. QED
        BY <4>5, <4>6
    <3>3. QED
      BY <1>9, <3>1, <3>2
  <2>2. PICK r : r = Append(t, [id |-> Len(t) + 1, content |-> c])
    OBVIOUS
  <2>3. ~TableOK(seals, table, r)
    BY <1>4, <2>1, <2>2, AddedRowIsFound
  <2>4. QED
    BY <2>2, <2>3
<1>10. ASSUME NEW rows \in RowChanges(d, table) PROVE ~TableOK(seals, table, rows)
  <2>1. \/ \E i \in 1 .. Len(t) : Sealed(seals, table, t[i].id) /\ rows = RemoveAt(t, i)
        \/ \E i \in 1 .. Len(t) : Sealed(seals, table, t[i].id) /\ rows = [t EXCEPT ![i].content = "altered"]
        \/ /\ Attested(d) \/ Has(d.events, "seal_watermark")
           /\ \E c \in Contents : rows = Append(t, [id |-> Len(t) + 1, content |-> c])
    BY <1>1, <1>2, <1>5, <1>10 DEF RowChanges
  <2>2. QED
    BY <1>7, <1>8, <1>9, <2>1
<1>11. QED
  BY <1>1, <1>10

\* Of a store as acline writes it, whatever is verified.
LEMMA ChangesAreFound ==
  ASSUME NEW l \in Legacies, NEW d, NEW whole, StoreOK(d, l, whole), Verifies(d)
  PROVE  /\ \A es \in EventChanges(d) : ~Verifies([d EXCEPT !.events = es])
         /\ \A table \in Tables : \A rows \in RowChanges(d, table) : ~Verifies([d EXCEPT ![table] = rows])
<1>1. d = [events |-> d.events, approvals |-> d.approvals, checks |-> d.checks, token |-> d.token]
  BY DEF StoreOK
<1>2. ASSUME NEW es \in EventChanges(d) PROVE ~Verifies([d EXCEPT !.events = es])
  <2>1. ~TrailOK(es)
    BY EventChangesAreFound
  <2>2. PICK e : e = [d EXCEPT !.events = es]
    OBVIOUS
  <2>3. e.events = es
    BY <1>1, <2>2
  <2>4. ~Verifies(e)
    BY <2>1, <2>3 DEF Verifies
  <2>5. QED
    BY <2>2, <2>4
<1>3. ASSUME NEW table \in Tables, NEW rows \in RowChanges(d, table)
      PROVE ~Verifies([d EXCEPT ![table] = rows])
  <2>1. PICK seals : seals = SealsIn(d.events)
    OBVIOUS
  <2>2. TableOK(seals, "approvals", d.approvals) /\ TableOK(seals, "checks", d.checks)
    BY <2>1, RecordsAreTables DEF Verifies
  <2>3. TableOK(seals, table, d[table])
    BY <2>2 DEF Tables
  <2>4. ~TableOK(seals, table, rows)
    BY <2>1, <2>3, RowChangesAreFound
  <2>5. PICK e : e = [d EXCEPT ![table] = rows]
    OBVIOUS
  <2>6. e.events = d.events /\ e[table] = rows
    BY <1>1, <2>5 DEF Tables
  <2>7. ~(TableOK(seals, "approvals", e.approvals) /\ TableOK(seals, "checks", e.checks))
    BY <2>4, <2>6 DEF Tables
  <2>8. ~Verifies(e)
    <3>1. ~RecordsOK(seals, e.approvals, e.checks)
      BY <2>7, RecordsAreTables
    <3>2. QED
      BY <2>1, <2>6, <3>1 DEF Verifies
  <2>9. QED
    BY <2>5, <2>8
<1>4. QED
  BY <1>2, <1>3

-----------------------------------------------------------------------------
(* What each process may rely on, where it is, and the inductive invariant. *)

\* The rows that were there when their seals were read are as those seals say, and
\* none of the seals not yet seen with a row is of any other.
Judges(m, d, todo) ==
  /\ \A s \in m.seals.of : s.table \in todo /\ s.id \in 1 .. m.begun[s.table]
  /\ \A t \in todo : /\ m.begun[t] \in 0 .. Len(d[t])
                     /\ \A i \in 1 .. m.begun[t] : RowOK(m.seals, t, d[t][i])

IsVerifier(m) ==
  /\ m = [op |-> m.op, store |-> m.store, seals |-> m.seals, begun |-> m.begun]
  /\ m.seals = [of |-> m.seals.of, lines |-> m.seals.lines, resealed |-> m.seals.resealed]

IsExport(m) ==
  /\ m = [op |-> m.op, store |-> m.store, out |-> m.out]
  /\ m.out = [events |-> m.out.events, approvals |-> m.out.approvals, checks |-> m.out.checks]

Authorized == {"rotate", "disable", "seal", "checkseal", "reseal", "import"}

\* d is the store the process works on.
Knows(at, m, d, l, whole) ==
  /\ at # "idle" => m.store \in Stores
  /\ at \in {"authorize", "rotate"} => m = [op |-> m.op, store |-> m.store, token |-> m.token]
  /\ at = "authorize" => m.op \in Authorized
  /\ at = "writeSeal" => Anchored(d.events, Len(d.events), m.head)
  /\ at = "anchor" => /\ m.seal.mac = <<m.seal.key, m.seal.head>>
                      /\ Anchored(d.events, Len(d.events), m.seal.head)
  /\ at \in {"approvals", "checks", "missing"} => IsVerifier(m)
  /\ at = "approvals" /\ whole => Judges(m, d, Tables)
  /\ at = "checks" /\ whole => Judges(m, d, {"checks"})
  /\ at = "missing" /\ whole => Judges(m, d, {})
  /\ at \in {"exportApprovals", "exportChecks"} => IsExport(m) /\ ATrail(m.out.events, l)
  /\ at = "exportApprovals" => Below(m.out.events, Len(d.approvals), Len(d.checks))
  /\ at = "exportChecks" => /\ RowsTyped(m.out.approvals)
                            /\ Below(m.out.events, Len(m.out.approvals), Len(d.checks))
  /\ at = "report" /\ whole => \/ m.result = "ok"
                               \/ /\ m.result \in Tables /\ m.begun[m.result] \in Nat
                                  /\ Len(d[m.result]) > m.begun[m.result]

Whole == [s \in Stores |-> s \notin merged]

TrailInv(l) ==
  /\ db = [s \in Stores |-> db[s]]
  /\ pc = [p \in Processes |-> pc[p]] /\ mem = [p \in Processes |-> mem[p]]
  /\ \A s \in Stores : StoreOK(db[s], l, Whole[s]) /\ db[s].token \in 0 .. issued
  /\ issued \in Nat /\ calls \in 0 .. MaxCalls
  /\ FileOK(snapshot, l)
  /\ \A p \in Processes : Knows(pc[p], mem[p], db[mem[p].store], l, Whole[mem[p].store])

TInv == \E l \in Legacies : TrailInv(l)

LEMMA LastsIs ==
  ASSUME NEW d, NEW e, Lasts(d, e)
  PROVE  /\ Len(d.events) \in Nat /\ Len(e.events) \in Nat /\ Len(d.events) <= Len(e.events)
         /\ \A i \in 1 .. Len(d.events) : e.events[i] = d.events[i]
         /\ \A t \in Tables : /\ Len(d[t]) \in Nat /\ Len(e[t]) \in Nat /\ Len(d[t]) <= Len(e[t])
                              /\ \A i \in 1 .. Len(d[t]) : e[t][i] = d[t][i]
<1>1. Continues(d.events, e.events) /\ Continues(d.approvals, e.approvals) /\ Continues(d.checks, e.checks)
  BY DEF Lasts
<1>2. \A t \in Tables : Continues(d[t], e[t])
  BY <1>1 DEF Tables
<1>3. ASSUME NEW a, NEW b, Continues(a, b)
      PROVE  Len(a) \in Nat /\ Len(b) \in Nat /\ Len(a) <= Len(b) /\ \A i \in 1 .. Len(a) : b[i] = a[i]
  BY <1>3, ListIs DEF Continues
<1>4. QED
  BY <1>1, <1>2, <1>3

LEMMA JudgesStill ==
  ASSUME NEW m, NEW d, NEW e, Lasts(d, e), NEW todo, todo \subseteq Tables, Judges(m, d, todo)
  PROVE  Judges(m, e, todo)
<1>1. ASSUME NEW t \in todo
      PROVE  /\ m.begun[t] \in 0 .. Len(e[t])
             /\ \A i \in 1 .. m.begun[t] : RowOK(m.seals, t, e[t][i])
  <2>1. m.begun[t] \in 0 .. Len(d[t]) /\ \A i \in 1 .. m.begun[t] : RowOK(m.seals, t, d[t][i])
    BY DEF Judges
  <2>2. /\ Len(d[t]) \in Nat /\ Len(e[t]) \in Nat /\ Len(d[t]) <= Len(e[t])
        /\ \A i \in 1 .. Len(d[t]) : e[t][i] = d[t][i]
    BY LastsIs
  <2>3. \A i \in 1 .. m.begun[t] : i \in 1 .. Len(d[t])
    BY <2>1, <2>2
  <2>4. QED
    BY <2>1, <2>2, <2>3
<1>2. QED
  BY <1>1 DEF Judges

LEMMA AnchoredStill ==
  ASSUME NEW d, NEW e, Lasts(d, e), NEW head, Anchored(d.events, Len(d.events), head)
  PROVE  Anchored(e.events, Len(e.events), head)
<1>1. /\ Len(d.events) \in Nat /\ Len(e.events) \in Nat /\ Len(d.events) <= Len(e.events)
      /\ \A i \in 1 .. Len(d.events) : e.events[i] = d.events[i]
  BY LastsIs
<1>2. QED
  BY <1>1 DEF Anchored

LEMMA BelowStill ==
  ASSUME NEW es, NEW a \in Nat, NEW k \in Nat, Below(es, a, k), NEW b \in Nat,
         NEW n \in Nat, a <= b, k <= n
  PROVE  Below(es, b, n)
<1>1. ASSUME NEW line \in SaidIn(es, "seal_watermark")
      PROVE  line["approvals"] \in 0 .. b /\ line["checks"] \in 0 .. n
  <2>1. line["approvals"] \in 0 .. a /\ line["checks"] \in 0 .. k
    BY DEF Below
  <2>2. QED
    BY <2>1
<1>2. QED
  BY <1>1 DEF Below

\* What a process relies on outlasts whatever others write.
LEMMA KnowsStill ==
  ASSUME NEW at, NEW m, NEW d, NEW e, NEW l, NEW w, NEW v, Knows(at, m, d, l, w),
         Lasts(d, e), v => w
  PROVE  Knows(at, m, e, l, v)
<1>1. /\ Len(d.approvals) \in Nat /\ Len(e.approvals) \in Nat
      /\ Len(d.approvals) <= Len(e.approvals)
      /\ Len(d.checks) \in Nat /\ Len(e.checks) \in Nat /\ Len(d.checks) <= Len(e.checks)
  <2>1. \A t \in Tables : Len(d[t]) \in Nat /\ Len(e[t]) \in Nat /\ Len(d[t]) <= Len(e[t])
    BY LastsIs
  <2>2. QED
    BY <2>1 DEF Tables
<1>2. /\ at # "idle" => m.store \in Stores
      /\ at \in {"authorize", "rotate"} => m = [op |-> m.op, store |-> m.store, token |-> m.token]
      /\ at = "authorize" => m.op \in Authorized
      /\ at \in {"approvals", "checks", "missing"} => IsVerifier(m)
      /\ at \in {"exportApprovals", "exportChecks"} => IsExport(m) /\ ATrail(m.out.events, l)
  BY DEF Knows
<1>3. at = "writeSeal" => Anchored(e.events, Len(e.events), m.head)
  BY AnchoredStill DEF Knows
<1>4. at = "anchor" => /\ m.seal.mac = <<m.seal.key, m.seal.head>>
                       /\ Anchored(e.events, Len(e.events), m.seal.head)
  BY AnchoredStill DEF Knows
<1>5. /\ at = "approvals" /\ v => Judges(m, e, Tables)
      /\ at = "checks" /\ v => Judges(m, e, {"checks"})
      /\ at = "missing" /\ v => Judges(m, e, {})
  <2>1. /\ at = "approvals" /\ v => Judges(m, d, Tables)
        /\ at = "checks" /\ v => Judges(m, d, {"checks"})
        /\ at = "missing" /\ v => Judges(m, d, {})
    BY DEF Knows
  <2>2. Tables \subseteq Tables /\ {"checks"} \subseteq Tables /\ {} \subseteq Tables
    BY DEF Tables
  <2>3. ASSUME NEW todo, todo \subseteq Tables, Judges(m, d, todo) PROVE Judges(m, e, todo)
    BY <2>3, JudgesStill
  <2>4. QED
    BY <2>1, <2>2, <2>3
<1>6. at = "exportApprovals" => Below(m.out.events, Len(e.approvals), Len(e.checks))
  BY <1>1, BelowStill DEF Knows
<1>7. at = "exportChecks" => /\ RowsTyped(m.out.approvals)
                             /\ Below(m.out.events, Len(m.out.approvals), Len(e.checks))
  <2>1. SUFFICES ASSUME at = "exportChecks"
                 PROVE  /\ RowsTyped(m.out.approvals)
                        /\ Below(m.out.events, Len(m.out.approvals), Len(e.checks))
    OBVIOUS
  <2>2. RowsTyped(m.out.approvals) /\ Below(m.out.events, Len(m.out.approvals), Len(d.checks))
    BY <2>1 DEF Knows
  <2>3. Len(m.out.approvals) \in Nat /\ Len(m.out.approvals) <= Len(m.out.approvals)
    BY <2>2, ListIs DEF RowsTyped
  <2>4. QED
    BY <1>1, <2>2, <2>3, BelowStill
<1>8. at = "report" /\ v => \/ m.result = "ok"
                            \/ /\ m.result \in Tables /\ m.begun[m.result] \in Nat
                               /\ Len(e[m.result]) > m.begun[m.result]
  <2>1. SUFFICES ASSUME at = "report", v, m.result # "ok"
                 PROVE  /\ m.result \in Tables /\ m.begun[m.result] \in Nat
                        /\ Len(e[m.result]) > m.begun[m.result]
    OBVIOUS
  <2>2. m.result \in Tables /\ m.begun[m.result] \in Nat /\ Len(d[m.result]) > m.begun[m.result]
    BY <2>1 DEF Knows
  <2>3. Len(d[m.result]) \in Nat /\ Len(e[m.result]) \in Nat /\ Len(d[m.result]) <= Len(e[m.result])
    BY <2>2, LastsIs
  <2>4. QED
    BY <2>2, <2>3
<1>9. QED
  BY <1>2, <1>3, <1>4, <1>5, <1>6, <1>7, <1>8 DEF Knows

-----------------------------------------------------------------------------
(* Steps, by what they write.                                              *)

Proceeds(p, at, m) ==
  /\ pc' = [pc EXCEPT ![p] = at] /\ mem' = [mem EXCEPT ![p] = m]
  /\ calls' \in 0 .. MaxCalls

\* Store s becomes d.
Writes(l, s, d) ==
  /\ db' = [db EXCEPT ![s] = d]
  /\ StoreOK(d, l, Whole'[s]) /\ Lasts(db[s], d)
  /\ d.token \in 0 .. issued' /\ issued' \in Nat /\ issued <= issued'
  /\ merged \subseteq merged' /\ merged' \subseteq merged \union {s}
  /\ UNCHANGED snapshot

LEMMA LastsItself ==
  ASSUME NEW l \in Legacies, NEW d, NEW w, StoreOK(d, l, w)
  PROVE  Lasts(d, d)
<1>1. AList(d.events) /\ AList(d.approvals) /\ AList(d.checks)
  BY FileIs DEF StoreOK
<1>2. QED
  BY <1>1, ContinuesItself DEF Lasts

LEMMA LastsOn ==
  ASSUME NEW a, NEW b, NEW c, Lasts(a, b), Lasts(b, c)
  PROVE  Lasts(a, c)
BY ContinuesOn DEF Lasts

LEMMA RowWritten ==
  ASSUME NEW l \in Legacies, TrailInv(l), NEW p \in Processes, NEW s \in Stores, NEW d,
         NEW at, NEW m,
         Writes(l, s, d), Proceeds(p, at, m), Knows(at, m, db[m.store], l, Whole[m.store])
  PROVE  TrailInv(l)'
<1>1. /\ db = [t \in Stores |-> db[t]] /\ db' = [db EXCEPT ![s] = d]
      /\ \A t \in Stores : StoreOK(db[t], l, Whole[t]) /\ db[t].token \in 0 .. issued
      /\ issued \in Nat /\ issued' \in Nat /\ issued <= issued' /\ d.token \in 0 .. issued'
      /\ StoreOK(d, l, Whole'[s]) /\ Lasts(db[s], d)
  BY DEF TrailInv, Writes
<1>2. /\ db' = [t \in Stores |-> db'[t]] /\ db'[s] = d /\ \A t \in Stores : t # s => db'[t] = db[t]
  BY <1>1
<1>3. \A t \in Stores : Whole'[t] => Whole[t]
  BY DEF Whole, Writes
<1>4. \A t \in Stores : t # s => Whole'[t] = Whole[t]
  BY DEF Whole, Writes
<1>5. ASSUME NEW t \in Stores
      PROVE  StoreOK(db'[t], l, Whole'[t]) /\ db'[t].token \in 0 .. issued' /\ Lasts(db[t], db'[t])
  <2>1. CASE t = s
    BY <1>1, <1>2, <2>1
  <2>2. CASE t # s
    <3>1. db'[t] = db[t] /\ Whole'[t] = Whole[t]
      BY <1>2, <1>4, <2>2
    <3>2. StoreOK(db[t], l, Whole[t])
      BY <1>1
    <3>3. Lasts(db[t], db[t])
      BY <3>2, LastsItself
    <3>4. db[t].token \in 0 .. issued'
      BY <1>1
    <3>5. QED
      BY <3>1, <3>2, <3>3, <3>4
  <2>3. QED
    BY <2>1, <2>2
<1>6. /\ pc = [q \in Processes |-> pc[q]] /\ mem = [q \in Processes |-> mem[q]]
      /\ pc' = [pc EXCEPT ![p] = at] /\ mem' = [mem EXCEPT ![p] = m]
  BY DEF TrailInv, Proceeds
<1>7. /\ pc' = [q \in Processes |-> pc'[q]] /\ mem' = [q \in Processes |-> mem'[q]]
      /\ pc'[p] = at /\ mem'[p] = m
      /\ \A q \in Processes : q # p => pc'[q] = pc[q] /\ mem'[q] = mem[q]
  BY <1>6
<1>8. ASSUME NEW a, NEW n, Knows(a, n, db[n.store], l, Whole[n.store])
      PROVE  Knows(a, n, db'[n.store], l, Whole'[n.store])
  <2>1. CASE a = "idle"
    BY <2>1 DEF Knows
  <2>2. CASE a # "idle"
    <3>1. n.store \in Stores
      BY <1>8, <2>2 DEF Knows
    <3>2. PICK b, c, w, v : b = db[n.store] /\ c = db'[n.store] /\ w = Whole[n.store] /\ v = Whole'[n.store]
      OBVIOUS
    <3>3. Knows(a, n, b, l, w) /\ Lasts(b, c) /\ (v => w)
      BY <1>3, <1>5, <1>8, <3>1, <3>2
    <3>4. Knows(a, n, c, l, v)
      BY <3>3, KnowsStill
    <3>5. QED
      BY <3>2, <3>4
  <2>3. QED
    BY <2>1, <2>2
<1>9. ASSUME NEW q \in Processes
      PROVE  Knows(pc'[q], mem'[q], db'[mem'[q].store], l, Whole'[mem'[q].store])
  <2>1. PICK a, n : a = pc'[q] /\ n = mem'[q]
    OBVIOUS
  <2>2. Knows(a, n, db[n.store], l, Whole[n.store])
    <3>1. CASE q = p
      BY <1>7, <2>1, <3>1
    <3>2. CASE q # p
      <4>1. a = pc[q] /\ n = mem[q]
        BY <1>7, <2>1, <3>2
      <4>2. QED
        BY <4>1 DEF TrailInv
    <3>3. QED
      BY <3>1, <3>2
  <2>3. QED
    BY <1>8, <2>1, <2>2
<1>10. FileOK(snapshot', l)
  BY DEF TrailInv, Writes
<1>11. calls' \in 0 .. MaxCalls
  BY DEF Proceeds
<1>12. QED
  BY <1>1, <1>2, <1>5, <1>7, <1>9, <1>10, <1>11 DEF TrailInv

LEMMA OnlyRead ==
  ASSUME NEW l \in Legacies, TrailInv(l), NEW p \in Processes, NEW at, NEW m,
         UNCHANGED <<db, issued, merged>>, FileOK(snapshot', l),
         Proceeds(p, at, m), Knows(at, m, db[m.store], l, Whole[m.store])
  PROVE  TrailInv(l)'
<1>1. db' = db /\ issued' = issued /\ Whole' = Whole
  BY DEF Whole
<1>2. /\ pc = [q \in Processes |-> pc[q]] /\ mem = [q \in Processes |-> mem[q]]
      /\ pc' = [pc EXCEPT ![p] = at] /\ mem' = [mem EXCEPT ![p] = m]
  BY DEF TrailInv, Proceeds
<1>3. /\ pc' = [q \in Processes |-> pc'[q]] /\ mem' = [q \in Processes |-> mem'[q]]
      /\ pc'[p] = at /\ mem'[p] = m
      /\ \A q \in Processes : q # p => pc'[q] = pc[q] /\ mem'[q] = mem[q]
  BY <1>2
<1>4. ASSUME NEW q \in Processes
      PROVE  Knows(pc'[q], mem'[q], db'[mem'[q].store], l, Whole'[mem'[q].store])
  <2>1. CASE q = p
    BY <1>1, <1>3, <2>1
  <2>2. CASE q # p
    BY <1>1, <1>3, <2>2 DEF TrailInv
  <2>3. QED
    BY <2>1, <2>2
<1>5. calls' \in 0 .. MaxCalls
  BY DEF Proceeds
<1>6. /\ db = [s \in Stores |-> db[s]] /\ issued \in Nat
      /\ \A s \in Stores : StoreOK(db[s], l, Whole[s]) /\ db[s].token \in 0 .. issued
  BY DEF TrailInv
<1>7. QED
  BY <1>1, <1>3, <1>4, <1>5, <1>6 DEF TrailInv

LEMMA MovesBy ==
  ASSUME NEW l, TrailInv(l), NEW p \in Processes, NEW from, NEW at, NEW m,
         Command(p, from, at, m) \/ Goto(p, from, at, m)
  PROVE  Proceeds(p, at, m)
<1>1. calls \in 0 .. MaxCalls /\ MaxCalls \in Nat
  BY AuditAssumption DEF TrailInv
<1>2. CASE Command(p, from, at, m)
  BY <1>1, <1>2 DEF Command, Proceeds
<1>3. CASE Goto(p, from, at, m)
  BY <1>1, <1>3 DEF Goto, Proceeds
<1>4. QED
  BY <1>2, <1>3

LEMMA KnowsIdle ==
  ASSUME NEW m, NEW d, NEW l, NEW w
  PROVE  Knows("idle", m, d, l, w)
BY DEF Knows

\* Places at which a process relies on no more than which store it works on.
LEMMA KnowsWhere ==
  ASSUME NEW m, m.store \in Stores, NEW d, NEW l, NEW w,
         NEW at, at \in {"enable", "disable", "import", "checkseal", "readHead", "chain", "seals", "reseal"}
  PROVE  Knows(at, m, d, l, w)
BY DEF Knows

LEMMA Put1 ==
  ASSUME NEW l \in Legacies, TrailInv(l), NEW p \in Processes, NEW s \in Stores, NEW d,
         NEW at, NEW m,
         db' = [db EXCEPT ![s] = d], StoreOK(d, l, Whole[s]), Lasts(db[s], d),
         d.token \in 0 .. issued', issued' \in Nat, issued <= issued', UNCHANGED <<snapshot, merged>>,
         Proceeds(p, at, m), Knows(at, m, db[m.store], l, Whole[m.store])
  PROVE  TrailInv(l)'
<1>1. Whole' = Whole
  BY DEF Whole
<1>2. Writes(l, s, d)
  BY <1>1 DEF Writes
<1>3. QED
  BY <1>2, RowWritten

LEMMA StoreIs ==
  ASSUME NEW l, TrailInv(l), NEW s \in Stores, NEW b, b = db[s], NEW w, w = Whole[s]
  PROVE  /\ StoreOK(b, l, w) /\ b.token \in 0 .. issued /\ issued \in Nat
         /\ b = [events |-> b.events, approvals |-> b.approvals, checks |-> b.checks, token |-> b.token]
BY DEF TrailInv, StoreOK

LEMMA OnlyEvents ==
  ASSUME NEW b,
         b = [events |-> b.events, approvals |-> b.approvals, checks |-> b.checks, token |-> b.token], NEW es
  PROVE  [b EXCEPT !.events = es] = [events |-> es, approvals |-> b.approvals, checks |-> b.checks, token |-> b.token]
OBVIOUS

LEMMA LogEventKeeps ==
  ASSUME NEW l \in Legacies, TrailInv(l), NEW p \in Processes, LogEvent(p)
  PROVE  TrailInv(l)'
<1>1. PICK s \in Stores, c \in Contents, role \in Roles, redacted \in BOOLEAN :
        db' = [db EXCEPT ![s] = [db[s] EXCEPT !.events =
                 LoggedIf(redacted, Logged(db[s].events, "note", Text(c), role), "secret_redacted", Text("log"), role)]]
  BY DEF LogEvent, Put
<1>2. PICK b, w : b = db[s] /\ w = Whole[s]
  OBVIOUS
<1>3. /\ StoreOK(b, l, w) /\ b.token \in 0 .. issued /\ issued \in Nat
      /\ b = [events |-> b.events, approvals |-> b.approvals, checks |-> b.checks, token |-> b.token]
  BY <1>2, StoreIs
<1>4. PICK e : e = [events |-> Logged(b.events, "note", Text(c), role), approvals |-> b.approvals,
                    checks |-> b.checks, token |-> b.token]
  OBVIOUS
<1>5. /\ StoreOK(e, l, w) /\ Lasts(b, e) /\ e.token = b.token
      /\ e.events = Logged(b.events, "note", Text(c), role)
      /\ e.approvals = b.approvals /\ e.checks = b.checks
  <2>1. PICK type, msg : type = "note" /\ msg = Text(c)
    OBVIOUS
  <2>2. Plain(type, msg)
    BY <2>1 DEF Plain
  <2>3. OneMore(b, e, type, msg, role, b.token)
    BY <1>4, <2>1, OneMoreIs
  <2>4. /\ StoreOK(e, l, w) /\ Lasts(b, e) /\ e.token = b.token
        /\ e.events = Logged(b.events, type, msg, role)
        /\ e.approvals = b.approvals /\ e.checks = b.checks
    <3> HIDE <1>4
    <3>1. QED
      BY <1>3, <2>2, <2>3, PlainStore
  <2>5. QED
    BY <2>1, <2>4
<1>6. PICK g : g = [events |-> Logged(e.events, "secret_redacted", Text("log"), role), approvals |-> e.approvals,
                    checks |-> e.checks, token |-> e.token]
  OBVIOUS
<1>7. StoreOK(g, l, w) /\ Lasts(b, g) /\ g.token = b.token
  <2>1. PICK type, msg, none : type = "secret_redacted" /\ msg = Text("log") /\ none = role
    OBVIOUS
  <2>2. Plain(type, msg) /\ none \in Roles
    BY <2>1 DEF Plain
  <2>3. OneMore(e, g, type, msg, none, e.token)
    BY <1>6, <2>1, OneMoreIs
  <2>4. StoreOK(g, l, w) /\ Lasts(e, g) /\ g.token = e.token
    <3> HIDE <1>4, <1>6
    <3>1. QED
      BY <1>5, <2>2, <2>3, PlainStore
  <2>5. QED
    BY <1>5, <2>4, LastsOn
<1>8. PICK d : d = [b EXCEPT !.events =
                 LoggedIf(redacted, Logged(b.events, "note", Text(c), role), "secret_redacted", Text("log"), role)]
  OBVIOUS
<1>9. d = e \/ d = g
  <2>1. CASE redacted
    <3>1. d = [b EXCEPT !.events = Logged(e.events, "secret_redacted", Text("log"), role)]
      BY <1>5, <1>8, <2>1 DEF LoggedIf
    <3>2. d = g
      BY <1>3, <1>5, <1>6, <3>1, OnlyEvents
    <3>3. QED
      BY <3>2
  <2>2. CASE ~redacted
    <3>1. d = [b EXCEPT !.events = Logged(b.events, "note", Text(c), role)]
      BY <1>8, <2>2 DEF LoggedIf
    <3>2. d = e
      BY <1>3, <1>4, <3>1, OnlyEvents
    <3>3. QED
      BY <3>2
  <2>3. QED
    BY <2>1, <2>2
<1>10. StoreOK(d, l, w) /\ Lasts(b, d) /\ d.token = b.token
  BY <1>5, <1>7, <1>9
<1>11. db' = [db EXCEPT ![s] = d] /\ UNCHANGED <<snapshot, issued, merged>>
  BY <1>1, <1>2, <1>8 DEF LogEvent, KeepRest
<1>12. Proceeds(p, "idle", Idle)
  BY MovesBy DEF LogEvent
<1>13. Knows("idle", Idle, db[Idle.store], l, Whole[Idle.store])
  BY KnowsIdle
<1>14. /\ StoreOK(d, l, Whole[s]) /\ Lasts(db[s], d) /\ d.token \in 0 .. issued'
       /\ issued' \in Nat /\ issued <= issued' /\ UNCHANGED <<snapshot, merged>>
  BY <1>2, <1>3, <1>10, <1>11
<1>15. PICK at, m : at = "idle" /\ m = Idle
  OBVIOUS
<1>16. Proceeds(p, at, m) /\ Knows(at, m, db[m.store], l, Whole[m.store])
  BY <1>12, <1>13, <1>15
<1>17. QED
  BY <1>11, <1>14, <1>16, Put1

LEMMA PutEvent ==
  ASSUME NEW l \in Legacies, TrailInv(l), NEW p \in Processes, NEW s \in Stores, NEW token,
         token \in 0 .. issued',
         issued' \in Nat, issued <= issued', UNCHANGED <<snapshot, merged>>,
         NEW type, NEW msg, Plain(type, msg),
         db' = [db EXCEPT ![s] = [db[s] EXCEPT !.events = Logged(db[s].events, type, msg, NoRole), !.token = token]],
         NEW at, NEW m, Proceeds(p, at, m), Knows(at, m, db[m.store], l, Whole[m.store])
  PROVE  TrailInv(l)'
<1>1. PICK b, w, none : b = db[s] /\ w = Whole[s] /\ none = NoRole
  OBVIOUS
<1>2. /\ StoreOK(b, l, w) /\ none \in Roles
      /\ b = [events |-> b.events, approvals |-> b.approvals, checks |-> b.checks, token |-> b.token]
  BY <1>1, StoreIs, AuditAssumption
<1>3. PICK es : es = Logged(b.events, type, msg, none)
  OBVIOUS
<1>4. PICK d : d = [b EXCEPT !.events = es, !.token = token]
  OBVIOUS
<1>5. d.events = es /\ d = [events |-> d.events, approvals |-> b.approvals, checks |-> b.checks, token |-> token]
  BY <1>2, <1>4
<1>6. OneMore(b, d, type, msg, none, token)
  BY <1>3, <1>5 DEF OneMore
<1>7. StoreOK(d, l, w) /\ Lasts(b, d) /\ d.token = token
  BY <1>2, <1>6, PlainStore
<1>8. db' = [db EXCEPT ![s] = d] /\ StoreOK(d, l, Whole[s]) /\ Lasts(db[s], d)
  BY <1>1, <1>3, <1>4, <1>7
<1>9. d.token \in 0 .. issued'
  BY <1>7
<1>10. QED
  BY <1>8, <1>9, Put1

LEMMA RecordRowKeeps ==
  ASSUME NEW l \in Legacies, TrailInv(l), NEW p \in Processes, RecordRow(p)
  PROVE  TrailInv(l)'
<1>1. PICK s \in Stores, table \in Tables, c \in Contents, role \in Roles :
        db' = [db EXCEPT ![s] = Recorded(db[s], table, c, role)]
  BY DEF RecordRow, Put
<1>2. PICK b, w, d : b = db[s] /\ w = Whole[s] /\ d = Recorded(db[s], table, c, role)
  OBVIOUS
<1>3. StoreOK(b, l, w) /\ b.token \in 0 .. issued /\ issued \in Nat /\ d = Recorded(b, table, c, role)
  BY <1>2, StoreIs
<1>4. StoreOK(d, l, w) /\ Lasts(b, d) /\ d.token = b.token
  BY <1>3, RecordedIs
<1>5. PICK at, m : at = "idle" /\ m = Idle
  OBVIOUS
<1>6. Proceeds(p, at, m) /\ Knows(at, m, db[m.store], l, Whole[m.store])
  BY <1>5, MovesBy, KnowsIdle DEF RecordRow
<1>7. UNCHANGED <<snapshot, issued, merged>>
  BY DEF RecordRow, KeepRest
<1>8. /\ db' = [db EXCEPT ![s] = d] /\ StoreOK(d, l, Whole[s]) /\ Lasts(db[s], d)
      /\ d.token \in 0 .. issued' /\ issued' \in Nat /\ issued <= issued'
  BY <1>1, <1>2, <1>3, <1>4, <1>7
<1>9. QED
  BY <1>6, <1>7, <1>8, Put1

LEMMA AtWork ==
  ASSUME NEW l, TrailInv(l), NEW p \in Processes, NEW at, pc[p] = at, NEW m, m = mem[p]
  PROVE  Knows(at, m, db[m.store], l, Whole[m.store]) /\ (at # "idle" => m.store \in Stores)
BY DEF TrailInv, Knows

\* A step that changes no store, nor the snapshot.
LEMMA NothingWritten ==
  ASSUME NEW l \in Legacies, TrailInv(l), NEW p \in Processes, NEW from, NEW at, NEW m,
         Command(p, from, at, m) \/ Goto(p, from, at, m), KeepAll,
         Knows(at, m, db[m.store], l, Whole[m.store])
  PROVE  TrailInv(l)'
<1>1. UNCHANGED <<db, issued, merged>> /\ FileOK(snapshot', l)
  BY DEF KeepAll, TrailInv
<1>2. Proceeds(p, at, m)
  BY MovesBy
<1>3. QED
  BY <1>1, <1>2, OnlyRead

LEMMA StartEnableKeeps ==
  ASSUME NEW l \in Legacies, TrailInv(l), NEW p \in Processes, StartEnable(p)
  PROVE  TrailInv(l)'
<1>1. PICK s \in Stores : Command(p, "enable", "enable", [op |-> "enable", store |-> s])
  BY DEF StartEnable
<1>2. PICK at, m : at = "enable" /\ m = [op |-> "enable", store |-> s]
  OBVIOUS
<1>3. m.store \in Stores /\ Command(p, at, at, m)
  BY <1>1, <1>2
<1>4. Knows(at, m, db[m.store], l, Whole[m.store])
  BY <1>2, <1>3, KnowsWhere
<1>5. QED
  BY <1>3, <1>4, NothingWritten DEF StartEnable

LEMMA AuthorizationKnows ==
  ASSUME NEW op, NEW s \in Stores, NEW t, NEW m, m = [op |-> op, store |-> s, token |-> t],
         NEW d, NEW l, NEW w
  PROVE  /\ op \in Authorized => Knows("authorize", m, d, l, w)
         /\ Knows("import", m, d, l, w)
<1>1. m.op = op /\ m.store \in Stores /\ m = [op |-> m.op, store |-> m.store, token |-> m.token]
  OBVIOUS
<1>2. QED
  BY <1>1 DEF Knows

LEMMA StartsKeep ==
  ASSUME NEW l \in Legacies, TrailInv(l), NEW p \in Processes,
         StartWithToken(p) \/ StartReseal(p) \/ StartImport(p)
  PROVE  TrailInv(l)'
<1>1. PICK s \in Stores, op \in Authorized, t \in Presents(p), at \in {"authorize", "import"} :
        Command(p, op, at, [op |-> op, store |-> s, token |-> t])
  BY DEF StartWithToken, StartReseal, StartImport, Authorized
<1>2. PICK m : m = [op |-> op, store |-> s, token |-> t]
  OBVIOUS
<1>3. Knows(at, m, db[m.store], l, Whole[m.store])
  BY <1>1, <1>2, AuthorizationKnows
<1>4. Command(p, op, at, m)
  BY <1>1, <1>2
<1>5. KeepAll
  BY DEF StartWithToken, StartReseal, StartImport
<1>6. QED
  BY <1>3, <1>4, <1>5, NothingWritten

LEMMA SetEvents ==
  ASSUME NEW l, TrailInv(l), NEW s \in Stores, NEW es
  PROVE  [db[s] EXCEPT !.events = es] = [db[s] EXCEPT !.events = es, !.token = db[s].token]
<1>1. PICK b : b = db[s]
  OBVIOUS
<1>2. b = [events |-> b.events, approvals |-> b.approvals, checks |-> b.checks, token |-> b.token]
  BY <1>1 DEF TrailInv, StoreOK
<1>3. [b EXCEPT !.events = es] = [b EXCEPT !.events = es, !.token = b.token]
  BY <1>2
<1>4. QED
  BY <1>1, <1>3

LEMMA CommitEnableKeeps ==
  ASSUME NEW l \in Legacies, TrailInv(l), NEW p \in Processes, CommitEnable(p)
  PROVE  TrailInv(l)'
<1>1. pc[p] = "enable" /\ Goto(p, "enable", "idle", Idle)
  BY DEF CommitEnable, Return, Goto
<1>2. PICK s : s = mem[p].store
  OBVIOUS
<1>3. s \in Stores
  BY <1>1, <1>2, AtWork
<1>4. PICK at, m : at = "idle" /\ m = Idle
  OBVIOUS
<1>5. Proceeds(p, at, m) /\ Knows(at, m, db[m.store], l, Whole[m.store])
  BY <1>1, <1>4, MovesBy, KnowsIdle
<1>6. issued \in Nat /\ issued' = issued + 1 /\ UNCHANGED <<snapshot, merged>>
  BY DEF CommitEnable, TrailInv
<1>7. CASE At(p).token = 0
  <2>1. PICK type, msg : type = "approval_token" /\ msg = Text("enabled")
    OBVIOUS
  <2>2. Plain(type, msg)
    BY <2>1 DEF Plain
  <2>3. PICK token : token = issued + 1
    OBVIOUS
  <2>4. token \in 0 .. issued' /\ issued' \in Nat /\ issued <= issued'
    BY <1>6, <2>3
  <2>5. db' = [db EXCEPT ![s] = [db[s] EXCEPT !.token = token, !.events = Logged(db[s].events, type, msg, NoRole)]]
    BY <1>2, <1>7, <2>1, <2>3 DEF CommitEnable, Put, At
  <2>6. PICK es : es = Logged(db[s].events, type, msg, NoRole)
    OBVIOUS
  <2>7. [db[s] EXCEPT !.token = token, !.events = es] = [db[s] EXCEPT !.events = es, !.token = token]
    OBVIOUS
  <2>8. db' = [db EXCEPT ![s] = [db[s] EXCEPT !.events = Logged(db[s].events, type, msg, NoRole), !.token = token]]
    BY <2>5, <2>6, <2>7
  <2>9. QED
    BY <1>3, <1>5, <1>6, <2>2, <2>4, <2>8, PutEvent
<1>8. CASE At(p).token # 0
  <2>1. PICK b, w : b = db[s] /\ w = Whole[s]
    OBVIOUS
  <2>2. StoreOK(b, l, w) /\ b.token \in 0 .. issued
    BY <1>3, <2>1, StoreIs
  <2>3. Lasts(b, b)
    BY <2>2, LastsItself
  <2>4. db = [t \in Stores |-> db[t]] /\ db' = db
    BY <1>8 DEF CommitEnable, TrailInv
  <2>5. db' = [db EXCEPT ![s] = b]
    BY <1>3, <2>1, <2>4
  <2>6. /\ StoreOK(b, l, Whole[s]) /\ Lasts(db[s], b)
        /\ b.token \in 0 .. issued' /\ issued' \in Nat /\ issued <= issued'
    BY <1>6, <2>1, <2>2, <2>3
  <2>7. QED
    BY <1>3, <1>5, <1>6, <2>5, <2>6, Put1
<1>9. QED
  BY <1>7, <1>8

LEMMA AuthorizeKeeps ==
  ASSUME NEW l \in Legacies, TrailInv(l), NEW p \in Processes, Authorize(p)
  PROVE  TrailInv(l)'
<1>1. PICK m, s : m = mem[p] /\ s = m.store
  OBVIOUS
<1>2. pc[p] = "authorize"
  BY DEF Authorize
<1>3. Knows("authorize", m, db[m.store], l, Whole[m.store]) /\ m.store \in Stores
  BY <1>1, <1>2, AtWork
<1>4. PICK to : to = After(m.op)
  OBVIOUS
<1>5. Knows(to, m, db[m.store], l, Whole[m.store])
  <2>1. m.op \in Authorized /\ m = [op |-> m.op, store |-> m.store, token |-> m.token]
    BY <1>3 DEF Knows
  <2>2. to \in {"rotate", "disable", "import", "checkseal", "readHead", "chain"}
    BY <1>4, <2>1 DEF After, Authorized
  <2>3. QED
    BY <1>3, <2>1, <2>2 DEF Knows
<1>6. PICK at, n : Goto(p, "authorize", at, n) /\ ((at = to /\ n = m) \/ (at = "idle" /\ n = Idle))
  BY <1>1, <1>4 DEF Authorize, Return
<1>7. Proceeds(p, at, n) /\ Knows(at, n, db[n.store], l, Whole[n.store])
  BY <1>5, <1>6, MovesBy, KnowsIdle
<1>8. UNCHANGED <<snapshot, issued, merged>> /\ issued \in Nat /\ FileOK(snapshot', l)
  BY DEF Authorize, KeepRest, TrailInv
<1>9. CASE db' = db
  BY <1>7, <1>8, <1>9, OnlyRead
<1>10. CASE Append1(m.store, "approval_token", Text("check_failed"))
  <2>1. PICK type, msg, token : type = "approval_token" /\ msg = Text("check_failed") /\ token = db[s].token
    OBVIOUS
  <2>2. Plain(type, msg)
    BY <2>1 DEF Plain
  <2>3. token \in 0 .. issued'
    BY <1>1, <1>3, <1>8, <2>1 DEF TrailInv
  <2>4. PICK es : es = Logged(db[s].events, type, msg, NoRole)
    OBVIOUS
  <2>5. db' = [db EXCEPT ![s] = [db[s] EXCEPT !.events = es]]
    BY <1>1, <1>10, <2>1, <2>4 DEF Append1, Put
  <2>6. s \in Stores
    BY <1>1, <1>3
  <2>7. [db[s] EXCEPT !.events = es] = [db[s] EXCEPT !.events = es, !.token = token]
    BY <2>1, <2>6, SetEvents
  <2>8. db' = [db EXCEPT ![s] = [db[s] EXCEPT !.events = Logged(db[s].events, type, msg, NoRole), !.token = token]]
    BY <2>4, <2>5, <2>7
  <2>9. issued' \in Nat /\ issued <= issued' /\ UNCHANGED <<snapshot, merged>>
    BY <1>8
  <2>10. QED
    BY <1>7, <2>2, <2>3, <2>6, <2>8, <2>9, PutEvent
<1>11. QED
  BY <1>1, <1>9, <1>10 DEF Authorize

LEMMA CommitRotateKeeps ==
  ASSUME NEW l \in Legacies, TrailInv(l), NEW p \in Processes, CommitRotate(p)
  PROVE  TrailInv(l)'
<1>1. PICK new, s, n : new = issued + 1 /\ s = mem[p].store /\ n = [mem[p] EXCEPT !.token = new]
  OBVIOUS
<1>2. Goto(p, "rotate", "readHead", n) /\ pc[p] = "rotate"
  BY <1>1 DEF CommitRotate, Goto
<1>3. /\ Knows("rotate", mem[p], db[s], l, Whole[s]) /\ s \in Stores
  BY <1>1, <1>2, AtWork
<1>4. n.store = s
  <2>1. mem[p] = [op |-> mem[p].op, store |-> mem[p].store, token |-> mem[p].token]
    BY <1>3 DEF Knows
  <2>2. QED
    BY <1>1, <2>1
<1>5. PICK at : at = "readHead"
  OBVIOUS
<1>6. Proceeds(p, at, n) /\ Knows(at, n, db[n.store], l, Whole[n.store])
  <2>1. Proceeds(p, at, n)
    BY <1>2, <1>5, MovesBy
  <2>2. n.store \in Stores
    BY <1>3, <1>4
  <2>3. QED
    BY <1>5, <2>1, <2>2, KnowsWhere
<1>7. /\ issued \in Nat /\ issued' = new /\ UNCHANGED <<snapshot, merged>>
      /\ new \in Nat /\ issued <= new /\ 0 \in 0 .. new /\ new \in 0 .. new
  BY <1>1 DEF CommitRotate, TrailInv
<1>8. PICK type, msg, token : /\ type = "approval_token" /\ msg = Text("rotated")
                              /\ token = IF db[s].token = 0 THEN 0 ELSE new
  OBVIOUS
<1>9. Plain(type, msg)
  BY <1>8 DEF Plain
<1>10. token \in 0 .. issued' /\ issued' \in Nat /\ issued <= issued'
  BY <1>7, <1>8
<1>11. PICK es : es = Logged(db[s].events, type, msg, NoRole)
  OBVIOUS
<1>12. db' = [db EXCEPT ![s] = [db[s] EXCEPT !.token = token, !.events = es]]
  <2>1. PICK b : b = db[s]
    OBVIOUS
  <2>2. b = [events |-> b.events, approvals |-> b.approvals, checks |-> b.checks, token |-> b.token]
    BY <1>3, <2>1 DEF TrailInv, StoreOK
  <2>3. db' = [db EXCEPT ![s] = [b EXCEPT !.token = IF @ = 0 THEN 0 ELSE new, !.events = Logged(@, type, msg, NoRole)]]
    BY <1>1, <1>8, <2>1 DEF CommitRotate, Put, At
  <2>4. [b EXCEPT !.token = IF @ = 0 THEN 0 ELSE new, !.events = Logged(@, type, msg, NoRole)]
          = [b EXCEPT !.token = token, !.events = es]
    BY <1>8, <1>11, <2>1, <2>2
  <2>5. QED
    BY <2>1, <2>3, <2>4
<1>13. [db[s] EXCEPT !.token = token, !.events = es] = [db[s] EXCEPT !.events = es, !.token = token]
  OBVIOUS
<1>14. db' = [db EXCEPT ![s] = [db[s] EXCEPT !.events = Logged(db[s].events, type, msg, NoRole), !.token = token]]
  BY <1>11, <1>12, <1>13
<1>15. QED
  BY <1>3, <1>6, <1>7, <1>9, <1>10, <1>14, PutEvent

LEMMA CommitDisableKeeps ==
  ASSUME NEW l \in Legacies, TrailInv(l), NEW p \in Processes, CommitDisable(p)
  PROVE  TrailInv(l)'
<1>1. PICK s : s = mem[p].store
  OBVIOUS
<1>2. Goto(p, "disable", "idle", Idle) /\ pc[p] = "disable"
  BY DEF CommitDisable, Return, Goto
<1>3. s \in Stores
  BY <1>1, <1>2, AtWork
<1>4. PICK at, m : at = "idle" /\ m = Idle
  OBVIOUS
<1>5. Proceeds(p, at, m) /\ Knows(at, m, db[m.store], l, Whole[m.store])
  BY <1>2, <1>4, MovesBy, KnowsIdle
<1>6. issued \in Nat /\ UNCHANGED <<snapshot, issued, merged>>
  BY DEF CommitDisable, KeepRest, TrailInv
<1>7. PICK type, msg, token : type = "approval_token" /\ msg = Text("disabled") /\ token = 0
  OBVIOUS
<1>8. Plain(type, msg)
  BY <1>7 DEF Plain
<1>9. token \in 0 .. issued' /\ issued' \in Nat /\ issued <= issued'
  BY <1>6, <1>7
<1>10. PICK es : es = Logged(db[s].events, type, msg, NoRole)
  OBVIOUS
<1>11. db' = [db EXCEPT ![s] = [db[s] EXCEPT !.token = token, !.events = es]]
  BY <1>1, <1>7, <1>10 DEF CommitDisable, Put, At
<1>12. [db[s] EXCEPT !.token = token, !.events = es] = [db[s] EXCEPT !.events = es, !.token = token]
  OBVIOUS
<1>13. db' = [db EXCEPT ![s] = [db[s] EXCEPT !.events = Logged(db[s].events, type, msg, NoRole), !.token = token]]
  BY <1>10, <1>11, <1>12
<1>14. QED
  BY <1>3, <1>5, <1>6, <1>8, <1>9, <1>13, PutEvent

LEMMA CommitResealKeeps ==
  ASSUME NEW l \in Legacies, TrailInv(l), NEW p \in Processes, CommitReseal(p)
  PROVE  TrailInv(l)'
<1>1. PICK s : s = mem[p].store
  OBVIOUS
<1>2. Goto(p, "reseal", "idle", Idle) /\ pc[p] = "reseal"
  BY DEF CommitReseal, Return, Goto
<1>3. s \in Stores
  BY <1>1, <1>2, AtWork
<1>4. PICK at, m : at = "idle" /\ m = Idle
  OBVIOUS
<1>5. Proceeds(p, at, m) /\ Knows(at, m, db[m.store], l, Whole[m.store])
  BY <1>2, <1>4, MovesBy, KnowsIdle
<1>6. issued \in Nat /\ UNCHANGED <<snapshot, issued, merged>>
  BY DEF CommitReseal, KeepRest, TrailInv
<1>7. PICK b, w, d : b = db[s] /\ w = Whole[s] /\ d = Resealed(b)
  OBVIOUS
<1>8. StoreOK(b, l, w) /\ b.token \in 0 .. issued
  BY <1>3, <1>7, StoreIs
<1>9. StoreOK(d, l, w) /\ Lasts(b, d) /\ d.token = b.token
  BY <1>7, <1>8, ResealedIs
<1>10. db' = [db EXCEPT ![s] = d]
  BY <1>1, <1>7 DEF CommitReseal, Put, At
<1>11. /\ StoreOK(d, l, Whole[s]) /\ Lasts(db[s], d)
       /\ d.token \in 0 .. issued' /\ issued' \in Nat /\ issued <= issued'
       /\ UNCHANGED <<snapshot, merged>>
  BY <1>6, <1>7, <1>8, <1>9
<1>12. QED
  BY <1>3, <1>5, <1>10, <1>11, Put1

LEMMA LastThere ==
  ASSUME NEW n \in Nat, NEW S, S \subseteq 1 .. n, S # {}
  PROVE  \E i \in S : \A j \in S : j <= i
<1> DEFINE P == {k \in Nat : \A X \in SUBSET (1 .. k) : X # {} => \E i \in X : \A j \in X : j <= i}
<1>1. 0 \in P
  <2>1. \A X \in SUBSET (1 .. 0) : X = {}
    OBVIOUS
  <2>2. QED
    BY <2>1
<1>2. ASSUME NEW k \in Nat, k \in P PROVE k + 1 \in P
  <2>1. ASSUME NEW X \in SUBSET (1 .. k + 1), X # {} PROVE \E i \in X : \A j \in X : j <= i
    <3>1. CASE k + 1 \in X
      <4>1. \A j \in X : j <= k + 1
        BY <2>1
      <4>2. QED
        BY <3>1, <4>1
    <3>2. CASE k + 1 \notin X
      <4>1. X \subseteq 1 .. k
        BY <2>1, <3>2
      <4>2. QED
        BY <1>2, <2>1, <4>1
    <3>3. QED
      BY <3>1, <3>2
  <2>2. QED
    BY <1>2, <2>1
<1>3. n \in P
  <2> HIDE DEF P
  <2>1. \A k \in Nat : k \in P
    BY <1>1, <1>2, AllNaturals
  <2>2. QED
    BY <2>1
<1>4. QED
  BY <1>3

LEMMA HeadIs ==
  ASSUME NEW l \in Legacies, NEW b, NEW w, StoreOK(b, l, w), HasHead(b.events)
  PROVE  Anchored(b.events, Len(b.events), ChainHead(b.events))
<1>1. PICK es : es = b.events
  OBVIOUS
<1>2. AList(es)
  BY <1>1, FileIs DEF StoreOK
<1>3. Len(es) \in Nat /\ DOMAIN es = 1 .. Len(es)
  BY <1>2, ListIs
<1>4. PICK S : S = {i \in 1 .. Len(es) : es[i].hash # NoHash}
  OBVIOUS
<1>5. PICK i \in S : \A j \in S : j <= i
  <2>1. S \subseteq 1 .. Len(es) /\ S # {}
    BY <1>1, <1>3, <1>4 DEF HasHead
  <2>2. QED
    BY <1>3, <2>1, LastThere
<1>6. \E k \in DOMAIN es : es[k].hash # NoHash /\ \A j \in k + 1 .. Len(es) : es[j].hash = NoHash
  <2>1. i \in 1 .. Len(es) /\ es[i].hash # NoHash
    BY <1>4, <1>5
  <2>2. ASSUME NEW j \in i + 1 .. Len(es) PROVE es[j].hash = NoHash
    <3>1. j \in 1 .. Len(es) /\ ~(j <= i)
      BY <1>3, <2>1
    <3>2. QED
      BY <1>4, <1>5, <3>1
  <2>3. QED
    BY <1>3, <2>1, <2>2
<1>7. PICK h : h = CHOOSE k \in DOMAIN es : es[k].hash # NoHash /\ \A j \in k + 1 .. Len(es) : es[j].hash = NoHash
  OBVIOUS
<1>8. h \in DOMAIN es
  BY <1>6, <1>7
<1>9. ChainHead(es) = [id |-> es[h].id, hash |-> es[h].hash]
  BY <1>7 DEF ChainHead
<1>10. ChainHead(es).id = es[h].id /\ ChainHead(es).hash = es[h].hash
  BY <1>9
<1>11. Anchored(es, Len(es), ChainHead(es))
  BY <1>3, <1>8, <1>10 DEF Anchored
<1>12. QED
  BY <1>1, <1>11

LEMMA ReadHeadKeeps ==
  ASSUME NEW l \in Legacies, TrailInv(l), NEW p \in Processes, ReadHead(p)
  PROVE  TrailInv(l)'
<1>1. PICK s, b, w : s = mem[p].store /\ b = db[s] /\ w = Whole[s]
  OBVIOUS
<1>2. pc[p] = "readHead" /\ KeepAll
  BY DEF ReadHead
<1>3. s \in Stores
  BY <1>1, <1>2, AtWork
<1>4. StoreOK(b, l, w)
  BY <1>1, <1>3, StoreIs
<1>5. CASE HasHead(b.events)
  <2>1. PICK at, head, m : /\ at = "writeSeal" /\ head = ChainHead(b.events)
                           /\ m = [op |-> "seal", store |-> s, token |-> mem[p].token, head |-> head]
    OBVIOUS
  <2>2. Goto(p, "readHead", at, m)
    BY <1>1, <1>5, <2>1 DEF ReadHead, At
  <2>3. Anchored(b.events, Len(b.events), head)
    BY <1>4, <1>5, <2>1, HeadIs
  <2>4. m.store = s /\ m.head = head
    BY <2>1
  <2>5. Knows(at, m, db[m.store], l, Whole[m.store])
    BY <1>1, <1>3, <2>1, <2>3, <2>4 DEF Knows
  <2>6. QED
    BY <1>2, <2>2, <2>5, NothingWritten
<1>6. CASE ~HasHead(b.events)
  <2>1. PICK at, m : at = "idle" /\ m = Idle
    OBVIOUS
  <2>2. Goto(p, "readHead", at, m)
    BY <1>1, <1>6, <2>1 DEF ReadHead, At, Return
  <2>3. Knows(at, m, db[m.store], l, Whole[m.store])
    BY <2>1, KnowsIdle
  <2>4. QED
    BY <1>2, <2>2, <2>3, NothingWritten
<1>7. QED
  BY <1>5, <1>6

LEMMA WriteSealKeeps ==
  ASSUME NEW l \in Legacies, TrailInv(l), NEW p \in Processes, WriteSeal(p)
  PROVE  TrailInv(l)'
<1>1. PICK s, b, w : s = mem[p].store /\ b = db[s] /\ w = Whole[s]
  OBVIOUS
<1>2. Goto(p, "writeSeal", "idle", Idle) /\ pc[p] = "writeSeal"
  BY DEF WriteSeal, Return, Goto
<1>3. PICK head, token : head = mem[p].head /\ token = mem[p].token
  OBVIOUS
<1>4. Knows("writeSeal", mem[p], b, l, w) /\ s \in Stores
  BY <1>1, <1>2, AtWork
<1>5. Anchored(b.events, Len(b.events), head)
  BY <1>3, <1>4 DEF Knows
<1>6. StoreOK(b, l, w) /\ b.token \in 0 .. issued /\ issued \in Nat
  BY <1>1, <1>4, StoreIs
<1>7. PICK es : es = Logged(b.events, "head_sealed", HeadSeal(head, token), NoRole)
  OBVIOUS
<1>8. PICK d : d = [b EXCEPT !.events = es]
  OBVIOUS
<1>9. d.events = es /\ d = [events |-> d.events, approvals |-> b.approvals, checks |-> b.checks, token |-> b.token]
  <2>1. b = [events |-> b.events, approvals |-> b.approvals, checks |-> b.checks, token |-> b.token]
    BY <1>6 DEF StoreOK
  <2>2. QED
    BY <1>8, <2>1
<1>10. OneMore(b, d, "head_sealed", HeadSeal(head, token), NoRole, b.token)
  BY <1>7, <1>9 DEF OneMore
<1>11. StoreOK(d, l, w) /\ Lasts(b, d) /\ d.token = b.token
  BY <1>5, <1>6, <1>10, HeadIsSealed
<1>12. db' = [db EXCEPT ![s] = d]
  BY <1>1, <1>3, <1>7, <1>8 DEF WriteSeal, Append1, Put
<1>13. PICK at, m : at = "idle" /\ m = Idle
  OBVIOUS
<1>14. Proceeds(p, at, m) /\ Knows(at, m, db[m.store], l, Whole[m.store])
  BY <1>2, <1>13, MovesBy, KnowsIdle
<1>15. UNCHANGED <<snapshot, issued, merged>>
  BY DEF WriteSeal, KeepRest
<1>16. /\ StoreOK(d, l, Whole[s]) /\ Lasts(db[s], d)
       /\ d.token \in 0 .. issued' /\ issued' \in Nat /\ issued <= issued'
       /\ UNCHANGED <<snapshot, merged>>
  BY <1>1, <1>6, <1>11, <1>15
<1>17. QED
  BY <1>4, <1>12, <1>14, <1>16, Put1

\* The seal of a trail's head names an event of the trail.
LEMMA SealAnchored ==
  ASSUME NEW l \in Legacies, NEW es, ATrail(es, l), NEW i \in 1 .. Len(es),
         es[i].type = "head_sealed"
  PROVE  /\ es[i].msg.mac = <<es[i].msg.key, es[i].msg.head>>
         /\ Anchored(es, i - 1, es[i].msg.head) /\ Anchored(es, Len(es), es[i].msg.head)
<1>1. PICK h \in Legacies : Trail(es, h)
  BY NoLegacyIs DEF ATrail
<1>2. PICK t : t = "head_sealed"
  OBVIOUS
<1>3. Says(es, i - 1, h, t, es[i].msg)
  BY <1>1, <1>2, SaidAfterMarker DEF Marker
<1>4. PICK msg : msg = es[i].msg
  OBVIOUS
<1>5. msg = HeadSeal(msg.head, msg.key) /\ Anchored(es, i - 1, msg.head)
  BY <1>2, <1>3, <1>4 DEF Says
<1>6. msg.mac = <<msg.key, msg.head>>
  BY <1>5 DEF HeadSeal
<1>7. Len(es) \in Nat
  BY <1>1, TrailIs
<1>8. Anchored(es, Len(es), msg.head)
  BY <1>5, <1>7 DEF Anchored
<1>9. QED
  BY <1>4, <1>5, <1>6, <1>8

LEMMA ReadSealsKeeps ==
  ASSUME NEW l \in Legacies, TrailInv(l), NEW p \in Processes, ReadSeals(p)
  PROVE  TrailInv(l)'
<1>1. PICK s, b, w, es : s = mem[p].store /\ b = db[s] /\ w = Whole[s] /\ es = b.events
  OBVIOUS
<1>2. pc[p] = "checkseal" /\ KeepAll
  BY DEF ReadSeals
<1>3. s \in Stores
  BY <1>1, <1>2, AtWork
<1>4. StoreOK(b, l, w)
  BY <1>1, <1>3, StoreIs
<1>5. ATrail(es, l) /\ Len(es) \in Nat /\ DOMAIN es = 1 .. Len(es)
  <2>1. ATrail(es, l) /\ AList(es)
    BY <1>1, <1>4, FileIs DEF StoreOK, FileOK
  <2>2. QED
    BY <2>1, ListIs
<1>6. PICK own : own = SealsWith(es, mem[p].token)
  OBVIOUS
<1>7. own \subseteq 1 .. Len(es) /\ \A i \in own : es[i].type = "head_sealed"
  BY <1>5, <1>6 DEF SealsWith
<1>8. CASE own = {}
  <2>1. PICK at, m : at = "idle" /\ m = Idle
    OBVIOUS
  <2>2. Goto(p, "checkseal", at, m)
    BY <1>1, <1>6, <1>8, <2>1 DEF ReadSeals, At, Return
  <2>3. Knows(at, m, db[m.store], l, Whole[m.store])
    BY <2>1, KnowsIdle
  <2>4. QED
    BY <1>2, <2>2, <2>3, NothingWritten
<1>9. CASE own # {}
  <2>1. PICK i : i = CHOOSE k \in own : \A j \in own : j <= k
    OBVIOUS
  <2>2. i \in own
    <3>1. \E k \in own : \A j \in own : j <= k
      BY <1>5, <1>7, <1>9, LastThere
    <3>2. QED
      BY <2>1, <3>1
  <2>3. PICK at, seal, m : at = "anchor" /\ seal = es[i].msg /\ m = [op |-> "checkseal", store |-> s, seal |-> seal]
    OBVIOUS
  <2>4. Goto(p, "checkseal", at, m)
    BY <1>1, <1>6, <1>9, <2>1, <2>3 DEF ReadSeals, At
  <2>5. seal.mac = <<seal.key, seal.head>> /\ Anchored(es, Len(es), seal.head)
    BY <1>5, <1>7, <2>2, <2>3, SealAnchored
  <2>6. m.store = s /\ m.seal = seal
    BY <2>3
  <2>7. Knows(at, m, db[m.store], l, Whole[m.store])
    BY <1>1, <1>3, <2>3, <2>5, <2>6 DEF Knows
  <2>8. QED
    BY <1>2, <2>4, <2>7, NothingWritten
<1>10. QED
  BY <1>8, <1>9

LEMMA CheckAnchorKeeps ==
  ASSUME NEW l \in Legacies, TrailInv(l), NEW p \in Processes, CheckAnchor(p)
  PROVE  TrailInv(l)'
<1>1. PICK s, b, w, seal : s = mem[p].store /\ b = db[s] /\ w = Whole[s] /\ seal = mem[p].seal
  OBVIOUS
<1>2. pc[p] = "anchor" /\ KeepAll
  BY DEF CheckAnchor, Goto
<1>3. Knows("anchor", mem[p], b, l, w) /\ s \in Stores
  BY <1>1, <1>2, AtWork
<1>4. seal.mac = <<seal.key, seal.head>> /\ Anchored(b.events, Len(b.events), seal.head)
  BY <1>1, <1>3 DEF Knows
<1>5. AnchorHolds(b.events, seal.head)
  <2>1. StoreOK(b, l, w)
    BY <1>1, <1>3, StoreIs
  <2>2. DOMAIN b.events = 1 .. Len(b.events)
    BY <2>1, FileIs, ListIs DEF StoreOK
  <2>3. QED
    BY <1>4, <2>2 DEF AnchorHolds, Anchored
<1>6. PICK at, m : at = "report" /\ m = [op |-> "checkseal", store |-> s, result |-> "ok"]
  OBVIOUS
<1>7. Goto(p, "anchor", at, m)
  BY <1>1, <1>4, <1>5, <1>6 DEF CheckAnchor, At
<1>8. m.store = s /\ m.result = "ok"
  BY <1>6
<1>9. Knows(at, m, db[m.store], l, Whole[m.store])
  BY <1>3, <1>6, <1>8 DEF Knows
<1>10. QED
  BY <1>2, <1>7, <1>9, NothingWritten

LEMMA StartVerifyKeeps ==
  ASSUME NEW l \in Legacies, TrailInv(l), NEW p \in Processes, StartVerify(p)
  PROVE  TrailInv(l)'
<1>1. PICK s \in Stores : Command(p, "verify", "chain", [op |-> "verify", store |-> s])
  BY DEF StartVerify
<1>2. PICK call, at, m : call = "verify" /\ at = "chain" /\ m = [op |-> "verify", store |-> s]
  OBVIOUS
<1>3. m.store \in Stores /\ Command(p, call, at, m)
  BY <1>1, <1>2
<1>4. Knows(at, m, db[m.store], l, Whole[m.store])
  BY <1>2, <1>3, KnowsWhere
<1>5. QED
  BY <1>3, <1>4, NothingWritten DEF StartVerify

LEMMA VerifyTrailKeeps ==
  ASSUME NEW l \in Legacies, TrailInv(l), NEW p \in Processes, VerifyTrail(p)
  PROVE  TrailInv(l)'
<1>1. PICK s, b, w : s = mem[p].store /\ b = db[s] /\ w = Whole[s]
  OBVIOUS
<1>2. pc[p] = "chain" /\ KeepAll
  BY DEF VerifyTrail
<1>3. s \in Stores
  BY <1>1, <1>2, AtWork
<1>4. TrailOK(b.events)
  <2>1. ATrail(b.events, l)
    BY <1>1, <1>3, StoreIs DEF StoreOK, FileOK
  <2>2. PICK h \in Legacies : Trail(b.events, h)
    BY <2>1, NoLegacyIs DEF ATrail
  <2>3. QED
    BY <2>2, TrailIsOK
<1>5. PICK at, m : at = "seals" /\ m = [op |-> mem[p].op, store |-> s]
  OBVIOUS
<1>6. Goto(p, "chain", at, m)
  BY <1>1, <1>4, <1>5 DEF VerifyTrail, At
<1>7. m.store \in Stores
  BY <1>3, <1>5
<1>8. Knows(at, m, db[m.store], l, Whole[m.store])
  BY <1>5, <1>7, KnowsWhere
<1>9. QED
  BY <1>2, <1>6, <1>8, NothingWritten

\* A whole store's seals, as they are read, judge all of its rows.
LEMMA SealsJudge ==
  ASSUME NEW l \in Legacies, NEW b, NEW w, StoreOK(b, l, w), w, NEW m,
         m.seals = SealsIn(b.events),
         m.begun["approvals"] = Len(b.approvals), m.begun["checks"] = Len(b.checks)
  PROVE  Judges(m, b, Tables)
<1>1. PICK seals : seals = SealsIn(b.events)
  OBVIOUS
<1>2. TableOK(seals, "approvals", b.approvals) /\ TableOK(seals, "checks", b.checks)
  BY <1>1, RecordsAreTables DEF StoreOK
<1>3. RowsTyped(b.approvals) /\ RowsTyped(b.checks) /\ ATrail(b.events, l)
  BY DEF StoreOK, FileOK
<1>4. ASSUME NEW t \in Tables
      PROVE  TableOK(seals, t, b[t]) /\ RowsTyped(b[t]) /\ m.begun[t] = Len(b[t])
             /\ Len(b[t]) \in Nat /\ DOMAIN b[t] = 1 .. Len(b[t])
  <2>1. TableOK(seals, t, b[t]) /\ RowsTyped(b[t]) /\ m.begun[t] = Len(b[t])
    BY <1>2, <1>3 DEF Tables
  <2>2. QED
    BY <2>1, ListIs DEF RowsTyped
<1>5. ASSUME NEW s \in seals.of PROVE s.table \in Tables /\ s.id \in 1 .. m.begun[s.table]
  <2>1. s \in Digests
    BY <1>1, <1>3, SealsAreDigests
  <2>2. s.table \in Tables
    BY <2>1 DEF Digests
  <2>3. PICK t : t = s.table
    OBVIOUS
  <2>4. PICK i \in DOMAIN b[t] : b[t][i].id = s.id
    BY <1>4, <2>2, <2>3 DEF TableOK, NoneMissing
  <2>5. b[t][i].id = i /\ i \in 1 .. m.begun[t]
    BY <1>4, <2>2, <2>3, <2>4 DEF RowsTyped
  <2>6. QED
    BY <2>2, <2>3, <2>4, <2>5
<1>6. ASSUME NEW t \in Tables
      PROVE  m.begun[t] \in 0 .. Len(b[t]) /\ \A i \in 1 .. m.begun[t] : RowOK(seals, t, b[t][i])
  <2>1. /\ TableOK(seals, t, b[t]) /\ m.begun[t] = Len(b[t])
        /\ Len(b[t]) \in Nat /\ DOMAIN b[t] = 1 .. Len(b[t])
    BY <1>4
  <2>2. QED
    BY <2>1 DEF TableOK, RowsOK
<1>7. QED
  BY <1>1, <1>5, <1>6 DEF Judges

LEMMA ReadRowSealsKeeps ==
  ASSUME NEW l \in Legacies, TrailInv(l), NEW p \in Processes, ReadRowSeals(p)
  PROVE  TrailInv(l)'
<1>1. PICK s, b, w : s = mem[p].store /\ b = db[s] /\ w = Whole[s]
  OBVIOUS
<1>2. pc[p] = "seals" /\ KeepAll
  BY DEF ReadRowSeals, Goto
<1>3. s \in Stores
  BY <1>1, <1>2, AtWork
<1>4. StoreOK(b, l, w)
  BY <1>1, <1>3, StoreIs
<1>5. PICK seals, begun : /\ seals = SealsIn(b.events)
                          /\ begun = [approvals |-> Len(b.approvals), checks |-> Len(b.checks)]
  OBVIOUS
<1>6. PICK at, m : at = "approvals" /\ m = [op |-> mem[p].op, store |-> s, seals |-> seals, begun |-> begun]
  OBVIOUS
<1>7. Goto(p, "seals", at, m)
  BY <1>1, <1>5, <1>6 DEF ReadRowSeals, At
<1>8. m.store = s /\ m.seals = seals /\ m.begun = begun /\ m.op = mem[p].op
  BY <1>6
<1>9. m.begun["approvals"] = Len(b.approvals) /\ m.begun["checks"] = Len(b.checks)
  BY <1>5, <1>8
<1>10. w => Judges(m, b, Tables)
  BY <1>4, <1>5, <1>8, <1>9, SealsJudge
<1>11. IsVerifier(m)
  <2>1. m = [op |-> m.op, store |-> m.store, seals |-> m.seals, begun |-> m.begun]
    BY <1>6, <1>8
  <2>2. seals = [of |-> seals.of, lines |-> seals.lines, resealed |-> seals.resealed]
    BY <1>5 DEF SealsIn
  <2>3. QED
    BY <1>8, <2>1, <2>2 DEF IsVerifier
<1>12. Knows(at, m, db[m.store], l, Whole[m.store])
  BY <1>1, <1>3, <1>6, <1>8, <1>10, <1>11 DEF Knows
<1>13. QED
  BY <1>2, <1>7, <1>12, NothingWritten

\* A table that was judged leaves the seals of the others.
Unseen(m, table, rows) ==
  {s \in m.seals.of : s.table = table => ~\E i \in DOMAIN rows : rows[i].id = s.id}

LEMMA StillVerifies ==
  ASSUME NEW m, IsVerifier(m), NEW kept, NEW n, n = [m EXCEPT !.seals.of = kept]
  PROVE  /\ IsVerifier(n) /\ n.store = m.store /\ n.begun = m.begun /\ n.op = m.op
         /\ n.seals.of = kept /\ n.seals.lines = m.seals.lines
         /\ n.seals.resealed = m.seals.resealed
<1>1. /\ m = [op |-> m.op, store |-> m.store, seals |-> m.seals, begun |-> m.begun]
      /\ m.seals = [of |-> m.seals.of, lines |-> m.seals.lines, resealed |-> m.seals.resealed]
  BY DEF IsVerifier
<1>2. PICK seals : seals = [m.seals EXCEPT !.of = kept]
  OBVIOUS
<1>3. seals.of = kept /\ seals = [of |-> seals.of, lines |-> m.seals.lines, resealed |-> m.seals.resealed]
  BY <1>1, <1>2
<1>4. n = [m EXCEPT !.seals = seals]
  BY <1>1, <1>2
<1>5. n = [op |-> m.op, store |-> m.store, seals |-> seals, begun |-> m.begun]
  BY <1>1, <1>4
<1>6. n.op = m.op /\ n.store = m.store /\ n.seals = seals /\ n.begun = m.begun
  BY <1>5
<1>7. seals.lines = m.seals.lines /\ seals.resealed = m.seals.resealed
  BY <1>3
<1>8. n = [op |-> n.op, store |-> n.store, seals |-> n.seals, begun |-> n.begun]
  BY <1>5, <1>6
<1>9. n.seals = [of |-> n.seals.of, lines |-> n.seals.lines, resealed |-> n.seals.resealed]
  BY <1>3, <1>6, <1>7
<1>10. QED
  BY <1>3, <1>6, <1>7, <1>8, <1>9 DEF IsVerifier

LEMMA TableJudged ==
  ASSUME NEW m, NEW d, NEW todo, Judges(m, d, todo), NEW table \in todo, RowsTyped(d[table]),
         NEW n, n.begun = m.begun, n.seals.of = Unseen(m, table, d[table]),
         n.seals.lines = m.seals.lines, n.seals.resealed = m.seals.resealed
  PROVE  Judges(n, d, todo \ {table})
<1>1. PICK rows, kept : rows = d[table] /\ kept = Unseen(m, table, rows)
  OBVIOUS
<1>2. /\ AList(rows) /\ DOMAIN rows = 1 .. Len(rows) /\ Len(rows) \in Nat
      /\ \A i \in 1 .. Len(rows) : rows[i].id = i
  BY <1>1, ListIs DEF RowsTyped
<1>3. m.begun[table] \in 0 .. Len(rows)
  BY <1>1 DEF Judges
<1>4. ASSUME NEW s \in kept PROVE s.table \in todo \ {table} /\ s.id \in 1 .. n.begun[s.table]
  <2>1. s \in m.seals.of /\ s.table \in todo /\ s.id \in 1 .. m.begun[s.table]
    BY <1>1 DEF Unseen, Judges
  <2>2. s.table # table
    <3>1. SUFFICES ASSUME s.table = table PROVE FALSE
      OBVIOUS
    <3>2. s.id \in 1 .. Len(rows)
      BY <1>2, <1>3, <2>1, <3>1
    <3>3. rows[s.id].id = s.id /\ s.id \in DOMAIN rows
      BY <1>2, <3>2
    <3>4. QED
      BY <1>1, <3>1, <3>3 DEF Unseen
  <2>3. QED
    BY <2>1, <2>2
<1>5. ASSUME NEW t \in todo \ {table}, NEW row
      PROVE RowOK(m.seals, t, row) => RowOK(n.seals, t, row)
  <2>1. \A s : s.table = t => (s \in m.seals.of <=> s \in kept)
    BY <1>1 DEF Unseen
  <2>2. n.seals.of = kept
    BY <1>1
  <2>3. Sealed(n.seals, t, row.id) <=> Sealed(m.seals, t, row.id)
    BY <2>1, <2>2 DEF Sealed
  <2>4. Digest(t, row).table = t
    BY DEF Digest
  <2>5. Digest(t, row) \in m.seals.of <=> Digest(t, row) \in n.seals.of
    BY <2>1, <2>2, <2>4
  <2>6. MayLackSeal(m.seals, t, row.id) => MayLackSeal(n.seals, t, row.id)
    BY DEF MayLackSeal
  <2>7. QED
    BY <2>3, <2>5, <2>6 DEF RowOK
<1>6. ASSUME NEW t \in todo \ {table}
      PROVE  n.begun[t] \in 0 .. Len(d[t]) /\ \A i \in 1 .. n.begun[t] : RowOK(n.seals, t, d[t][i])
  BY <1>5 DEF Judges
<1>7. n.seals.of = kept
  BY <1>1
<1>8. QED
  BY <1>4, <1>6, <1>7 DEF Judges

\* A row that its seals do not allow was written after they were read.
LEMMA OnlyNewRowsFail ==
  ASSUME NEW m, NEW d, NEW todo, Judges(m, d, todo), NEW table \in todo, RowsTyped(d[table]),
         ~RowsOK(m.seals, table, d[table])
  PROVE  m.begun[table] \in Nat /\ Len(d[table]) > m.begun[table]
<1>1. /\ AList(d[table]) /\ DOMAIN d[table] = 1 .. Len(d[table]) /\ Len(d[table]) \in Nat
  BY ListIs DEF RowsTyped
<1>2. m.begun[table] \in 0 .. Len(d[table]) /\ \A i \in 1 .. m.begun[table] : RowOK(m.seals, table, d[table][i])
  BY DEF Judges
<1>3. PICK i \in 1 .. Len(d[table]) : ~RowOK(m.seals, table, d[table][i])
  BY <1>1 DEF RowsOK
<1>4. i \notin 1 .. m.begun[table]
  BY <1>2, <1>3
<1>5. QED
  BY <1>1, <1>2, <1>3, <1>4

LEMMA TableKeeps ==
  ASSUME NEW l \in Legacies, TrailInv(l), NEW p \in Processes, NEW table \in Tables, NEW next,
         VerifyTable(p, table, next), NEW todo, todo \subseteq Tables, table \in todo,
         NEW s, s = mem[p].store, s \in Stores, IsVerifier(mem[p]),
         Whole[s] => Judges(mem[p], db[s], todo),
         \A n : n.store = s /\ IsVerifier(n) /\ (Whole[s] => Judges(n, db[s], todo \ {table}))
                  => Knows(next, n, db[n.store], l, Whole[n.store])
  PROVE  TrailInv(l)'
<1>1. PICK b, w, m : b = db[s] /\ w = Whole[s] /\ m = mem[p]
  OBVIOUS
<1>2. pc[p] = table /\ KeepAll
  BY DEF VerifyTable
<1>3. RowsTyped(b[table])
  <2>1. StoreOK(b, l, w)
    BY <1>1, StoreIs
  <2>2. RowsTyped(b.approvals) /\ RowsTyped(b.checks)
    BY <2>1 DEF StoreOK, FileOK
  <2>3. QED
    BY <2>2 DEF Tables
<1>4. CASE RowsOK(m.seals, table, b[table])
  <2>1. PICK kept, n : kept = Unseen(m, table, b[table]) /\ n = [m EXCEPT !.seals.of = kept]
    OBVIOUS
  <2>2. Goto(p, table, next, n)
    <3>1. m.seals = [of |-> m.seals.of, lines |-> m.seals.lines, resealed |-> m.seals.resealed]
          /\ m = [op |-> m.op, store |-> m.store, seals |-> m.seals, begun |-> m.begun]
      BY <1>1 DEF IsVerifier
    <3>2. Goto(p, table, next, [m EXCEPT !.seals.of =
            {x \in @ : x.table = table => ~\E i \in DOMAIN b[table] : b[table][i].id = x.id}])
      BY <1>1, <1>4 DEF VerifyTable, At
    <3>3. n = [m EXCEPT !.seals.of =
            {x \in @ : x.table = table => ~\E i \in DOMAIN b[table] : b[table][i].id = x.id}]
      BY <2>1, <3>1 DEF Unseen
    <3>4. QED
      BY <3>2, <3>3
  <2>3. /\ IsVerifier(n) /\ n.store = m.store /\ n.begun = m.begun /\ n.seals.of = kept
        /\ n.seals.lines = m.seals.lines /\ n.seals.resealed = m.seals.resealed
    <3>1. IsVerifier(m)
      BY <1>1
    <3>2. n = [m EXCEPT !.seals.of = kept]
      BY <2>1
    <3>3. QED
      BY <3>1, <3>2, StillVerifies
  <2>4. Whole[s] => Judges(n, db[s], todo \ {table})
    <3>1. SUFFICES ASSUME Whole[s] PROVE Judges(n, b, todo \ {table})
      BY <1>1
    <3>2. Judges(m, b, todo) /\ n.seals.of = Unseen(m, table, b[table])
      BY <1>1, <2>1, <2>3, <3>1
    <3> HIDE <2>1
    <3>3. QED
      BY <1>3, <2>3, <3>2, TableJudged
  <2>5. Knows(next, n, db[n.store], l, Whole[n.store])
    BY <1>1, <2>3, <2>4
  <2>6. QED
    BY <1>2, <2>2, <2>5, NothingWritten
<1>5. CASE ~RowsOK(m.seals, table, b[table])
  <2>1. PICK at, n : at = "report" /\ n = [op |-> m.op, store |-> s, result |-> table, begun |-> m.begun]
    OBVIOUS
  <2>2. Goto(p, table, at, n)
    <3>1. table # "chain"
      BY DEF Tables
    <3>2. QED
      BY <1>1, <1>2, <1>5, <2>1, <3>1 DEF VerifyTable, At, Found
  <2>3. n.store = s /\ n.result = table /\ n.begun = m.begun
    BY <2>1
  <2>4. w => m.begun[table] \in Nat /\ Len(b[table]) > m.begun[table]
    <3>1. SUFFICES ASSUME w PROVE m.begun[table] \in Nat /\ Len(b[table]) > m.begun[table]
      OBVIOUS
    <3>2. Judges(m, b, todo)
      BY <1>1, <3>1
    <3>3. QED
      BY <1>3, <1>5, <3>2, OnlyNewRowsFail
  <2>5. Knows(at, n, db[n.store], l, Whole[n.store])
    BY <1>1, <2>1, <2>3, <2>4 DEF Knows
  <2>6. QED
    BY <1>2, <2>2, <2>5, NothingWritten
<1>6. QED
  BY <1>4, <1>5

LEMMA VerifyApprovalsKeeps ==
  ASSUME NEW l \in Legacies, TrailInv(l), NEW p \in Processes, VerifyApprovals(p)
  PROVE  TrailInv(l)'
<1>1. PICK s, b, w, m : s = m.store /\ b = db[s] /\ w = Whole[s] /\ m = mem[p]
  OBVIOUS
<1>2. VerifyTable(p, "approvals", "checks") /\ pc[p] = "approvals"
  BY DEF VerifyApprovals, VerifyTable
<1>3. Knows("approvals", m, b, l, w) /\ s \in Stores
  BY <1>1, <1>2, AtWork
<1>4. IsVerifier(m) /\ (w => Judges(m, b, Tables))
  BY <1>3 DEF Knows
<1>5. PICK table, next, todo : table = "approvals" /\ next = "checks" /\ todo = Tables
  OBVIOUS
<1>6. table \in Tables /\ todo \subseteq Tables /\ table \in todo /\ todo \ {table} = {"checks"}
  BY <1>5 DEF Tables
<1>7. ASSUME NEW n, n.store = s, IsVerifier(n), w => Judges(n, b, todo \ {table})
      PROVE  Knows(next, n, b, l, w)
  BY <1>3, <1>5, <1>6, <1>7 DEF Knows
<1>8. /\ VerifyTable(p, table, next) /\ s = mem[p].store /\ IsVerifier(mem[p])
      /\ Whole[s] => Judges(mem[p], db[s], todo)
      /\ \A n : n.store = s /\ IsVerifier(n) /\ (Whole[s] => Judges(n, db[s], todo \ {table}))
                  => Knows(next, n, db[n.store], l, Whole[n.store])
  BY <1>1, <1>2, <1>4, <1>5, <1>7
<1>9. QED
  BY <1>3, <1>6, <1>8, TableKeeps

LEMMA VerifyChecksKeeps ==
  ASSUME NEW l \in Legacies, TrailInv(l), NEW p \in Processes, VerifyChecks(p)
  PROVE  TrailInv(l)'
<1>1. PICK s, b, w, m : s = m.store /\ b = db[s] /\ w = Whole[s] /\ m = mem[p]
  OBVIOUS
<1>2. VerifyTable(p, "checks", "missing") /\ pc[p] = "checks"
  BY DEF VerifyChecks, VerifyTable
<1>3. Knows("checks", m, b, l, w) /\ s \in Stores
  BY <1>1, <1>2, AtWork
<1>4. IsVerifier(m) /\ (w => Judges(m, b, {"checks"}))
  BY <1>3 DEF Knows
<1>5. PICK table, next, todo : table = "checks" /\ next = "missing" /\ todo = {"checks"}
  OBVIOUS
<1>6. table \in Tables /\ todo \subseteq Tables /\ table \in todo /\ todo \ {table} = {}
  BY <1>5 DEF Tables
<1>7. ASSUME NEW n, n.store = s, IsVerifier(n), w => Judges(n, b, todo \ {table})
      PROVE  Knows(next, n, b, l, w)
  BY <1>3, <1>5, <1>6, <1>7 DEF Knows
<1>8. /\ VerifyTable(p, table, next) /\ s = mem[p].store /\ IsVerifier(mem[p])
      /\ Whole[s] => Judges(mem[p], db[s], todo)
      /\ \A n : n.store = s /\ IsVerifier(n) /\ (Whole[s] => Judges(n, db[s], todo \ {table}))
                  => Knows(next, n, db[n.store], l, Whole[n.store])
  BY <1>1, <1>2, <1>4, <1>5, <1>7
<1>9. QED
  BY <1>3, <1>6, <1>8, TableKeeps

LEMMA ConcludeKeeps ==
  ASSUME NEW l \in Legacies, TrailInv(l), NEW p \in Processes, Conclude(p)
  PROVE  TrailInv(l)'
<1>1. PICK m, s, b, w : m = mem[p] /\ s = m.store /\ b = db[s] /\ w = Whole[s]
  OBVIOUS
<1>2. pc[p] = "missing" /\ KeepAll
  BY DEF Conclude
<1>3. Knows("missing", m, b, l, w) /\ s \in Stores
  BY <1>1, <1>2, AtWork
<1>4. CASE m.seals.of # {}
  <2>1. PICK at, n : at = "report" /\ n = Found(p, "missing")
    OBVIOUS
  <2>2. n.store = s
    BY <1>1, <2>1 DEF Found
  <2>3. ~w
    BY <1>3, <1>4 DEF Knows, Judges
  <2>4. Goto(p, "missing", at, n)
    BY <1>1, <1>4, <2>1 DEF Conclude
  <2>5. Knows(at, n, db[n.store], l, Whole[n.store])
    BY <1>1, <1>3, <2>1, <2>2, <2>3 DEF Knows
  <2>6. QED
    BY <1>2, <2>4, <2>5, NothingWritten
<1>5. CASE m.seals.of = {} /\ m.op = "reseal"
  <2>1. PICK at, n : at = "reseal" /\ n = [op |-> "reseal", store |-> s]
    OBVIOUS
  <2>2. Goto(p, "missing", at, n)
    BY <1>1, <1>5, <2>1 DEF Conclude
  <2>3. n.store \in Stores
    BY <1>3, <2>1
  <2>4. Knows(at, n, db[n.store], l, Whole[n.store])
    BY <2>1, <2>3, KnowsWhere
  <2>5. QED
    BY <1>2, <2>2, <2>4, NothingWritten
<1>6. CASE m.seals.of = {} /\ m.op # "reseal"
  <2>1. PICK at, n : at = "report" /\ n = Found(p, "ok")
    OBVIOUS
  <2>2. n.store = s /\ n.result = "ok"
    BY <1>1, <2>1 DEF Found
  <2>3. Goto(p, "missing", at, n)
    BY <1>1, <1>6, <2>1 DEF Conclude
  <2>4. Knows(at, n, db[n.store], l, Whole[n.store])
    BY <1>3, <2>1, <2>2 DEF Knows
  <2>5. QED
    BY <1>2, <2>3, <2>4, NothingWritten
<1>7. QED
  BY <1>4, <1>5, <1>6

LEMMA ReturnsKeep ==
  ASSUME NEW l \in Legacies, TrailInv(l), NEW p \in Processes, Report(p) \/ Crash(p)
  PROVE  TrailInv(l)'
<1>1. PICK at, m : at = "idle" /\ m = Idle
  OBVIOUS
<1>2. PICK from : Goto(p, from, at, m)
  BY <1>1 DEF Report, Crash, Return
<1>3. KeepAll
  BY DEF Report, Crash
<1>4. Knows(at, m, db[m.store], l, Whole[m.store])
  BY <1>1, KnowsIdle
<1>5. QED
  BY <1>2, <1>3, <1>4, NothingWritten

LEMMA ExportEventsKeeps ==
  ASSUME NEW l \in Legacies, TrailInv(l), NEW p \in Processes, ExportEvents(p)
  PROVE  TrailInv(l)'
<1>1. PICK s \in Stores : Command(p, "export", "exportApprovals",
                            [op |-> "export", store |-> s, out |-> [NoFile EXCEPT !.events = db[s].events]])
  BY DEF ExportEvents
<1>2. PICK b, w : b = db[s] /\ w = Whole[s]
  OBVIOUS
<1>3. StoreOK(b, l, w)
  BY <1>2, StoreIs
<1>4. PICK out : out = [events |-> b.events, approvals |-> <<>>, checks |-> <<>>]
  OBVIOUS
<1>5. out.events = b.events /\ out = [events |-> out.events, approvals |-> out.approvals, checks |-> out.checks]
  BY <1>4
<1>6. PICK call, at, m : call = "export" /\ at = "exportApprovals" /\ m = [op |-> "export", store |-> s, out |-> out]
  OBVIOUS
<1>7. Command(p, call, at, m)
  BY <1>1, <1>2, <1>4, <1>6 DEF NoFile
<1>8. m.store = s /\ m.out = out /\ m.op = "export"
  BY <1>6
<1>9. IsExport(m)
  BY <1>5, <1>6, <1>8 DEF IsExport
<1>10. ATrail(out.events, l) /\ Below(out.events, Len(b.approvals), Len(b.checks))
  BY <1>3, <1>5 DEF StoreOK, FileOK
<1>11. Knows(at, m, db[m.store], l, Whole[m.store])
  BY <1>2, <1>6, <1>8, <1>9, <1>10 DEF Knows
<1>12. QED
  BY <1>7, <1>11, NothingWritten DEF ExportEvents

LEMMA ExportApprovalsKeeps ==
  ASSUME NEW l \in Legacies, TrailInv(l), NEW p \in Processes, ExportApprovals(p)
  PROVE  TrailInv(l)'
<1>1. PICK m, s, b, w : m = mem[p] /\ s = m.store /\ b = db[s] /\ w = Whole[s]
  OBVIOUS
<1>2. pc[p] = "exportApprovals" /\ KeepAll
  BY DEF ExportApprovals, Goto
<1>3. Knows("exportApprovals", m, b, l, w) /\ s \in Stores
  BY <1>1, <1>2, AtWork
<1>4. StoreOK(b, l, w)
  BY <1>1, <1>3, StoreIs
<1>5. /\ IsExport(m) /\ ATrail(m.out.events, l)
      /\ Below(m.out.events, Len(b.approvals), Len(b.checks))
  BY <1>3 DEF Knows
<1>6. /\ m = [op |-> m.op, store |-> m.store, out |-> m.out]
      /\ m.out = [events |-> m.out.events, approvals |-> m.out.approvals, checks |-> m.out.checks]
  BY <1>5 DEF IsExport
<1>7. PICK out : out = [m.out EXCEPT !.approvals = b.approvals]
  OBVIOUS
<1>8. PICK at, n : at = "exportChecks" /\ n = [m EXCEPT !.out = out]
  OBVIOUS
<1>9. Goto(p, "exportApprovals", at, n)
  <2>1. n = [m EXCEPT !.out.approvals = b.approvals]
    BY <1>6, <1>7, <1>8
  <2>2. QED
    BY <1>1, <1>8, <2>1 DEF ExportApprovals, At
<1>10. /\ out.events = m.out.events /\ out.approvals = b.approvals
       /\ out = [events |-> out.events, approvals |-> out.approvals, checks |-> out.checks]
  BY <1>6, <1>7
<1>11. n.store = s /\ n.out = out /\ n = [op |-> n.op, store |-> n.store, out |-> n.out]
  BY <1>1, <1>6, <1>8
<1>12. IsExport(n)
  BY <1>10, <1>11 DEF IsExport
<1>13. RowsTyped(out.approvals) /\ ATrail(out.events, l) /\ Below(out.events, Len(out.approvals), Len(b.checks))
  BY <1>4, <1>5, <1>10 DEF StoreOK, FileOK
<1>14. Knows(at, n, db[n.store], l, Whole[n.store])
  BY <1>1, <1>3, <1>8, <1>11, <1>12, <1>13 DEF Knows
<1>15. QED
  BY <1>2, <1>9, <1>14, NothingWritten

LEMMA ExportChecksKeeps ==
  ASSUME NEW l \in Legacies, TrailInv(l), NEW p \in Processes, ExportChecks(p)
  PROVE  TrailInv(l)'
<1>1. PICK m, s, b, w : m = mem[p] /\ s = m.store /\ b = db[s] /\ w = Whole[s]
  OBVIOUS
<1>2. pc[p] = "exportChecks" /\ Goto(p, "exportChecks", "idle", Idle)
  BY DEF ExportChecks, Return, Goto
<1>3. Knows("exportChecks", m, b, l, w) /\ s \in Stores
  BY <1>1, <1>2, AtWork
<1>4. StoreOK(b, l, w)
  BY <1>1, <1>3, StoreIs
<1>5. /\ IsExport(m) /\ ATrail(m.out.events, l) /\ RowsTyped(m.out.approvals)
      /\ Below(m.out.events, Len(m.out.approvals), Len(b.checks))
  BY <1>3 DEF Knows
<1>6. PICK f : f = [m.out EXCEPT !.checks = b.checks]
  OBVIOUS
<1>7. snapshot' = f
  BY <1>1, <1>6 DEF ExportChecks, At
<1>8. f.events = m.out.events /\ f.approvals = m.out.approvals /\ f.checks = b.checks
  <2>1. m.out = [events |-> m.out.events, approvals |-> m.out.approvals, checks |-> m.out.checks]
    BY <1>5 DEF IsExport
  <2>2. QED
    BY <1>6, <2>1
<1>9. FileOK(f, l)
  BY <1>4, <1>5, <1>8 DEF StoreOK, FileOK
<1>10. FileOK(snapshot', l)
  BY <1>7, <1>9
<1>11. PICK at, n : at = "idle" /\ n = Idle
  OBVIOUS
<1>12. Proceeds(p, at, n) /\ Knows(at, n, db[n.store], l, Whole[n.store])
  BY <1>2, <1>11, MovesBy, KnowsIdle
<1>13. UNCHANGED <<db, issued, merged>>
  BY DEF ExportChecks
<1>14. QED
  BY <1>10, <1>12, <1>13, OnlyRead

LEMMA CommitImportKeeps ==
  ASSUME NEW l \in Legacies, TrailInv(l), NEW p \in Processes, CommitImport(p)
  PROVE  TrailInv(l)'
<1>1. PICK s, b, w, f, d : /\ s = mem[p].store /\ b = db[s] /\ w = Whole[s]
                           /\ f = snapshot /\ d = Imported(b, f)
  OBVIOUS
<1>2. pc[p] = "import" /\ Goto(p, "import", "idle", Idle)
  BY DEF CommitImport, Return, Goto
<1>3. s \in Stores
  BY <1>1, <1>2, AtWork
<1>4. StoreOK(b, l, w) /\ b.token \in 0 .. issued /\ issued \in Nat
  BY <1>1, <1>3, StoreIs
<1>5. FileOK(f, l)
  BY <1>1 DEF TrailInv
<1>6. PICK at, m : at = "idle" /\ m = Idle
  OBVIOUS
<1>7. Proceeds(p, at, m) /\ Knows(at, m, db[m.store], l, Whole[m.store])
  BY <1>2, <1>6, MovesBy, KnowsIdle
<1>8. UNCHANGED <<snapshot, issued>>
  BY DEF CommitImport
<1>9. CASE Keeps(d)
  <2>1. db' = [db EXCEPT ![s] = d] /\ merged' = merged \union {s}
    BY <1>1, <1>9 DEF CommitImport, Put, At
  <2>2. PICK v : v = Whole'[s]
    OBVIOUS
  <2>3. ~v
    BY <1>3, <2>1, <2>2 DEF Whole
  <2>4. StoreOK(d, l, v) /\ Lasts(b, d) /\ d.token = b.token
    BY <1>1, <1>4, <1>5, <1>9, <2>3, ImportedIs
  <2>5. Lasts(db[s], d) /\ d.token \in 0 .. issued' /\ issued' \in Nat /\ issued <= issued'
    BY <1>1, <1>4, <1>8, <2>4
  <2>6. Writes(l, s, d)
    BY <1>8, <2>1, <2>2, <2>4, <2>5 DEF Writes
  <2>7. QED
    BY <1>3, <1>7, <2>6, RowWritten
<1>10. CASE ~Keeps(d)
  <2>1. UNCHANGED <<db, issued, merged>> /\ FileOK(snapshot', l)
    BY <1>1, <1>5, <1>8, <1>10 DEF CommitImport, At
  <2>2. QED
    BY <1>7, <2>1, OnlyRead
<1>11. QED
  BY <1>9, <1>10

LEMMA StepKeeps ==
  ASSUME NEW l \in Legacies, TrailInv(l), [TrailNext]_trailVars
  PROVE  TrailInv(l)'
<1>1. CASE UNCHANGED trailVars
  <2>1. /\ db' = db /\ snapshot' = snapshot /\ issued' = issued /\ merged' = merged
        /\ pc' = pc /\ mem' = mem /\ calls' = calls /\ Whole' = Whole
    BY <1>1 DEF trailVars, Whole
  <2>2. QED
    BY <2>1 DEF TrailInv
<1>2. ASSUME NEW p \in Processes, Step(p)
      PROVE  TrailInv(l)'
  <2>1. CASE LogEvent(p) \/ RecordRow(p)
    BY <2>1, LogEventKeeps, RecordRowKeeps
  <2>2. CASE StartEnable(p) \/ CommitEnable(p)
    BY <2>2, StartEnableKeeps, CommitEnableKeeps
  <2>3. CASE StartWithToken(p) \/ StartReseal(p) \/ StartImport(p)
    BY <2>3, StartsKeep
  <2>4. CASE Authorize(p) \/ CommitRotate(p) \/ CommitDisable(p)
    BY <2>4, AuthorizeKeeps, CommitRotateKeeps, CommitDisableKeeps
  <2>5. CASE ReadHead(p) \/ WriteSeal(p)
    BY <2>5, ReadHeadKeeps, WriteSealKeeps
  <2>6. CASE ReadSeals(p) \/ CheckAnchor(p)
    BY <2>6, ReadSealsKeeps, CheckAnchorKeeps
  <2>7. CASE StartVerify(p) \/ VerifyTrail(p) \/ ReadRowSeals(p)
    BY <2>7, StartVerifyKeeps, VerifyTrailKeeps, ReadRowSealsKeeps
  <2>8. CASE VerifyApprovals(p) \/ VerifyChecks(p) \/ Conclude(p)
    BY <2>8, VerifyApprovalsKeeps, VerifyChecksKeeps, ConcludeKeeps
  <2>9. CASE Report(p) \/ CommitReseal(p)
    BY <2>9, ReturnsKeep, CommitResealKeeps
  <2>10. CASE ExportEvents(p) \/ ExportApprovals(p) \/ ExportChecks(p)
    BY <2>10, ExportEventsKeeps, ExportApprovalsKeeps, ExportChecksKeeps
  <2>11. CASE CommitImport(p)
    BY <2>11, CommitImportKeeps
  <2>12. QED
    BY <1>2, <2>1, <2>2, <2>3, <2>4, <2>5, <2>6, <2>7, <2>8, <2>9, <2>10, <2>11 DEF Step
<1>3. ASSUME NEW p \in Processes, Crash(p)
      PROVE  TrailInv(l)'
  BY <1>3, ReturnsKeep
<1>4. QED
  BY <1>1, <1>2, <1>3 DEF TrailNext, Rest

-----------------------------------------------------------------------------
(* What the stores begin with.                                             *)

LEMMA NothingYet ==
  ASSUME NEW l \in Legacies
  PROVE  /\ FileOK(NoFile, l)
         /\ \A w : StoreOK(Empty, l, w)
<1>1. PICK h : h = NoLegacy(l)
  OBVIOUS
<1>2. PICK none : none = <<>>
  OBVIOUS
<1>3. AList(none) /\ Len(none) = 0 /\ DOMAIN none = 1 .. 0
  BY <1>2, NoneListed, ListIs
<1>4. ATrail(none, l)
  <2>1. h.c = 0
    BY <1>1 DEF NoLegacy
  <2>2. Trail(none, h)
    BY <1>3, <2>1 DEF Trail
  <2>3. QED
    BY <1>1, <2>2 DEF ATrail
<1>5. RowsTyped(none)
  BY <1>3 DEF RowsTyped
<1>6. Below(none, 0, 0)
  BY <1>3 DEF Below, SaidIn
<1>7. PICK f : f = NoFile
  OBVIOUS
<1>8. f.events = none /\ f.approvals = none /\ f.checks = none
  BY <1>2, <1>7 DEF NoFile
<1>9. FileOK(f, l)
  BY <1>3, <1>4, <1>5, <1>6, <1>8 DEF FileOK
<1>10. PICK e : e = Empty
  OBVIOUS
<1>11. e.events = none /\ e.approvals = none /\ e.checks = none /\ e.token = 0
       /\ e = [events |-> none, approvals |-> none, checks |-> none, token |-> 0]
  BY <1>2, <1>10 DEF Empty
<1>12. FileOK(e, l)
  BY <1>3, <1>4, <1>5, <1>6, <1>11 DEF FileOK
<1>13. RecordsOK(SealsIn(none), none, none)
  <2>1. SealsIn(none).of = {}
    BY <1>3, SealsAre DEF SaidIn
  <2>2. QED
    BY <1>3, <2>1 DEF RecordsOK, RowsOK, NoneMissing
<1>14. \A w : StoreOK(e, l, w)
  BY <1>11, <1>12, <1>13 DEF StoreOK
<1>15. QED
  BY <1>7, <1>9, <1>10, <1>14

LEMMA OldTrail ==
  ASSUME NEW n \in Nat, NEW m \in Nat, NEW role \in Roles, NEW es, es = OldEvents(n, m, role),
         NEW l, l = [c |-> n + m, u |-> n, role |-> role]
  PROVE  l \in Legacies /\ Trail(es, l) /\ \A t : t # "note" => SaidIn(es, t) = {}
<1>1. l.c = n + m /\ l.u = n /\ l.role = role /\ n + m \in Nat /\ n <= n + m
  OBVIOUS
<1>2. l \in Legacies
  BY <1>1 DEF Legacies
<1>3. /\ es = [i \in 1 .. n + m |-> es[i]]
      /\ \A i \in 1 .. n + m :
           es[i] = [id |-> i, type |-> "note", msg |-> Text("old"), role |-> role,
                    prev |-> OldHash(i - 1 - n), hash |-> OldHash(i - n)]
  BY DEF OldEvents
<1>4. \A i \in 1 .. n + m : es[i].type = "note" /\ es[i].msg = Text("old") /\ es[i].role = role
  <2>1. SUFFICES ASSUME NEW i \in 1 .. n + m
                 PROVE  es[i].type = "note" /\ es[i].msg = Text("old") /\ es[i].role = role
    OBVIOUS
  <2>2. PICK x, old : x = es[i] /\ old = Text("old")
    OBVIOUS
  <2>3. x = [id |-> i, type |-> "note", msg |-> old, role |-> role,
             prev |-> OldHash(i - 1 - n), hash |-> OldHash(i - n)]
    BY <1>3, <2>2
  <2>4. x.type = "note" /\ x.msg = old /\ x.role = role
    BY <2>3
  <2>5. QED
    BY <2>2, <2>4
<1>5. AList(es) /\ Len(es) = n + m /\ DOMAIN es = 1 .. n + m
  BY <1>1, <1>3, FunctionIsList
<1>6. ASSUME NEW i \in Int, i <= n + m PROVE HashAt(es, l, i) = OldHash(i - n)
  <2>1. ASSUME NEW j \in 1 .. i - n
        PROVE Covers(es[j + n], j + n > n + m + 1) = <<"note", Text("old")>>
    <3>1. j + n \in 1 .. n + m /\ ~(j + n > n + m + 1)
      BY <1>1, <1>6, <2>1
    <3>2. QED
      BY <1>4, <3>1 DEF Covers
  <2>2. HashAt(es, l, i) = [j \in 1 .. i - n |-> Covers(es[j + n], j + n > n + m + 1)]
    BY <1>1 DEF HashAt
  <2>3. QED
    BY <2>1, <2>2 DEF OldHash
<1>7. ASSUME NEW i \in 1 .. Len(es) PROVE Link(es, l, i)
  <2>1. i \in Int /\ i - 1 \in Int /\ i <= n + m /\ i - 1 <= n + m /\ i \in 1 .. n + m
    BY <1>1, <1>5
  <2>2. HashAt(es, l, i) = OldHash(i - n) /\ HashAt(es, l, i - 1) = OldHash(i - 1 - n)
    BY <1>6, <2>1
  <2>3. es[i].type = "note" /\ es[i].msg = Text("old") /\ es[i].role = role
    BY <1>4, <2>1
  <2>4. es[i] = [id |-> i, type |-> es[i].type, msg |-> es[i].msg, role |-> es[i].role,
                 prev |-> HashAt(es, l, i - 1), hash |-> HashAt(es, l, i)]
    BY <1>3, <2>1, <2>2, <2>3
  <2>5. Says(es, i - 1, l, es[i].type, es[i].msg)
    <3>1. Text("old") # Text("altered")
      <4>1. Text("old").text = "old" /\ Text("altered").text = "altered"
        BY DEF Text
      <4>2. QED
        BY <4>1
    <3>2. QED
      BY <2>3, <3>1 DEF Says
  <2>6. i <= l.c /\ ~(i = l.c + 1) /\ ~(i > l.c + 1)
    BY <1>1, <2>1
  <2>7. QED
    BY <1>1, <2>3, <2>4, <2>5, <2>6 DEF Link
<1>8. Trail(es, l)
  BY <1>1, <1>5, <1>7 DEF Trail
<1>9. \A t : t # "note" => SaidIn(es, t) = {}
  BY <1>4, <1>5 DEF SaidIn
<1>10. QED
  BY <1>2, <1>8, <1>9

LEMMA OldTable ==
  ASSUME NEW n \in Nat, NEW c \in Contents, NEW rows, rows = OldRows(n, c),
         NEW seals, seals.of = {}, seals.lines = {}, ~seals.resealed, NEW table
  PROVE  RowsTyped(rows) /\ Len(rows) = n /\ TableOK(seals, table, rows)
<1>1. rows = [i \in 1 .. n |-> rows[i]] /\ \A i \in 1 .. n : rows[i] = [id |-> i, content |-> c]
  BY DEF OldRows
<1>2. AList(rows) /\ Len(rows) = n
  BY <1>1, FunctionIsList
<1>3. \A i \in 1 .. n : IsRow(rows[i]) /\ rows[i].id = i /\ rows[i].content \in Contents
  <2>1. SUFFICES ASSUME NEW i \in 1 .. n
                 PROVE  IsRow(rows[i]) /\ rows[i].id = i /\ rows[i].content \in Contents
    OBVIOUS
  <2>2. PICK x : x = rows[i]
    OBVIOUS
  <2>3. x = [id |-> i, content |-> c]
    BY <1>1, <2>2
  <2>4. x.id = i /\ x.content = c
    BY <2>3
  <2>5. IsRow(x)
    BY <2>3, <2>4 DEF IsRow
  <2>6. QED
    BY <2>2, <2>4, <2>5
<1>4. TableOK(seals, table, rows)
  BY DEF TableOK, RowsOK, NoneMissing, RowOK, Sealed, MayLackSeal
<1>5. QED
  BY <1>2, <1>3, <1>4 DEF RowsTyped

LEMMA OldStoreIs ==
  ASSUME NEW n \in Nat, NEW m \in Nat, NEW a \in Nat, NEW k \in Nat, NEW role \in Roles,
         NEW c \in Contents,
         NEW d, d = OldStore(n, m, a, k, role, c),
         NEW l, l = [c |-> n + m, u |-> n, role |-> role]
  PROVE  l \in Legacies /\ d.token = 0 /\ \A w : StoreOK(d, l, w)
<1>1. PICK es, as, ks : es = OldEvents(n, m, role) /\ as = OldRows(a, c) /\ ks = OldRows(k, c)
  OBVIOUS
<1>2. d = [events |-> es, approvals |-> as, checks |-> ks, token |-> 0]
  BY <1>1 DEF OldStore
<1>3. d.events = es /\ d.approvals = as /\ d.checks = ks /\ d.token = 0
  BY <1>2
<1>4. l \in Legacies /\ Trail(es, l) /\ \A t : t # "note" => SaidIn(es, t) = {}
  BY <1>1, OldTrail
<1>5. PICK seals : seals = SealsIn(es)
  OBVIOUS
<1>6. seals.of = {} /\ seals.lines = {} /\ ~seals.resealed
  <2>1. SaidIn(es, "row_seal") = {} /\ SaidIn(es, "legacy_attested") = {} /\ SaidIn(es, "seal_watermark") = {}
    BY <1>4
  <2>2. ~Has(es, "seal_watermark")
    BY <2>1, HasSaid
  <2>3. QED
    BY <1>5, <2>1, <2>2, SealsAre
<1>7. RowsTyped(as) /\ Len(as) = a /\ TableOK(seals, "approvals", as)
  BY <1>1, <1>6, OldTable
<1>8. RowsTyped(ks) /\ Len(ks) = k /\ TableOK(seals, "checks", ks)
  BY <1>1, <1>6, OldTable
<1>9. Below(es, a, k)
  BY <1>4 DEF Below
<1>10. FileOK(d, l)
  BY <1>3, <1>4, <1>7, <1>8, <1>9 DEF FileOK, ATrail
<1>11. RecordsOK(SealsIn(d.events), d.approvals, d.checks)
  BY <1>3, <1>5, <1>7, <1>8, RecordsAreTables
<1>12. d = [events |-> d.events, approvals |-> d.approvals, checks |-> d.checks, token |-> d.token]
  BY <1>2, <1>3
<1>13. \A w : StoreOK(d, l, w)
  BY <1>10, <1>11, <1>12 DEF StoreOK
<1>14. QED
  BY <1>3, <1>4, <1>13

LEMMA Begins ==
  ASSUME TrailInit
  PROVE  TInv
<1>1. PICK old \in LegacyStores : db = [s \in Stores |-> IF s = Old THEN old ELSE Empty]
  BY DEF TrailInit
<1>2. PICK n \in OldUnhashed, m \in OldHashed, a \in OldRecords, k \in OldRecords, role \in Roles, c \in Contents :
        old = OldStore(n, m, a, k, role, c)
  BY <1>1 DEF LegacyStores
<1>3. n \in Nat /\ m \in Nat /\ a \in Nat /\ k \in Nat
  BY <1>2, AuditAssumption
<1>4. PICK l : l = [c |-> n + m, u |-> n, role |-> role]
  OBVIOUS
<1>5. l \in Legacies /\ old.token = 0 /\ \A w : StoreOK(old, l, w)
  BY <1>2, <1>3, <1>4, OldStoreIs
<1>6. FileOK(NoFile, l) /\ \A w : StoreOK(Empty, l, w)
  BY <1>5, NothingYet
<1>7. Empty.token = 0
  BY DEF Empty
<1>8. /\ snapshot = NoFile /\ issued = 0 /\ merged = {} /\ calls = 0
      /\ pc = [p \in Processes |-> "idle"] /\ mem = [p \in Processes |-> Idle]
  BY DEF TrailInit
<1>9. db = [s \in Stores |-> db[s]]
  BY <1>1
<1>10. \A s \in Stores : StoreOK(db[s], l, Whole[s]) /\ db[s].token \in 0 .. issued
  BY <1>1, <1>5, <1>6, <1>7, <1>8
<1>11. pc = [p \in Processes |-> pc[p]] /\ mem = [p \in Processes |-> mem[p]]
  BY <1>8
<1>12. \A p \in Processes : Knows(pc[p], mem[p], db[mem[p].store], l, Whole[mem[p].store])
  BY <1>8, KnowsIdle
<1>13. issued \in Nat /\ calls \in 0 .. MaxCalls
  BY <1>8, AuditAssumption
<1>14. TrailInv(l)
  BY <1>6, <1>8, <1>9, <1>10, <1>11, <1>12, <1>13 DEF TrailInv
<1>15. QED
  BY <1>5, <1>14 DEF TInv

LEMMA InvariantHolds == TrailSpec => []TInv
<1>1. TrailInit => TInv
  BY Begins
<1>2. TInv /\ [TrailNext]_trailVars => TInv'
  <2>1. SUFFICES ASSUME NEW l \in Legacies, TrailInv(l), [TrailNext]_trailVars PROVE TInv'
    BY DEF TInv
  <2>2. TrailInv(l)'
    BY <2>1, StepKeeps
  <2>3. QED
    BY <2>2 DEF TInv
<1>3. QED
  BY <1>1, <1>2, PTL DEF TrailSpec

-----------------------------------------------------------------------------
(* What the invariant says of verifying.                                   *)

LEMMA StoreTyped ==
  ASSUME NEW l \in Legacies, NEW b, NEW w, StoreOK(b, l, w)
  PROVE  /\ EventIds(b.events)
         /\ \A table \in Tables : \A i \in DOMAIN b[table] : b[table][i].id = i /\ b[table][i].content \in Contents
<1>1. ATrail(b.events, l) /\ RowsTyped(b.approvals) /\ RowsTyped(b.checks)
  BY DEF StoreOK, FileOK
<1>2. PICK h \in Legacies : Trail(b.events, h)
  BY <1>1, NoLegacyIs DEF ATrail
<1>3. EventIds(b.events)
  <2>1. DOMAIN b.events = 1 .. Len(b.events)
    BY <1>2, TrailIs
  <2>2. QED
    BY <1>2, <2>1, MarkerSplits DEF EventIds
<1>4. ASSUME NEW rows, RowsTyped(rows)
      PROVE \A i \in DOMAIN rows : rows[i].id = i /\ rows[i].content \in Contents
  BY <1>4, ListIs DEF RowsTyped
<1>5. QED
  BY <1>1, <1>3, <1>4 DEF Tables

LEMMA StoreVerifies ==
  ASSUME NEW l \in Legacies, NEW b, NEW w, StoreOK(b, l, w)
  PROVE  TrailOK(b.events) /\ (w => Verifies(b))
<1>1. PICK h \in Legacies : Trail(b.events, h)
  BY NoLegacyIs DEF StoreOK, FileOK, ATrail
<1>2. TrailOK(b.events)
  BY <1>1, TrailIsOK
<1>3. QED
  BY <1>2 DEF StoreOK, Verifies

LEMMA SealsMatch ==
  ASSUME NEW l \in Legacies, NEW b, NEW w, StoreOK(b, l, w),
         NEW i \in DOMAIN b.events, b.events[i].type = "head_sealed"
  PROVE  AnchorHolds(SubSeq(b.events, 1, i - 1), b.events[i].msg.head)
<1>1. PICK es : es = b.events
  OBVIOUS
<1>2. ATrail(es, l) /\ AList(es) /\ Len(es) \in Nat /\ DOMAIN es = 1 .. Len(es)
  <2>1. ATrail(es, l) /\ AList(es)
    BY <1>1, FileIs DEF StoreOK, FileOK
  <2>2. QED
    BY <2>1, ListIs
<1>3. PICK head : head = es[i].msg.head
  OBVIOUS
<1>4. i \in 1 .. Len(es) /\ es[i].type = "head_sealed"
  BY <1>1, <1>2
<1>5. Anchored(es, i - 1, head)
  BY <1>2, <1>3, <1>4, SealAnchored
<1>6. PICK k \in 1 .. i - 1 : es[k].id = head.id /\ es[k].hash = head.hash
  BY <1>5 DEF Anchored
<1>7. i - 1 \in Nat /\ i - 1 <= Len(es)
  BY <1>2, <1>4
<1>8. PICK part : part = SubSeq(es, 1, i - 1)
  OBVIOUS
<1>9. AList(part) /\ Len(part) = i - 1 /\ part[k] = es[k]
  BY <1>2, <1>6, <1>7, <1>8, Prefix
<1>10. k \in DOMAIN part
  BY <1>6, <1>9, ListIs
<1>11. AnchorHolds(part, head)
  BY <1>6, <1>9, <1>10 DEF AnchorHolds
<1>12. QED
  BY <1>1, <1>3, <1>8, <1>11

LEMMA AlarmsMean ==
  ASSUME NEW l \in Legacies, TrailInv(l), NEW p \in Processes, pc[p] = "report",
         mem[p].store \notin merged
  PROVE  CASE mem[p].result = "ok"  -> TRUE
           [] mem[p].result \in Tables -> Len(At(p)[mem[p].result]) > mem[p].begun[mem[p].result]
           [] OTHER -> FALSE
<1>1. PICK m, b, w : m = mem[p] /\ b = db[m.store] /\ w = Whole[m.store]
  OBVIOUS
<1>2. Knows("report", m, b, l, w) /\ m.store \in Stores
  BY <1>1, AtWork
<1>3. w
  BY <1>1, <1>2 DEF Whole
<1>4. m.result = "ok" \/ (m.result \in Tables /\ Len(b[m.result]) > m.begun[m.result])
  BY <1>2, <1>3 DEF Knows
<1>5. At(p) = b
  BY <1>1 DEF At
<1>6. "ok" \notin Tables
  BY DEF Tables
<1>7. QED
  BY <1>1, <1>4, <1>5, <1>6

LEMMA InvariantTells ==
  ASSUME TInv
  PROVE  VerifyTellsTheTruth /\ AlterationsAreFound
<1>1. PICK l \in Legacies : TrailInv(l)
  BY DEF TInv
<1>2. \A s \in Stores : StoreOK(db[s], l, Whole[s]) /\ db[s].token \in 0 .. issued
  BY <1>1 DEF TrailInv
<1>3. TrailTypeOK
  <2>1. calls \in 0 .. MaxCalls
    BY <1>1 DEF TrailInv
  <2>2. QED
    BY <1>2, <2>1, StoreTyped DEF TrailTypeOK
<1>4. SoundStoreVerifies
  <2>1. \A s \in Stores : s \notin merged => Whole[s]
    BY DEF Whole
  <2>2. QED
    BY <1>2, <2>1, StoreVerifies DEF SoundStoreVerifies
<1>5. AlarmMeansAWrite
  BY <1>1, AlarmsMean DEF AlarmMeansAWrite
<1>6. SealsMatchTheTrail
  BY <1>2, SealsMatch DEF SealsMatchTheTrail
<1>7. AlterationsAreFound
  BY <1>2, ChangesAreFound DEF AlterationsAreFound
<1>8. QED
  BY <1>3, <1>4, <1>5, <1>6, <1>7 DEF VerifyTellsTheTruth

\* `acline verify` of a store nobody altered finds nothing, whatever processes write
\* meanwhile, whoever dies between two writes and whatever an older acline left: the
\* trail chains, each record has its seal, an alarm is about a record that was being
\* written, and a sealed head is the trail's (event.go, seal.go, reseal.go, head_seal.go).
THEOREM VerifyIsTruthful == TrailSpec => []VerifyTellsTheTruth
<1>1. TInv => VerifyTellsTheTruth
  BY InvariantTells
<1>2. QED
  BY <1>1, InvariantHolds, PTL

\* Each event and record that `acline verify` promises to protect is protected: with one
\* dropped, changed or slipped in, a store that verified no longer does (verifyChain,
\* checkLegacyAttestation and VerifyRecords).
THEOREM AlterationsShow == TrailSpec => []AlterationsAreFound
<1>1. TInv => AlterationsAreFound
  BY InvariantTells
<1>2. QED
  BY <1>1, InvariantHolds, PTL
=============================================================================
