----------------------------- MODULE RecordProofs -----------------------------
(***************************************************************************)
(* Theorems of Records: what may be relied on is told by the audit trail,  *)
(* trusting a record and retiring a rule take a person, and failures and   *)
(* notes turn into no more records than they should, for any number of     *)
(* processes, tasks and commands.                                          *)
(***************************************************************************)
EXTENDS Records, FiniteSetTheorems, WellFoundedInduction, TLAPS

-----------------------------------------------------------------------------
(* The inductive invariant: types.                                         *)

Words == DecisionStatuses \union MemoryStatuses \union
           {"recorded", "promoted", "forgotten", "restored", "reconfirmed", "added", "verified"}
Events == [table : {"decision", "memory", "note", "dependency"}, id : Nat, to : Words,
           by : Procs, since : Nat]
Sources == [kind : {"none", "note"} \union Drafted, of : Nat]
DecisionRows == [status : DecisionStatuses, by : Nat, from : Nat]
MemoryRows == [kind : Kinds, status : MemoryStatuses, stale : BOOLEAN, source : Sources]
NoteRows == [to : {"none", "decision", "memory"}, id : Nat]
Retired == {"rejected", "superseded", "deprecated"}
Remembered == [since : Nat, id : Nat, to : {"none", "decision", "memory", "note"} \union Retired,
               by : Nat, note : Nat, source : Sources, shown : SUBSET Nat]

Typed ==
  /\ TypeOK
  /\ events \in Seq(Events)
  /\ mem \in [Procs -> Remembered]

\* What refers to a row refers to one there is.
Fits ==
  /\ \A k \in DOMAIN events :
       /\ events[k].since < k
       /\ events[k].table = "memory" => events[k].id \in DOMAIN memory
       /\ events[k].table = "dependency" => events[k].id \in DOMAIN dependencies
  /\ \A i \in DOMAIN decisions : decisions[i].from <= Len(notes)
  /\ \A i \in DOMAIN memory : memory[i].source.kind = "note" => memory[i].source.of <= Len(notes)

-----------------------------------------------------------------------------
(* The inductive invariant: what the trail says.                           *)

\* Event e says one of the words of a row; event k of es is the last to.
Says(e, table, id, words) == e.table = table /\ e.id = id /\ e.to \in words

SaidLast(es, table, id, words, k) ==
  /\ k \in DOMAIN es /\ Says(es[k], table, id, words)
  /\ \A j \in DOMAIN es : j > k => ~Says(es[j], table, id, words)

DecisionTold(es, i, row) ==
  \E k \in DOMAIN es : SaidLast(es, "decision", i, DecisionStatuses, k) /\ es[k].to = row.status

MemoryTold(es, i, row) ==
  \E k \in DOMAIN es : SaidLast(es, "memory", i, MemoryStatuses, k) /\ es[k].to = row.status

StaleTold(es, i, row) ==
  \/ /\ ~row.stale
     /\ \A k \in DOMAIN es : ~Says(es[k], "memory", i, {"forgotten", "restored"})
  \/ \E k \in DOMAIN es :
       /\ SaidLast(es, "memory", i, {"forgotten", "restored"}, k)
       /\ row.stale <=> es[k].to = "forgotten"

DependencyTold(es, i, verified) ==
  verified = \E k \in DOMAIN es : Says(es[k], "dependency", i, {"verified"})

\* The last thing said of every row is what the row says.
Trail ==
  /\ \A i \in DOMAIN decisions : DecisionTold(events, i, decisions[i])
  /\ \A i \in DOMAIN memory :
       MemoryTold(events, i, memory[i]) /\ StaleTold(events, i, memory[i])
  /\ \A i \in DOMAIN dependencies : DependencyTold(events, i, dependencies[i])

\* What a process knows that goes on at `to` remembering m: which rows its command
\* is about, and what was so of them when the command began.
KnowsOf(p, to, m) ==
  /\ to = "retire" =>
       /\ m.to \in Retired /\ m.id \in DOMAIN decisions
       /\ m.by \in {0} \union (DOMAIN decisions \ {m.id})
       /\ p \notin Deciders => ~TrustedAt("decision", m.id, m.since)
  /\ to \in {"count", "draft"} =>
       m.source.kind \in Drafted /\ m.source.of \in Tasks /\ m.note = 0
  /\ to = "render" => \A i \in m.shown : TrustedAt("memory", i, m.since)

Knows(p) == KnowsOf(p, pc[p], mem[p])

\* What ContextShowsWhatStood needs, with bounds.
ContextFits == context.since \in Nat /\ context.until \in 0 .. Len(events)

-----------------------------------------------------------------------------
(* The inductive invariant: drafts and promotions.                         *)

Pending(s) == {i \in DOMAIN memory : memory[i].source = s /\ memory[i].status = "pending"}
Drafting(s) == {p \in Procs : pc[p] = "draft" /\ mem[p].source = s}

\* A process about to insert a draft has its place in the count.
Capped ==
  \A t \in Tasks, kind \in Drafted :
    LET s == [kind |-> kind, of |-> t] IN
    Cardinality(Pending(s)) + Cardinality(Drafting(s)) <= Cardinality(Procs)

Promotion == {"create", "index", "release", "mark"}
Promotes(p, n) == pc[p] \in Promotion /\ mem[p].note = n

\* Promotion p of note n holds the note's claim; once it created a row, that is
\* the one record of the note none reported an error for.
Holds(p, n) ==
  LET m == mem[p] IN
  /\ m.to \in {"decision", "memory"} /\ notes[n] = [to |-> m.to, id |-> 0]
  /\ pc[p] \in {"create", "release"} => MadeOf(n) \subseteq unreported
  /\ pc[p] \in {"index", "mark"} =>
       /\ <<m.to, m.id>> \in MadeOf(n)
       /\ MadeOf(n) \ unreported \subseteq {<<m.to, m.id>>}

Promoting(p) ==
  /\ pc[p] \in Promotion => mem[p].note \in {0} \union DOMAIN notes
  /\ pc[p] \in {"create", "release", "mark"} => mem[p].note # 0
  /\ \A n \in DOMAIN notes : Promotes(p, n) => Holds(p, n)

Alone ==
  \A n \in DOMAIN notes : \A p, q \in Procs : Promotes(p, n) /\ Promotes(q, n) => p = q

\* A note without a claim has no record but reported ones; any has at most one.
MadeOnceOf(n) ==
  /\ notes[n].to = "none" => notes[n].id = 0 /\ MadeOf(n) \subseteq unreported
  /\ notes[n].id # 0 => <<notes[n].to, notes[n].id>> \in MadeOf(n)
  /\ \A x, y \in MadeOf(n) \ unreported : x = y

Promoted ==
  /\ Alone
  /\ \A p \in Procs : Promoting(p)
  /\ \A n \in DOMAIN notes : MadeOnceOf(n)

IInv ==
  /\ Typed /\ Fits /\ Trail
  /\ \A p \in Procs : Knows(p)
  /\ ContextFits /\ ContextShowsWhatStood
  /\ TrustTakesAPerson /\ RulesRetiredByPeople
  /\ Capped /\ Promoted

-----------------------------------------------------------------------------
(* Sequences, and the last word on a row.                                  *)

LEMMA Appended ==
  ASSUME NEW R, NEW s \in Seq(R), NEW x \in R
  PROVE  /\ Append(s, x) \in Seq(R)
         /\ Len(Append(s, x)) = Len(s) + 1
         /\ DOMAIN Append(s, x) = DOMAIN s \union {Len(s) + 1}
         /\ Len(s) + 1 \notin DOMAIN s
         /\ \A i \in DOMAIN s : Append(s, x)[i] = s[i]
         /\ Append(s, x)[Len(s) + 1] = x
<1>1. /\ Append(s, x) \in Seq(R) /\ Len(Append(s, x)) = Len(s) + 1
      /\ Len(s) \in Nat /\ DOMAIN s = 1 .. Len(s) /\ DOMAIN Append(s, x) = 1 .. Len(s) + 1
  OBVIOUS
<1>2. (\A i \in 1 .. Len(s) : Append(s, x)[i] = s[i]) /\ Append(s, x)[Len(s) + 1] = x
  OBVIOUS
<1>3. QED
  BY <1>1, <1>2

LEMMA Replaced ==
  ASSUME NEW R, NEW s \in Seq(R), NEW i \in DOMAIN s, NEW x \in R
  PROVE  /\ [s EXCEPT ![i] = x] \in Seq(R)
         /\ Len([s EXCEPT ![i] = x]) = Len(s)
         /\ DOMAIN [s EXCEPT ![i] = x] = DOMAIN s
         /\ [s EXCEPT ![i] = x][i] = x
         /\ \A j \in DOMAIN s \ {i} : [s EXCEPT ![i] = x][j] = s[j]
OBVIOUS

LEMMA RowOf ==
  ASSUME NEW R, NEW s \in Seq(R)
  PROVE  /\ Len(s) \in Nat /\ DOMAIN s = 1 .. Len(s)
         /\ \A i \in DOMAIN s : s[i] \in R
OBVIOUS

LEMMA LastIsThere ==
  ASSUME NEW n \in Nat, NEW S \in SUBSET (1 .. n), S # {}
  PROVE  \E k \in S : \A j \in S : j <= k
<1> DEFINE T == {n - i : i \in S}
           R == {ss \in Nat \X Nat : ss[1] < ss[2]}
<1>1. T \subseteq Nat /\ T # {}
  <2>1. \A i \in S : n - i \in Nat
    OBVIOUS
  <2>2. PICK i \in S : TRUE
    OBVIOUS
  <2>3. n - i \in T
    BY <2>2
  <2>4. QED
    BY <2>1, <2>3
<1>2. IsWellFoundedOn(R, Nat)
  BY NatLessThanWellFounded DEF OpToRel
<1>3. PICK x \in T : \A y \in T : ~(<<y, x>> \in R)
  <2> HIDE DEF T, R
  <2>1. QED
    BY <1>1, <1>2, WFMin
<1>4. PICK i \in S : x = n - i
  BY <1>3
<1>5. \A j \in S : ~(n - j < n - i)
  BY <1>1, <1>3, <1>4
<1>6. \A j \in S : j <= i
  BY <1>5
<1>7. QED
  BY <1>6

\* ToldLast and TrustedAt of any trail.
LastOf(es, table, id, words, n) ==
  LET said == {k \in 1 .. n : /\ es[k].table = table /\ es[k].id = id
                              /\ es[k].to \in words}
  IN  IF said = {} THEN 0 ELSE CHOOSE k \in said : \A j \in said : j <= k

LastIn(said) == IF said = {} THEN 0 ELSE CHOOSE k \in said : \A j \in said : j <= k

Trusted(es, table, id, n) ==
  CASE table = "decision" ->
         LET k == LastOf(es, table, id, DecisionStatuses, n) IN k # 0 /\ es[k].to = "accepted"
    [] table = "memory" ->
         LET k == LastOf(es, table, id, MemoryStatuses, n)
             f == LastOf(es, table, id, {"forgotten", "restored"}, n)
         IN  k # 0 /\ es[k].to = "approved" /\ (f = 0 \/ es[f].to = "restored")
    [] table = "dependency" -> LastOf(es, table, id, {"verified"}, n) # 0

Tables == {"decision", "memory", "dependency"}

LEMMA TrustedIsTrustedAt ==
  ASSUME NEW table \in Tables, NEW id, NEW n
  PROVE  /\ TrustedAt(table, id, n) = Trusted(events, table, id, n)
         /\ TrustedAt(table, id, n)' = Trusted(events', table, id, n)
<1>1. ASSUME NEW words
      PROVE  /\ ToldLast(table, id, words, n) = LastOf(events, table, id, words, n)
             /\ ToldLast(table, id, words, n)' = LastOf(events', table, id, words, n)
  BY DEF ToldLast, LastOf
<1>2. QED
  BY <1>1 DEF TrustedAt, Trusted, Tables

LEMMA LastOfIs ==
  ASSUME NEW es, NEW table, NEW id, NEW words, NEW n \in Nat, NEW k \in 1 .. n,
         Says(es[k], table, id, words),
         \A j \in 1 .. n : j > k => ~Says(es[j], table, id, words)
  PROVE  LastOf(es, table, id, words, n) = k
<1> DEFINE said == {j \in 1 .. n : /\ es[j].table = table /\ es[j].id = id
                                   /\ es[j].to \in words}
<1>1. k \in said /\ \A j \in said : j <= k
  BY DEF Says
<1>2. \A l \in said : (\A j \in said : j <= l) => l = k
  BY <1>1
<1>3. LastOf(es, table, id, words, n) = CHOOSE l \in said : \A j \in said : j <= l
  BY <1>1 DEF LastOf
<1> HIDE DEF said
<1>4. QED
  BY <1>1, <1>2, <1>3

LEMMA LastOfNone ==
  ASSUME NEW es, NEW table, NEW id, NEW words, NEW n \in Nat,
         \A j \in 1 .. n : ~Says(es[j], table, id, words)
  PROVE  LastOf(es, table, id, words, n) = 0
BY DEF LastOf, Says

LEMMA LastOfSome ==
  ASSUME NEW es, NEW table, NEW id, NEW words, NEW n \in Nat,
         \E k \in 1 .. n : Says(es[k], table, id, words)
  PROVE  LastOf(es, table, id, words, n) \in 1 .. n
<1> DEFINE said == {j \in 1 .. n : /\ es[j].table = table /\ es[j].id = id
                                   /\ es[j].to \in words}
<1>1. said # {} /\ LastOf(es, table, id, words, n) = CHOOSE l \in said : \A j \in said : j <= l
  BY DEF LastOf, Says
<1>2. said \in SUBSET (1 .. n)
  OBVIOUS
<1> HIDE DEF said
<1>3. \E k \in said : \A j \in said : j <= k
  BY <1>1, <1>2, LastIsThere
<1>4. QED
  BY <1>1, <1>2, <1>3

LEMMA LastOfIsThere ==
  ASSUME NEW es, NEW table, NEW id, NEW words, NEW n \in Nat,
         LastOf(es, table, id, words, n) # 0
  PROVE  LastOf(es, table, id, words, n) \in 1 .. n
BY LastOfNone, LastOfSome

\* What the trail had told of a row stays told, whatever is added.
LEMMA TrustedStill ==
  ASSUME NEW es \in Seq(Events), NEW e \in Events, NEW table \in Tables, NEW id,
         NEW n \in 0 .. Len(es)
  PROVE  Trusted(Append(es, e), table, id, n) = Trusted(es, table, id, n)
<1> DEFINE fs == Append(es, e)
<1>1. n \in Nat /\ \A k \in 1 .. n : fs[k] = es[k]
  BY Appended
<1> HIDE DEF fs
<1>2. ASSUME NEW words
      PROVE  LastOf(fs, table, id, words, n) = LastOf(es, table, id, words, n)
  <2> DEFINE said(tr) == {k \in 1 .. n : tr[k].table = table /\ tr[k].id = id /\ tr[k].to \in words}
  <2>1. said(fs) = said(es)
    BY <1>1
  <2>2. /\ LastOf(fs, table, id, words, n) = LastIn(said(fs))
        /\ LastOf(es, table, id, words, n) = LastIn(said(es))
    BY DEF LastOf, LastIn
  <2>3. QED
    BY <2>1, <2>2
<1>3. ASSUME NEW words, LastOf(es, table, id, words, n) # 0
      PROVE  fs[LastOf(es, table, id, words, n)] = es[LastOf(es, table, id, words, n)]
  BY <1>1, <1>3, LastOfIsThere
<1>4. Trusted(fs, table, id, n) = Trusted(es, table, id, n)
  <2>1. CASE table = "decision"
    BY <1>2, <1>3, <2>1 DEF Trusted
  <2>2. CASE table = "memory"
    BY <1>2, <1>3, <2>2 DEF Trusted
  <2>3. CASE table = "dependency"
    BY <1>2, <1>3, <2>3 DEF Trusted
  <2>4. QED
    BY <2>1, <2>2, <2>3 DEF Tables
<1>5. QED
  BY <1>4 DEF fs

LEMMA SaidNow ==
  ASSUME NEW es \in Seq(Events), NEW e \in Events, NEW table, NEW id, NEW words,
         Says(e, table, id, words)
  PROVE  /\ Len(es) + 1 \in DOMAIN Append(es, e)
         /\ Append(es, e)[Len(es) + 1] = e
         /\ SaidLast(Append(es, e), table, id, words, Len(es) + 1)
<1>1. /\ Len(es) \in Nat /\ DOMAIN Append(es, e) = 1 .. Len(es) + 1
      /\ Append(es, e)[Len(es) + 1] = e
  BY Appended, RowOf
<1>2. QED
  BY <1>1 DEF SaidLast

LEMMA SaidStill ==
  ASSUME NEW es \in Seq(Events), NEW e \in Events, NEW table, NEW id, NEW words, NEW k,
         SaidLast(es, table, id, words, k), ~Says(e, table, id, words)
  PROVE  /\ k \in DOMAIN Append(es, e) /\ Append(es, e)[k] = es[k]
         /\ SaidLast(Append(es, e), table, id, words, k)
BY Appended DEF SaidLast

-----------------------------------------------------------------------------
(* What an added event leaves told, and what it tells.                     *)

LEMMA DecisionStill ==
  ASSUME NEW es \in Seq(Events), NEW e \in Events, NEW i, NEW row, NEW new,
         DecisionTold(es, i, row), new.status = row.status,
         ~Says(e, "decision", i, DecisionStatuses)
  PROVE  DecisionTold(Append(es, e), i, new)
BY SaidStill DEF DecisionTold

LEMMA DecisionNow ==
  ASSUME NEW es \in Seq(Events), NEW e \in Events, NEW i, NEW row,
         Says(e, "decision", i, DecisionStatuses), e.to = row.status
  PROVE  DecisionTold(Append(es, e), i, row)
BY SaidNow DEF DecisionTold

LEMMA MemoryStill ==
  ASSUME NEW es \in Seq(Events), NEW e \in Events, NEW i, NEW row, NEW new,
         MemoryTold(es, i, row), new.status = row.status,
         ~Says(e, "memory", i, MemoryStatuses)
  PROVE  MemoryTold(Append(es, e), i, new)
BY SaidStill DEF MemoryTold

LEMMA MemoryNow ==
  ASSUME NEW es \in Seq(Events), NEW e \in Events, NEW i, NEW row,
         Says(e, "memory", i, MemoryStatuses), e.to = row.status
  PROVE  MemoryTold(Append(es, e), i, row)
BY SaidNow DEF MemoryTold

LEMMA StaleStill ==
  ASSUME NEW es \in Seq(Events), NEW e \in Events, NEW i, NEW row, NEW new,
         StaleTold(es, i, row), new.stale = row.stale,
         ~Says(e, "memory", i, {"forgotten", "restored"})
  PROVE  StaleTold(Append(es, e), i, new)
<1> DEFINE words == {"forgotten", "restored"}
<1>1. CASE ~row.stale /\ \A k \in DOMAIN es : ~Says(es[k], "memory", i, words)
  BY <1>1, Appended DEF StaleTold
<1>2. CASE \E k \in DOMAIN es : SaidLast(es, "memory", i, words, k)
                               /\ (row.stale <=> es[k].to = "forgotten")
  <2>1. PICK k \in DOMAIN es : SaidLast(es, "memory", i, words, k)
                               /\ (row.stale <=> es[k].to = "forgotten")
    BY <1>2
  <2> HIDE DEF words
  <2>2. /\ k \in DOMAIN Append(es, e) /\ Append(es, e)[k] = es[k]
        /\ SaidLast(Append(es, e), "memory", i, words, k)
    BY <2>1, SaidStill DEF words
  <2>3. QED
    BY <2>1, <2>2 DEF StaleTold, words
<1>3. QED
  BY <1>1, <1>2 DEF StaleTold

LEMMA StaleNow ==
  ASSUME NEW es \in Seq(Events), NEW e \in Events, NEW i, NEW row,
         Says(e, "memory", i, {"forgotten", "restored"}), row.stale <=> e.to = "forgotten"
  PROVE  StaleTold(Append(es, e), i, row)
BY SaidNow DEF StaleTold

\* A row nothing was said of yet.
LEMMA StaleFresh ==
  ASSUME NEW es \in Seq(Events), NEW e \in Events, NEW i, NEW row, ~row.stale,
         \A k \in DOMAIN es : es[k].table = "memory" => es[k].id # i,
         ~Says(e, "memory", i, {"forgotten", "restored"})
  PROVE  StaleTold(Append(es, e), i, row)
BY Appended DEF StaleTold, Says

LEMMA DependencyStill ==
  ASSUME NEW es \in Seq(Events), NEW e \in Events, NEW i, NEW v,
         DependencyTold(es, i, v), ~Says(e, "dependency", i, {"verified"})
  PROVE  DependencyTold(Append(es, e), i, v)
BY Appended DEF DependencyTold

LEMMA DependencyNow ==
  ASSUME NEW es \in Seq(Events), NEW e \in Events, NEW i,
         Says(e, "dependency", i, {"verified"})
  PROVE  DependencyTold(Append(es, e), i, TRUE)
BY SaidNow DEF DependencyTold

LEMMA DependencyFresh ==
  ASSUME NEW es \in Seq(Events), NEW e \in Events, NEW i,
         \A k \in DOMAIN es : es[k].table = "dependency" => es[k].id # i,
         ~Says(e, "dependency", i, {"verified"})
  PROVE  DependencyTold(Append(es, e), i, FALSE)
BY Appended DEF DependencyTold, Says

-----------------------------------------------------------------------------
(* What a step does to the tables and the trail.                           *)

Untold == UNCHANGED <<decisions, memory, dependencies, events>>

DecisionAdded(p) ==
  \E from \in 0 .. Len(notes), since \in 0 .. Len(events) : InsertDecision(p, from, since)

DecisionChanged(p) ==
  \E i \in DOMAIN decisions, to \in {"accepted"} \union Retired, by \in Nat,
     since \in 0 .. Len(events) :
    /\ by \in {0} \union (DOMAIN decisions \ {i})
    /\ to = "accepted" => p \in Deciders
    /\ to # "accepted" /\ p \notin Deciders => ~TrustedAt("decision", i, since)
    /\ decisions' = [decisions EXCEPT ![i] = [status |-> to, by |-> by,
                                              from |-> decisions[i].from]]
    /\ Tell("decision", i, to, p, since)
    /\ UNCHANGED <<memory, dependencies>>

MemoryAdded(p) ==
  \E kind \in Kinds, source \in Sources, since \in 0 .. Len(events) :
    /\ source.kind = "note" => source.of <= Len(notes)
    /\ InsertMemory(p, kind, source, since)

MemoryReviewed(p) ==
  \E i \in DOMAIN memory, to \in {"approved", "rejected"} :
    /\ to = "approved" => p \in Deciders
    /\ memory' = [memory EXCEPT ![i].status = to]
    /\ Tell("memory", i, to, p, Len(events))
    /\ UNCHANGED <<decisions, dependencies>>

MemoryAged(p) ==
  \E i \in DOMAIN memory, stale \in BOOLEAN :
    /\ memory' = [memory EXCEPT ![i].stale = stale]
    /\ Tell("memory", i, IF stale THEN "forgotten" ELSE "restored", p, Len(events))
    /\ UNCHANGED <<decisions, dependencies>>

DependencyAdded(p) ==
  \E verified \in BOOLEAN :
    /\ verified => p \in Deciders
    /\ dependencies' = Append(dependencies, verified)
    /\ Tell("dependency", Len(dependencies) + 1, IF verified THEN "verified" ELSE "added",
            p, Len(events))
    /\ UNCHANGED <<decisions, memory>>

DependencyVerified(p) ==
  \E i \in DOMAIN dependencies :
    /\ p \in Deciders
    /\ dependencies' = [dependencies EXCEPT ![i] = TRUE]
    /\ Tell("dependency", i, "verified", p, Len(events))
    /\ UNCHANGED <<decisions, memory>>

\* Touching an entry, recording and marking notes: no word on trust.
Mentioned(p) ==
  \E table \in {"memory", "note"}, id \in Nat,
     to \in {"reconfirmed", "recorded", "promoted"}, since \in 0 .. Len(events) :
    /\ table = "memory" => id \in DOMAIN memory
    /\ Tell(table, id, to, p, since)
    /\ UNCHANGED <<decisions, memory, dependencies>>

Effect(p) ==
  \/ Untold \/ DecisionAdded(p) \/ DecisionChanged(p) \/ MemoryAdded(p) \/ MemoryReviewed(p)
  \/ MemoryAged(p) \/ DependencyAdded(p) \/ DependencyVerified(p) \/ Mentioned(p)

\* Rows are only added, and keep what they were made of; the trail grows by an
\* event at most, which a person stands for when it must.
Grows ==
  /\ decisions' \in Seq(DecisionRows) /\ Len(decisions) <= Len(decisions')
  /\ memory' \in Seq(MemoryRows) /\ Len(memory) <= Len(memory')
  /\ dependencies' \in Seq(BOOLEAN) /\ Len(dependencies) <= Len(dependencies')
  /\ \A i \in DOMAIN decisions' : decisions'[i].by \in {0} \union (DOMAIN decisions' \ {i})
  /\ \A i \in DOMAIN decisions : decisions'[i].from = decisions[i].from
  /\ \A i \in DOMAIN memory : memory'[i].source = memory[i].source
  /\ \A i \in DOMAIN decisions' \ DOMAIN decisions : decisions'[i].from <= Len(notes)
  /\ \A i \in DOMAIN memory' \ DOMAIN memory :
       memory'[i].source.kind = "note" => memory'[i].source.of <= Len(notes)

Stood(e) ==
  /\ e.since <= Len(events)
  /\ e.table = "memory" => e.id \in DOMAIN memory'
  /\ e.table = "dependency" => e.id \in DOMAIN dependencies'
  /\ e.to \in {"accepted", "verified"} => e.by \in Deciders
  /\ e.table = "memory" /\ e.to = "approved" =>
       \/ e.by \in Deciders /\ e.id \in DOMAIN memory
       \/ e.by \notin Agents /\ memory'[e.id].source.kind \notin Drafted
  /\ e.table = "decision" /\ e.to \in Retired /\ e.by \notin Deciders =>
       ~TrustedAt("decision", e.id, e.since)

TrailGrows ==
  \/ UNCHANGED events
  \/ \E e \in Events : Stood(e) /\ events' = Append(events, e)

LEMMA TypedFacts ==
  ASSUME Typed
  PROVE  /\ decisions \in Seq(DecisionRows) /\ memory \in Seq(MemoryRows)
         /\ notes \in Seq(NoteRows) /\ dependencies \in Seq(BOOLEAN)
         /\ events \in Seq(Events) /\ mem \in [Procs -> Remembered]
         /\ DOMAIN pc = Procs /\ DOMAIN mem = Procs
         /\ Len(decisions) \in Nat /\ DOMAIN decisions = 1 .. Len(decisions)
         /\ Len(memory) \in Nat /\ DOMAIN memory = 1 .. Len(memory)
         /\ Len(notes) \in Nat /\ DOMAIN notes = 1 .. Len(notes)
         /\ Len(dependencies) \in Nat /\ DOMAIN dependencies = 1 .. Len(dependencies)
         /\ Len(events) \in Nat /\ DOMAIN events = 1 .. Len(events)
         /\ \A i \in DOMAIN decisions : decisions[i] \in DecisionRows
         /\ \A i \in DOMAIN memory : memory[i] \in MemoryRows
         /\ \A n \in DOMAIN notes : notes[n] \in NoteRows
         /\ \A k \in DOMAIN events : events[k] \in Events
         /\ \A p \in Procs : mem[p] \in Remembered /\ mem[p].since \in 0 .. Len(events)
<1>1. /\ decisions \in Seq(DecisionRows) /\ memory \in Seq(MemoryRows)
      /\ notes \in Seq(NoteRows) /\ dependencies \in Seq(BOOLEAN)
      /\ events \in Seq(Events) /\ mem \in [Procs -> Remembered]
      /\ DOMAIN pc = Procs
      /\ \A p \in Procs : mem[p].since \in 0 .. Len(events)
  BY DEF Typed, TypeOK, DecisionRows, MemoryRows, NoteRows, Sources
<1>2. QED
  BY <1>1, RowOf

LEMMA Told4 ==
  ASSUME NEW table \in {"decision", "memory", "note", "dependency"}, NEW id \in Nat,
         NEW to \in Words, NEW p \in Procs, NEW since \in Nat, NEW e,
         e = Told(table, id, to, p, since)
  PROVE  /\ e \in Events /\ e.table = table /\ e.id = id /\ e.to = to /\ e.by = p
         /\ e.since = since
BY DEF Told, Events

-----------------------------------------------------------------------------
(* What the tables keep.                                                   *)

LEMMA DecisionAddedKeeps ==
  ASSUME Typed, Fits, Trail, NEW p \in Procs, DecisionAdded(p)
  PROVE  Grows /\ TrailGrows /\ Trail'
<1>1. PICK from \in 0 .. Len(notes), since \in 0 .. Len(events) : InsertDecision(p, from, since)
  BY DEF DecisionAdded
<1> DEFINE row == [status |-> "proposed", by |-> 0, from |-> from]
           new == Len(decisions) + 1
           e == Told("decision", new, "proposed", p, since)
<1>2. /\ decisions' = Append(decisions, row) /\ events' = Append(events, e)
      /\ UNCHANGED <<memory, dependencies>>
  BY <1>1 DEF InsertDecision, Tell
<1>3. from \in Nat /\ since \in Nat /\ new \in Nat
  BY TypedFacts
<1>4. row \in DecisionRows /\ row.by = 0 /\ row.from = from /\ row.status = "proposed"
  BY <1>3 DEF DecisionRows, DecisionStatuses
<1>5. /\ e \in Events /\ e.table = "decision" /\ e.id = new /\ e.to = "proposed"
      /\ e.since = since
  BY <1>3, Told4 DEF Words, DecisionStatuses
<1> HIDE DEF row, e
<1>6. Grows
  <2>1. \A i \in DOMAIN decisions : decisions[i].by \in {0} \union (DOMAIN decisions \ {i})
    BY DEF Typed, TypeOK
  <2>2. QED
    BY <1>2, <1>4, <2>1, TypedFacts, Appended DEF Grows
<1>7. TrailGrows
  <2>1. since <= Len(events)
    BY TypedFacts
  <2>2. Stood(e)
    BY <1>5, <2>1 DEF Stood, Retired
  <2>3. QED
    BY <1>2, <1>5, <2>2 DEF TrailGrows
<1>8. \A i \in DOMAIN decisions' : DecisionTold(events', i, decisions'[i])
  <2>1. ASSUME NEW i \in DOMAIN decisions PROVE DecisionTold(events', i, decisions'[i])
    <3>1. decisions'[i] = decisions[i] /\ DecisionTold(events, i, decisions[i]) /\ i # new
      BY <1>2, <1>4, TypedFacts, Appended DEF Trail
    <3>2. ~Says(e, "decision", i, DecisionStatuses)
      BY <1>5, <3>1 DEF Says
    <3>3. QED
      BY <1>2, <1>5, <3>1, <3>2, DecisionStill, TypedFacts
  <2>2. DecisionTold(events', new, decisions'[new])
    <3>1. decisions'[new] = row
      BY <1>2, <1>4, TypedFacts, Appended
    <3>2. Says(e, "decision", new, DecisionStatuses)
      BY <1>5 DEF Says, DecisionStatuses
    <3>3. QED
      BY <1>2, <1>4, <1>5, <3>1, <3>2, DecisionNow, TypedFacts
  <2>3. DOMAIN decisions' = DOMAIN decisions \union {new}
    BY <1>2, <1>4, TypedFacts, Appended
  <2>4. QED
    BY <2>1, <2>2, <2>3
<1>9. \A i \in DOMAIN memory' : MemoryTold(events', i, memory'[i]) /\ StaleTold(events', i, memory'[i])
  BY <1>2, <1>5, MemoryStill, StaleStill, TypedFacts DEF Trail, Says
<1>10. \A i \in DOMAIN dependencies' : DependencyTold(events', i, dependencies'[i])
  BY <1>2, <1>5, DependencyStill, TypedFacts DEF Trail, Says
<1>11. QED
  BY <1>6, <1>7, <1>8, <1>9, <1>10 DEF Trail

LEMMA DecisionChangedKeeps ==
  ASSUME Typed, Fits, Trail, NEW p \in Procs, DecisionChanged(p)
  PROVE  Grows /\ TrailGrows /\ Trail'
<1>1. PICK i \in DOMAIN decisions, to \in {"accepted"} \union Retired, by \in Nat,
           since \in 0 .. Len(events) :
        /\ by \in {0} \union (DOMAIN decisions \ {i})
        /\ to = "accepted" => p \in Deciders
        /\ to # "accepted" /\ p \notin Deciders => ~TrustedAt("decision", i, since)
        /\ decisions' = [decisions EXCEPT ![i] = [status |-> to, by |-> by,
                                                  from |-> decisions[i].from]]
        /\ Tell("decision", i, to, p, since)
        /\ UNCHANGED <<memory, dependencies>>
  BY DEF DecisionChanged
<1> DEFINE row == [status |-> to, by |-> by, from |-> decisions[i].from]
           e == Told("decision", i, to, p, since)
<1>2. /\ decisions' = [decisions EXCEPT ![i] = row] /\ events' = Append(events, e)
      /\ UNCHANGED <<memory, dependencies>>
  BY <1>1 DEF Tell
<1>3. i \in Nat /\ since \in Nat /\ to \in DecisionStatuses /\ to \in Words /\ to # "verified"
  BY TypedFacts DEF DecisionStatuses, Words, Retired
<1>4. row \in DecisionRows /\ row.by = by /\ row.from = decisions[i].from /\ row.status = to
  <2>1. decisions[i].from \in Nat
    BY TypedFacts DEF DecisionRows
  <2>2. QED
    BY <1>3, <2>1 DEF DecisionRows
<1>5. /\ e \in Events /\ e.table = "decision" /\ e.id = i /\ e.to = to
      /\ e.since = since /\ e.by = p
  BY <1>3, Told4
<1> HIDE DEF row, e
<1>6. /\ DOMAIN decisions' = DOMAIN decisions /\ Len(decisions') = Len(decisions)
      /\ decisions' \in Seq(DecisionRows) /\ decisions'[i] = row
      /\ \A j \in DOMAIN decisions \ {i} : decisions'[j] = decisions[j]
  BY <1>2, <1>4, TypedFacts, Replaced
<1>7. Grows
  <2>1. \A j \in DOMAIN decisions : decisions[j].by \in {0} \union (DOMAIN decisions \ {j})
    BY DEF Typed, TypeOK
  <2>2. \A j \in DOMAIN decisions' : decisions'[j].by \in {0} \union (DOMAIN decisions' \ {j})
    BY <1>1, <1>4, <1>6, <2>1
  <2>3. \A j \in DOMAIN decisions : decisions'[j].from = decisions[j].from
    BY <1>4, <1>6
  <2>4. QED
    BY <1>2, <1>6, <2>2, <2>3, TypedFacts DEF Grows
<1>8. TrailGrows
  <2>1. since <= Len(events)
    BY TypedFacts
  <2>2. Stood(e)
    BY <1>1, <1>3, <1>5, <2>1 DEF Stood, Retired
  <2>3. QED
    BY <1>2, <1>5, <2>2 DEF TrailGrows
<1>9. \A j \in DOMAIN decisions' : DecisionTold(events', j, decisions'[j])
  <2>1. ASSUME NEW j \in DOMAIN decisions \ {i} PROVE DecisionTold(events', j, decisions'[j])
    <3>1. decisions'[j] = decisions[j] /\ DecisionTold(events, j, decisions[j])
      BY <1>6 DEF Trail
    <3>2. ~Says(e, "decision", j, DecisionStatuses)
      BY <1>5 DEF Says
    <3>3. QED
      BY <1>2, <1>5, <3>1, <3>2, DecisionStill, TypedFacts
  <2>2. DecisionTold(events', i, decisions'[i])
    <3>1. Says(e, "decision", i, DecisionStatuses)
      BY <1>3, <1>5 DEF Says
    <3>2. QED
      BY <1>2, <1>4, <1>5, <1>6, <3>1, DecisionNow, TypedFacts
  <2>3. QED
    BY <1>6, <2>1, <2>2
<1>10. \A j \in DOMAIN memory' : MemoryTold(events', j, memory'[j]) /\ StaleTold(events', j, memory'[j])
  BY <1>2, <1>5, MemoryStill, StaleStill, TypedFacts DEF Trail, Says
<1>11. \A j \in DOMAIN dependencies' : DependencyTold(events', j, dependencies'[j])
  BY <1>2, <1>5, DependencyStill, TypedFacts DEF Trail, Says
<1>12. QED
  BY <1>7, <1>8, <1>9, <1>10, <1>11 DEF Trail

LEMMA MemoryAddedKeeps ==
  ASSUME Typed, Fits, Trail, NEW p \in Procs, MemoryAdded(p)
  PROVE  Grows /\ TrailGrows /\ Trail'
<1>1. PICK kind \in Kinds, source \in Sources, since \in 0 .. Len(events) :
        /\ source.kind = "note" => source.of <= Len(notes)
        /\ InsertMemory(p, kind, source, since)
  BY DEF MemoryAdded
<1> DEFINE status == StatusOnArrival(p, source.kind \in Drafted)
           row == [kind |-> kind, status |-> status, stale |-> FALSE, source |-> source]
           new == Len(memory) + 1
           e == Told("memory", new, status, p, since)
<1>2. /\ memory' = Append(memory, row) /\ events' = Append(events, e)
      /\ UNCHANGED <<decisions, dependencies>>
  BY <1>1 DEF InsertMemory, Tell
<1>3. /\ since \in Nat /\ new \in Nat /\ status \in MemoryStatuses /\ status \in Words
      /\ status \notin {"accepted", "verified", "forgotten", "restored"}
      /\ status = "approved" => p \notin Agents /\ source.kind \notin Drafted
  BY TypedFacts DEF StatusOnArrival, MemoryStatuses, Words
<1> HIDE DEF status
<1>4. row \in MemoryRows /\ row.source = source /\ row.status = status /\ ~row.stale
  BY <1>3 DEF MemoryRows
<1>5. /\ e \in Events /\ e.table = "memory" /\ e.id = new /\ e.to = status
      /\ e.since = since /\ e.by = p
  BY <1>3, Told4
<1> HIDE DEF row, e
<1>6. /\ DOMAIN memory' = DOMAIN memory \union {new} /\ Len(memory') = Len(memory) + 1
      /\ memory' \in Seq(MemoryRows) /\ memory'[new] = row /\ new \notin DOMAIN memory
      /\ \A i \in DOMAIN memory : memory'[i] = memory[i]
  BY <1>2, <1>4, TypedFacts, Appended
<1>7. Grows
  <2>1. \A i \in DOMAIN decisions : decisions[i].by \in {0} \union (DOMAIN decisions \ {i})
    BY DEF Typed, TypeOK
  <2>2. QED
    BY <1>1, <1>2, <1>4, <1>6, <2>1, TypedFacts DEF Grows
<1>8. TrailGrows
  <2>1. since <= Len(events)
    BY TypedFacts
  <2>2. Stood(e)
    BY <1>3, <1>4, <1>5, <1>6, <2>1 DEF Stood, Retired
  <2>3. QED
    BY <1>2, <1>5, <2>2 DEF TrailGrows
<1>9. \A i \in DOMAIN decisions' : DecisionTold(events', i, decisions'[i])
  BY <1>2, <1>5, DecisionStill, TypedFacts DEF Trail, Says
<1>10. \A i \in DOMAIN memory' : MemoryTold(events', i, memory'[i]) /\ StaleTold(events', i, memory'[i])
  <2>1. ASSUME NEW i \in DOMAIN memory
        PROVE  MemoryTold(events', i, memory'[i]) /\ StaleTold(events', i, memory'[i])
    <3>1. memory'[i] = memory[i] /\ MemoryTold(events, i, memory[i])
          /\ StaleTold(events, i, memory[i])
      BY <1>6 DEF Trail
    <3>2. /\ ~Says(e, "memory", i, MemoryStatuses)
          /\ ~Says(e, "memory", i, {"forgotten", "restored"})
      BY <1>5, <1>6 DEF Says
    <3>3. QED
      BY <1>2, <1>5, <3>1, <3>2, MemoryStill, StaleStill, TypedFacts
  <2>2. MemoryTold(events', new, memory'[new])
    <3>1. Says(e, "memory", new, MemoryStatuses)
      BY <1>3, <1>5 DEF Says
    <3>2. QED
      BY <1>2, <1>4, <1>5, <1>6, <3>1, MemoryNow, TypedFacts
  <2>3. StaleTold(events', new, memory'[new])
    <3>1. \A k \in DOMAIN events : events[k].table = "memory" => events[k].id # new
      BY <1>6 DEF Fits
    <3>2. ~Says(e, "memory", new, {"forgotten", "restored"})
      BY <1>3, <1>5 DEF Says
    <3>3. QED
      BY <1>2, <1>4, <1>5, <1>6, <3>1, <3>2, StaleFresh, TypedFacts
  <2>4. QED
    BY <1>6, <2>1, <2>2, <2>3
<1>11. \A i \in DOMAIN dependencies' : DependencyTold(events', i, dependencies'[i])
  BY <1>2, <1>5, DependencyStill, TypedFacts DEF Trail, Says
<1>12. QED
  BY <1>7, <1>8, <1>9, <1>10, <1>11 DEF Trail

\* A row of memory replaced by one of the same source, as event e tells it.
LEMMA MemoryChangedKeeps ==
  ASSUME Typed, Fits, Trail, NEW p \in Procs, NEW i \in DOMAIN memory, NEW row \in MemoryRows,
         NEW e \in Events, memory' = [memory EXCEPT ![i] = row], events' = Append(events, e),
         UNCHANGED <<decisions, dependencies>>,
         row.source = memory[i].source, e.table = "memory", e.id = i, e.since <= Len(events),
         e.to \notin {"accepted", "verified"}, e.to = "approved" => e.by \in Deciders,
         \/ /\ row.stale = memory[i].stale /\ row.status = e.to
            /\ e.to \notin {"forgotten", "restored"} /\ e.to \in MemoryStatuses
         \/ /\ row.status = memory[i].status /\ row.stale = (e.to = "forgotten")
            /\ e.to \in {"forgotten", "restored"}
  PROVE  Grows /\ TrailGrows /\ Trail'
<1>1. /\ DOMAIN memory' = DOMAIN memory /\ Len(memory') = Len(memory)
      /\ memory' \in Seq(MemoryRows) /\ memory'[i] = row
      /\ \A j \in DOMAIN memory \ {i} : memory'[j] = memory[j]
  BY TypedFacts, Replaced
<1>2. Grows
  <2>1. \A j \in DOMAIN decisions : decisions[j].by \in {0} \union (DOMAIN decisions \ {j})
    BY DEF Typed, TypeOK
  <2>2. \A j \in DOMAIN memory : memory'[j].source = memory[j].source
    BY <1>1
  <2>3. QED
    BY <1>1, <2>1, <2>2, TypedFacts DEF Grows
<1>3. TrailGrows
  <2>1. Stood(e)
    BY <1>1 DEF Stood
  <2>2. QED
    BY <2>1 DEF TrailGrows
<1>4. \A j \in DOMAIN decisions' : DecisionTold(events', j, decisions'[j])
  BY DecisionStill, TypedFacts DEF Trail, Says
<1>5. \A j \in DOMAIN memory' : MemoryTold(events', j, memory'[j]) /\ StaleTold(events', j, memory'[j])
  <2>1. ASSUME NEW j \in DOMAIN memory \ {i}
        PROVE  MemoryTold(events', j, memory'[j]) /\ StaleTold(events', j, memory'[j])
    <3>1. memory'[j] = memory[j] /\ MemoryTold(events, j, memory[j])
          /\ StaleTold(events, j, memory[j])
      BY <1>1 DEF Trail
    <3>2. /\ ~Says(e, "memory", j, MemoryStatuses)
          /\ ~Says(e, "memory", j, {"forgotten", "restored"})
      BY DEF Says
    <3>3. QED
      BY <3>1, <3>2, MemoryStill, StaleStill, TypedFacts
  <2>2. MemoryTold(events, i, memory[i]) /\ StaleTold(events, i, memory[i])
    BY DEF Trail
  <2>3. CASE /\ row.stale = memory[i].stale /\ row.status = e.to
             /\ e.to \notin {"forgotten", "restored"} /\ e.to \in MemoryStatuses
    <3>1. /\ Says(e, "memory", i, MemoryStatuses)
          /\ ~Says(e, "memory", i, {"forgotten", "restored"})
      BY <2>3 DEF Says
    <3>2. MemoryTold(events', i, row)
      BY <2>3, <3>1, MemoryNow, TypedFacts
    <3>3. StaleTold(events', i, row)
      BY <2>2, <2>3, <3>1, StaleStill, TypedFacts
    <3>4. QED
      BY <1>1, <2>1, <3>2, <3>3
  <2>4. CASE /\ row.status = memory[i].status /\ row.stale = (e.to = "forgotten")
             /\ e.to \in {"forgotten", "restored"}
    <3>1. /\ ~Says(e, "memory", i, MemoryStatuses)
          /\ Says(e, "memory", i, {"forgotten", "restored"})
      BY <2>4 DEF Says, MemoryStatuses
    <3>2. MemoryTold(events', i, row)
      BY <2>2, <2>4, <3>1, MemoryStill, TypedFacts
    <3>3. StaleTold(events', i, row)
      BY <2>4, <3>1, StaleNow, TypedFacts
    <3>4. QED
      BY <1>1, <2>1, <3>2, <3>3
  <2>5. QED
    BY <2>3, <2>4
<1>6. \A j \in DOMAIN dependencies' : DependencyTold(events', j, dependencies'[j])
  BY DependencyStill, TypedFacts DEF Trail, Says
<1>7. QED
  BY <1>2, <1>3, <1>4, <1>5, <1>6 DEF Trail

LEMMA MemoryRow ==
  ASSUME NEW row \in MemoryRows
  PROVE  /\ \A to \in MemoryStatuses :
              /\ [row EXCEPT !.status = to] \in MemoryRows
              /\ [row EXCEPT !.status = to].status = to
              /\ [row EXCEPT !.status = to].stale = row.stale
              /\ [row EXCEPT !.status = to].source = row.source
         /\ \A stale \in BOOLEAN :
              /\ [row EXCEPT !.stale = stale] \in MemoryRows
              /\ [row EXCEPT !.stale = stale].status = row.status
              /\ [row EXCEPT !.stale = stale].stale = stale
              /\ [row EXCEPT !.stale = stale].source = row.source
BY DEF MemoryRows

LEMMA MemoryReviewedKeeps ==
  ASSUME Typed, Fits, Trail, NEW p \in Procs, MemoryReviewed(p)
  PROVE  Grows /\ TrailGrows /\ Trail'
<1>1. PICK i \in DOMAIN memory, to \in {"approved", "rejected"} :
        /\ to = "approved" => p \in Deciders
        /\ memory' = [memory EXCEPT ![i].status = to]
        /\ Tell("memory", i, to, p, Len(events))
        /\ UNCHANGED <<decisions, dependencies>>
  BY DEF MemoryReviewed
<1> DEFINE row == [memory[i] EXCEPT !.status = to]
           e == Told("memory", i, to, p, Len(events))
<1>2. /\ memory' = [memory EXCEPT ![i] = row] /\ events' = Append(events, e)
  BY <1>1 DEF Tell
<1>3. to \in MemoryStatuses /\ to \in Words /\ i \in Nat /\ Len(events) \in Nat
      /\ memory[i] \in MemoryRows
  BY TypedFacts DEF MemoryStatuses, Words
<1>4. /\ row \in MemoryRows /\ row.source = memory[i].source
      /\ row.stale = memory[i].stale /\ row.status = to
  BY <1>3, MemoryRow
<1>5. /\ e \in Events /\ e.table = "memory" /\ e.id = i /\ e.to = to
      /\ e.since = Len(events) /\ e.by = p
  BY <1>3, Told4
<1> HIDE DEF row, e
<1>6. /\ e.since <= Len(events) /\ e.to \notin {"accepted", "verified", "forgotten", "restored"}
      /\ e.to = "approved" => e.by \in Deciders
      /\ row.stale = memory[i].stale /\ row.status = e.to /\ e.to \in MemoryStatuses
  BY <1>1, <1>3, <1>4, <1>5
<1>7. QED
  BY <1>1, <1>2, <1>4, <1>5, <1>6, MemoryChangedKeeps

LEMMA MemoryAgedKeeps ==
  ASSUME Typed, Fits, Trail, NEW p \in Procs, MemoryAged(p)
  PROVE  Grows /\ TrailGrows /\ Trail'
<1>1. PICK i \in DOMAIN memory, stale \in BOOLEAN :
        /\ memory' = [memory EXCEPT ![i].stale = stale]
        /\ Tell("memory", i, IF stale THEN "forgotten" ELSE "restored", p, Len(events))
        /\ UNCHANGED <<decisions, dependencies>>
  BY DEF MemoryAged
<1> DEFINE row == [memory[i] EXCEPT !.stale = stale]
           to == IF stale THEN "forgotten" ELSE "restored"
           e == Told("memory", i, to, p, Len(events))
<1>2. /\ memory' = [memory EXCEPT ![i] = row] /\ events' = Append(events, e)
  BY <1>1 DEF Tell
<1>3. to \in {"forgotten", "restored"} /\ to \in Words /\ i \in Nat /\ Len(events) \in Nat
      /\ memory[i] \in MemoryRows /\ stale = (to = "forgotten")
  BY TypedFacts DEF Words
<1>4. /\ row \in MemoryRows /\ row.source = memory[i].source
      /\ row.stale = stale /\ row.status = memory[i].status
  BY <1>3, MemoryRow
<1> HIDE DEF to
<1>5. /\ e \in Events /\ e.table = "memory" /\ e.id = i /\ e.to = to
      /\ e.since = Len(events) /\ e.by = p
  BY <1>3, Told4
<1> HIDE DEF row, e
<1>6. /\ e.since <= Len(events) /\ e.to \in {"forgotten", "restored"}
      /\ e.to \notin {"accepted", "verified", "approved"}
      /\ row.stale = (e.to = "forgotten") /\ row.status = memory[i].status
  BY <1>1, <1>3, <1>4, <1>5
<1>7. QED
  BY <1>1, <1>2, <1>4, <1>5, <1>6, MemoryChangedKeeps

LEMMA DependencyAddedKeeps ==
  ASSUME Typed, Fits, Trail, NEW p \in Procs, DependencyAdded(p)
  PROVE  Grows /\ TrailGrows /\ Trail'
<1>1. PICK verified \in BOOLEAN :
        /\ verified => p \in Deciders
        /\ dependencies' = Append(dependencies, verified)
        /\ Tell("dependency", Len(dependencies) + 1, IF verified THEN "verified" ELSE "added",
                p, Len(events))
        /\ UNCHANGED <<decisions, memory>>
  BY DEF DependencyAdded
<1> DEFINE new == Len(dependencies) + 1
           to == IF verified THEN "verified" ELSE "added"
           e == Told("dependency", new, to, p, Len(events))
<1>2. events' = Append(events, e)
  BY <1>1 DEF Tell
<1>3. /\ new \in Nat /\ Len(events) \in Nat /\ to \in {"verified", "added"} /\ to \in Words
      /\ verified <=> to = "verified"
  BY TypedFacts DEF Words
<1> HIDE DEF to
<1>4. /\ e \in Events /\ e.table = "dependency" /\ e.id = new /\ e.to = to
      /\ e.since = Len(events) /\ e.by = p
  BY <1>3, Told4
<1> HIDE DEF e
<1>5. /\ DOMAIN dependencies' = DOMAIN dependencies \union {new}
      /\ Len(dependencies') = Len(dependencies) + 1
      /\ dependencies' \in Seq(BOOLEAN) /\ dependencies'[new] = verified
      /\ new \notin DOMAIN dependencies
      /\ \A i \in DOMAIN dependencies : dependencies'[i] = dependencies[i]
  BY <1>1, TypedFacts, Appended
<1>6. Grows
  <2>1. \A i \in DOMAIN decisions : decisions[i].by \in {0} \union (DOMAIN decisions \ {i})
    BY DEF Typed, TypeOK
  <2>2. QED
    BY <1>1, <1>5, <2>1, TypedFacts DEF Grows
<1>7. TrailGrows
  <2>1. Stood(e)
    BY <1>1, <1>3, <1>4, <1>5 DEF Stood, Retired
  <2>2. QED
    BY <1>2, <1>4, <2>1 DEF TrailGrows
<1>8. \A i \in DOMAIN decisions' : DecisionTold(events', i, decisions'[i])
  BY <1>1, <1>2, <1>4, DecisionStill, TypedFacts DEF Trail, Says
<1>9. \A i \in DOMAIN memory' : MemoryTold(events', i, memory'[i]) /\ StaleTold(events', i, memory'[i])
  BY <1>1, <1>2, <1>4, MemoryStill, StaleStill, TypedFacts DEF Trail, Says
<1>10. \A i \in DOMAIN dependencies' : DependencyTold(events', i, dependencies'[i])
  <2>1. ASSUME NEW i \in DOMAIN dependencies PROVE DependencyTold(events', i, dependencies'[i])
    <3>1. ~Says(e, "dependency", i, {"verified"})
      BY <1>4, <1>5 DEF Says
    <3>2. DependencyTold(events, i, dependencies[i]) /\ dependencies'[i] = dependencies[i]
      BY <1>5 DEF Trail
    <3>3. QED
      BY <1>2, <1>4, <3>1, <3>2, DependencyStill, TypedFacts
  <2>2. DependencyTold(events', new, dependencies'[new])
    <3>1. CASE verified
      <4>1. Says(e, "dependency", new, {"verified"})
        BY <1>3, <1>4, <3>1 DEF Says
      <4>2. QED
        BY <1>2, <1>4, <1>5, <3>1, <4>1, DependencyNow, TypedFacts
    <3>2. CASE ~verified
      <4>1. ~Says(e, "dependency", new, {"verified"})
        BY <1>3, <1>4, <3>2 DEF Says
      <4>2. \A k \in DOMAIN events : events[k].table = "dependency" => events[k].id # new
        BY <1>5 DEF Fits
      <4>3. DependencyTold(events', new, FALSE)
        BY <1>2, <1>4, <4>1, <4>2, DependencyFresh, TypedFacts
      <4>4. QED
        BY <1>5, <3>2, <4>3
    <3>3. QED
      BY <3>1, <3>2
  <2>3. QED
    BY <1>5, <2>1, <2>2
<1>11. QED
  BY <1>6, <1>7, <1>8, <1>9, <1>10 DEF Trail

LEMMA DependencyVerifiedKeeps ==
  ASSUME Typed, Fits, Trail, NEW p \in Procs, DependencyVerified(p)
  PROVE  Grows /\ TrailGrows /\ Trail'
<1>1. PICK i \in DOMAIN dependencies :
        /\ p \in Deciders
        /\ dependencies' = [dependencies EXCEPT ![i] = TRUE]
        /\ Tell("dependency", i, "verified", p, Len(events))
        /\ UNCHANGED <<decisions, memory>>
  BY DEF DependencyVerified
<1> DEFINE e == Told("dependency", i, "verified", p, Len(events))
<1>2. events' = Append(events, e)
  BY <1>1 DEF Tell
<1>3. i \in Nat /\ Len(events) \in Nat
  BY TypedFacts
<1>4. /\ e \in Events /\ e.table = "dependency" /\ e.id = i /\ e.to = "verified"
      /\ e.since = Len(events) /\ e.by = p
  BY <1>3, Told4 DEF Words
<1> HIDE DEF e
<1>5. /\ DOMAIN dependencies' = DOMAIN dependencies
      /\ Len(dependencies') = Len(dependencies)
      /\ dependencies' \in Seq(BOOLEAN) /\ dependencies'[i] = TRUE
      /\ \A j \in DOMAIN dependencies \ {i} : dependencies'[j] = dependencies[j]
  BY <1>1, TypedFacts, Replaced
<1>6. Grows
  <2>1. \A j \in DOMAIN decisions : decisions[j].by \in {0} \union (DOMAIN decisions \ {j})
    BY DEF Typed, TypeOK
  <2>2. QED
    BY <1>1, <1>5, <2>1, TypedFacts DEF Grows
<1>7. TrailGrows
  <2>1. Stood(e)
    BY <1>1, <1>3, <1>4, <1>5 DEF Stood, Retired
  <2>2. QED
    BY <1>2, <1>4, <2>1 DEF TrailGrows
<1>8. \A j \in DOMAIN decisions' : DecisionTold(events', j, decisions'[j])
  BY <1>1, <1>2, <1>4, DecisionStill, TypedFacts DEF Trail, Says
<1>9. \A j \in DOMAIN memory' : MemoryTold(events', j, memory'[j]) /\ StaleTold(events', j, memory'[j])
  BY <1>1, <1>2, <1>4, MemoryStill, StaleStill, TypedFacts DEF Trail, Says
<1>10. \A j \in DOMAIN dependencies' : DependencyTold(events', j, dependencies'[j])
  <2>1. ASSUME NEW j \in DOMAIN dependencies \ {i} PROVE DependencyTold(events', j, dependencies'[j])
    <3>1. ~Says(e, "dependency", j, {"verified"})
      BY <1>4 DEF Says
    <3>2. DependencyTold(events, j, dependencies[j]) /\ dependencies'[j] = dependencies[j]
      BY <1>5 DEF Trail
    <3>3. QED
      BY <1>2, <1>4, <3>1, <3>2, DependencyStill, TypedFacts
  <2>2. DependencyTold(events', i, TRUE)
    <3>1. Says(e, "dependency", i, {"verified"})
      BY <1>4 DEF Says
    <3>2. QED
      BY <1>2, <1>4, <3>1, DependencyNow, TypedFacts
  <2>3. QED
    BY <1>5, <2>1, <2>2
<1>11. QED
  BY <1>6, <1>7, <1>8, <1>9, <1>10 DEF Trail

LEMMA MentionedKeeps ==
  ASSUME Typed, Fits, Trail, NEW p \in Procs, Mentioned(p)
  PROVE  Grows /\ TrailGrows /\ Trail'
<1>1. PICK table \in {"memory", "note"}, id \in Nat,
           to \in {"reconfirmed", "recorded", "promoted"}, since \in 0 .. Len(events) :
        /\ table = "memory" => id \in DOMAIN memory
        /\ Tell(table, id, to, p, since)
        /\ UNCHANGED <<decisions, memory, dependencies>>
  BY DEF Mentioned
<1> DEFINE e == Told(table, id, to, p, since)
<1>2. events' = Append(events, e)
  BY <1>1 DEF Tell
<1>3. since \in Nat /\ to \in Words /\ since <= Len(events)
  BY TypedFacts DEF Words
<1>4. /\ e \in Events /\ e.table = table /\ e.id = id /\ e.to = to /\ e.since = since
  BY <1>3, Told4
<1> HIDE DEF e
<1>5. Grows
  <2>1. \A j \in DOMAIN decisions : decisions[j].by \in {0} \union (DOMAIN decisions \ {j})
    BY DEF Typed, TypeOK
  <2>2. QED
    BY <1>1, <2>1, TypedFacts DEF Grows
<1>6. TrailGrows
  <2>1. Stood(e)
    BY <1>1, <1>3, <1>4 DEF Stood, Retired
  <2>2. QED
    BY <1>2, <1>4, <2>1 DEF TrailGrows
<1>7. \A id2, words : words \in {DecisionStatuses, MemoryStatuses, {"forgotten", "restored"}} =>
        ~Says(e, "memory", id2, words) /\ ~Says(e, "decision", id2, words)
  BY <1>4 DEF Says, DecisionStatuses, MemoryStatuses
<1>8. \A id2 : ~Says(e, "dependency", id2, {"verified"})
  BY <1>4 DEF Says
<1>9. \A j \in DOMAIN decisions' : DecisionTold(events', j, decisions'[j])
  BY <1>1, <1>2, <1>4, <1>7, DecisionStill, TypedFacts DEF Trail
<1>10. \A j \in DOMAIN memory' : MemoryTold(events', j, memory'[j]) /\ StaleTold(events', j, memory'[j])
  BY <1>1, <1>2, <1>4, <1>7, MemoryStill, StaleStill, TypedFacts DEF Trail
<1>11. \A j \in DOMAIN dependencies' : DependencyTold(events', j, dependencies'[j])
  BY <1>1, <1>2, <1>4, <1>8, DependencyStill, TypedFacts DEF Trail
<1>12. QED
  BY <1>5, <1>6, <1>9, <1>10, <1>11 DEF Trail

LEMMA UntoldKeeps ==
  ASSUME Typed, Fits, Trail, Untold
  PROVE  Grows /\ TrailGrows /\ Trail'
<1>1. \A j \in DOMAIN decisions : decisions[j].by \in {0} \union (DOMAIN decisions \ {j})
  BY DEF Typed, TypeOK
<1>2. Grows
  BY <1>1, TypedFacts DEF Untold, Grows
<1>3. QED
  BY <1>2 DEF Untold, TrailGrows, Trail

LEMMA EffectKeeps ==
  ASSUME Typed, Fits, Trail, NEW p \in Procs, Effect(p)
  PROVE  Grows /\ TrailGrows /\ Trail'
BY DecisionAddedKeeps, DecisionChangedKeeps, MemoryAddedKeeps, MemoryReviewedKeeps,
   MemoryAgedKeeps, DependencyAddedKeeps, DependencyVerifiedKeeps, MentionedKeeps, UntoldKeeps
   DEF Effect

-----------------------------------------------------------------------------
(* What the trail and those who are in it keep.                            *)

LEMMA Lasting ==
  ASSUME Typed, TrailGrows, NEW table \in Tables, NEW id, NEW n \in 0 .. Len(events)
  PROVE  /\ TrustedAt(table, id, n)' = TrustedAt(table, id, n)
         /\ n \in 0 .. Len(events')
<1>1. events \in Seq(Events) /\ Len(events) \in Nat
  BY TypedFacts
<1>2. /\ Trusted(events', table, id, n) = Trusted(events, table, id, n)
      /\ Len(events') >= Len(events) /\ Len(events') \in Nat
  <2>1. CASE UNCHANGED events
    BY <1>1, <2>1
  <2>2. ASSUME NEW e \in Events, events' = Append(events, e)
        PROVE  /\ Trusted(events', table, id, n) = Trusted(events, table, id, n)
               /\ Len(events') >= Len(events) /\ Len(events') \in Nat
    BY <1>1, <2>2, TrustedStill, Appended
  <2>3. QED
    BY <2>1, <2>2 DEF TrailGrows
<1>3. QED
  BY <1>1, <1>2, TrustedIsTrustedAt

LEMMA FitsKeeps ==
  ASSUME Typed, Fits, Grows, TrailGrows, notes' \in Seq(NoteRows), Len(notes) <= Len(notes')
  PROVE  Fits' /\ events' \in Seq(Events)
<1>1. /\ DOMAIN memory \subseteq DOMAIN memory' /\ DOMAIN dependencies \subseteq DOMAIN dependencies'
  BY TypedFacts, RowOf DEF Grows
<1>2. /\ events' \in Seq(Events)
      /\ \A k \in DOMAIN events' :
           /\ events'[k].since < k
           /\ events'[k].table = "memory" => events'[k].id \in DOMAIN memory'
           /\ events'[k].table = "dependency" => events'[k].id \in DOMAIN dependencies'
  <2>1. CASE UNCHANGED events
    BY <1>1, <2>1, TypedFacts DEF Fits
  <2>2. ASSUME NEW e \in Events, Stood(e), events' = Append(events, e)
        PROVE  /\ events' \in Seq(Events)
               /\ \A k \in DOMAIN events' :
                    /\ events'[k].since < k
                    /\ events'[k].table = "memory" => events'[k].id \in DOMAIN memory'
                    /\ events'[k].table = "dependency" => events'[k].id \in DOMAIN dependencies'
    <3>1. /\ events' \in Seq(Events) /\ DOMAIN events' = DOMAIN events \union {Len(events) + 1}
          /\ events'[Len(events) + 1] = e
          /\ \A k \in DOMAIN events : events'[k] = events[k]
      BY <2>2, TypedFacts, Appended
    <3>2. e.since \in Nat /\ Len(events) \in Nat /\ e.since < Len(events) + 1
      BY <2>2, TypedFacts DEF Events, Stood
    <3>3. QED
      BY <1>1, <2>2, <3>1, <3>2 DEF Fits, Stood
  <2>3. QED
    BY <2>1, <2>2 DEF TrailGrows
<1>3. \A i \in DOMAIN decisions' : decisions'[i].from <= Len(notes')
  <2>1. \A i \in DOMAIN decisions' : decisions'[i].from <= Len(notes) /\ decisions'[i].from \in Nat
    <3>1. \A i \in DOMAIN decisions' : decisions'[i] \in DecisionRows
      BY RowOf DEF Grows
    <3>2. \A i \in DOMAIN decisions' : decisions'[i].from \in Nat
      BY <3>1 DEF DecisionRows
    <3>3. QED
      BY <3>2 DEF Fits, Grows
  <2>2. Len(notes) \in Nat /\ Len(notes') \in Nat
    BY TypedFacts, RowOf
  <2>3. QED
    BY <2>1, <2>2
<1>4. \A i \in DOMAIN memory' : memory'[i].source.kind = "note" => memory'[i].source.of <= Len(notes')
  <2>1. \A i \in DOMAIN memory' :
          /\ memory'[i].source.kind = "note" => memory'[i].source.of <= Len(notes)
          /\ memory'[i].source.of \in Nat
    <3>1. \A i \in DOMAIN memory' : memory'[i] \in MemoryRows
      BY RowOf DEF Grows
    <3>2. \A i \in DOMAIN memory' : memory'[i].source.of \in Nat
      BY <3>1 DEF MemoryRows, Sources
    <3>3. QED
      BY <3>2 DEF Fits, Grows
  <2>2. Len(notes) \in Nat /\ Len(notes') \in Nat
    BY TypedFacts, RowOf
  <2>3. QED
    BY <2>1, <2>2
<1>5. QED
  BY <1>2, <1>3, <1>4 DEF Fits

LEMMA RowOfTheTrail ==
  ASSUME Trail, NEW i \in DOMAIN memory
  PROVE  \E j \in DOMAIN events : events[j].table = "memory" /\ events[j].id = i
BY DEF Trail, MemoryTold, SaidLast, Says

LEMMA PersonsKeep ==
  ASSUME Typed, Fits, Trail, TrustTakesAPerson, RulesRetiredByPeople, Grows, TrailGrows
  PROVE  TrustTakesAPerson' /\ RulesRetiredByPeople'
<1>1. \A i \in DOMAIN memory : i \in DOMAIN memory' /\ memory'[i].source = memory[i].source
  BY TypedFacts, RowOf DEF Grows
<1>2. \A k \in DOMAIN events : events[k].since \in 0 .. Len(events)
  <2>1. \A k \in DOMAIN events : events[k].since \in Nat
    BY TypedFacts DEF Events
  <2>2. QED
    BY <2>1, TypedFacts DEF Fits
<1> DEFINE trusts(es, rows, k) ==
             /\ es[k].to \in {"accepted", "verified"} => es[k].by \in Deciders
             /\ es[k].table = "memory" /\ es[k].to = "approved" =>
                  \/ es[k].by \in Deciders /\ \E j \in 1 .. (k - 1) :
                       es[j].table = "memory" /\ es[j].id = es[k].id
                  \/ es[k].by \notin Agents /\ rows[es[k].id].source.kind \notin Drafted
           retires(e, trusted) ==
             (/\ e.table = "decision" /\ e.to \in {"rejected", "superseded", "deprecated"}
              /\ e.by \notin Deciders) => ~trusted
<1>3. ASSUME NEW es \in Seq(Events), Len(es) >= Len(events), NEW k \in DOMAIN events,
             \A j \in DOMAIN events : es[j] = events[j]
      PROVE  trusts(es, memory', k)
  <2>1. trusts(events, memory, k) /\ 1 .. (k - 1) \subseteq DOMAIN events
    BY TypedFacts DEF TrustTakesAPerson
  <2>2. events[k].table = "memory" => memory'[events[k].id].source = memory[events[k].id].source
    BY <1>1 DEF Fits
  <2>3. QED
    BY <1>3, <2>1, <2>2
<1>4. ASSUME NEW k \in DOMAIN events, NEW id, NEW since,
             id = events[k].id, since = events[k].since
      PROVE  retires(events[k], TrustedAt("decision", id, since)')
  <2>1. since \in 0 .. Len(events)
    BY <1>2, <1>4
  <2>2. TrustedAt("decision", id, since)' = TrustedAt("decision", id, since)
    BY <2>1, Lasting DEF Tables
  <2>3. QED
    BY <1>4, <2>2 DEF RulesRetiredByPeople
<1>5. CASE UNCHANGED events
  <2>1. \A k \in DOMAIN events : trusts(events, memory', k)
    <3> HIDE DEF trusts
    <3>1. events \in Seq(Events) /\ Len(events) >= Len(events)
      BY TypedFacts
    <3>2. QED
      BY <1>3, <3>1
  <2>2. TrustTakesAPerson'
    BY <1>5, <2>1 DEF TrustTakesAPerson
  <2>3. \A k \in DOMAIN events : \A id, since :
          id = events[k].id /\ since = events[k].since =>
            retires(events[k], TrustedAt("decision", id, since)')
    BY <1>4
  <2>4. RulesRetiredByPeople'
    BY <1>5, <2>3 DEF RulesRetiredByPeople
  <2>5. QED
    BY <2>2, <2>4
<1>6. ASSUME NEW e \in Events, Stood(e), events' = Append(events, e)
      PROVE  TrustTakesAPerson' /\ RulesRetiredByPeople'
  <2> DEFINE new == Len(events) + 1
  <2>1. /\ events' \in Seq(Events) /\ DOMAIN events' = DOMAIN events \union {new}
        /\ events'[new] = e /\ Len(events') >= Len(events)
        /\ \A k \in DOMAIN events : events'[k] = events[k]
        /\ DOMAIN events = 1 .. (new - 1)
    BY <1>6, TypedFacts, Appended
  <2>2. trusts(events', memory', new)
    <3>1. e.table = "memory" /\ e.id \in DOMAIN memory =>
            \E j \in 1 .. (new - 1) : events'[j].table = "memory" /\ events'[j].id = e.id
      BY <2>1, RowOfTheTrail
    <3>2. QED
      BY <1>6, <2>1, <3>1 DEF Stood
  <2>3. TrustTakesAPerson'
    BY <1>3, <2>1, <2>2 DEF TrustTakesAPerson
  <2>4. retires(e, TrustedAt("decision", e.id, e.since)')
    <3> DEFINE id == e.id  since == e.since
    <3>1. since \in 0 .. Len(events)
      BY <1>6, TypedFacts DEF Events, Stood
    <3> HIDE DEF id, since
    <3>2. TrustedAt("decision", id, since)' = TrustedAt("decision", id, since)
      BY <3>1, Lasting DEF Tables
    <3>3. QED
      BY <1>6, <3>2 DEF Stood, Retired, id, since
  <2>5. RulesRetiredByPeople'
    BY <1>4, <2>1, <2>4 DEF RulesRetiredByPeople
  <2>6. QED
    BY <2>3, <2>5
<1>7. QED
  BY <1>5, <1>6 DEF TrailGrows

\* The invariant's account of the trail says what TrailTellsTrust asks.
LEMMA TrailTells ==
  ASSUME Typed, Trail
  PROVE  TrailTellsTrust
<1> DEFINE now == Len(events)
<1>1. now \in Nat /\ DOMAIN events = 1 .. now
  BY TypedFacts
<1>2. ASSUME NEW table, NEW id, NEW words, NEW k, SaidLast(events, table, id, words, k)
      PROVE  LastOf(events, table, id, words, now) = k /\ k # 0
  BY <1>1, <1>2, LastOfIs DEF SaidLast
<1>3. ASSUME NEW i \in DOMAIN decisions
      PROVE  (i \in ShownDecisions) = Trusted(events, "decision", i, now)
  <2>1. PICK k \in DOMAIN events : SaidLast(events, "decision", i, DecisionStatuses, k)
                                  /\ events[k].to = decisions[i].status
    BY DEF Trail, DecisionTold
  <2>2. QED
    BY <1>2, <2>1 DEF Trusted, ShownDecisions
<1>4. ASSUME NEW i \in DOMAIN memory
      PROVE  (memory[i].status = "approved" /\ ~memory[i].stale)
               = Trusted(events, "memory", i, now)
  <2> DEFINE s == LastOf(events, "memory", i, MemoryStatuses, now)
             f == LastOf(events, "memory", i, {"forgotten", "restored"}, now)
  <2>1. s # 0 /\ events[s].to = memory[i].status
    <3>1. PICK k \in DOMAIN events : SaidLast(events, "memory", i, MemoryStatuses, k)
                                    /\ events[k].to = memory[i].status
      BY DEF Trail, MemoryTold
    <3>2. QED
      BY <1>2, <3>1
  <2>2. ~memory[i].stale <=> (f = 0 \/ events[f].to = "restored")
    <3>1. CASE ~memory[i].stale
               /\ \A k \in DOMAIN events : ~Says(events[k], "memory", i, {"forgotten", "restored"})
      BY <1>1, <3>1, LastOfNone
    <3>2. ASSUME NEW k \in DOMAIN events,
                 SaidLast(events, "memory", i, {"forgotten", "restored"}, k),
                 memory[i].stale <=> events[k].to = "forgotten"
          PROVE  ~memory[i].stale <=> (f = 0 \/ events[f].to = "restored")
      <4>1. f = k /\ k # 0
        BY <1>2, <3>2
      <4>2. events[k].to \in {"forgotten", "restored"}
        BY <3>2 DEF SaidLast, Says
      <4>3. QED
        BY <3>2, <4>1, <4>2
    <3>3. QED
      BY <3>1, <3>2 DEF Trail, StaleTold
  <2>3. Trusted(events, "memory", i, now)
          = (s # 0 /\ events[s].to = "approved" /\ (f = 0 \/ events[f].to = "restored"))
    BY DEF Trusted
  <2>4. QED
    BY <2>1, <2>2, <2>3
<1>5. ASSUME NEW i \in DOMAIN dependencies
      PROVE  dependencies[i] = Trusted(events, "dependency", i, now)
  <2> DEFINE v == LastOf(events, "dependency", i, {"verified"}, now)
  <2>1. Trusted(events, "dependency", i, now) = (v # 0)
    BY DEF Trusted
  <2>2. dependencies[i] = \E k \in DOMAIN events : Says(events[k], "dependency", i, {"verified"})
    BY DEF Trail, DependencyTold
  <2>3. (v # 0) = \E k \in DOMAIN events : Says(events[k], "dependency", i, {"verified"})
    <3>1. CASE \A k \in DOMAIN events : ~Says(events[k], "dependency", i, {"verified"})
      BY <1>1, <3>1, LastOfNone
    <3>2. CASE \E k \in DOMAIN events : Says(events[k], "dependency", i, {"verified"})
      <4>1. v \in 1 .. now
        BY <1>1, <3>2, LastOfSome
      <4>2. v # 0
        BY <1>1, <4>1
      <4>3. QED
        BY <3>2, <4>2
    <3>3. QED
      BY <3>1, <3>2
  <2>4. QED
    BY <2>1, <2>2, <2>3
<1>6. QED
  BY <1>3, <1>4, <1>5, TrustedIsTrustedAt DEF TrailTellsTrust, Tables

-----------------------------------------------------------------------------
(* What each operation does to the tables and to its process.              *)

Places == {"idle", "retire", "count", "draft", "create", "index", "release", "mark", "render"}

ProcessStep(p) ==
  \E to \in Places, m \in Remembered :
    /\ m.since <= Len(events) /\ KnowsOf(p, to, m)
    /\ pc' = [pc EXCEPT ![p] = to] /\ mem' = [mem EXCEPT ![p] = m]

NotesGrow == notes' \in Seq(NoteRows) /\ Len(notes) <= Len(notes')

LEMMA Remembering ==
  ASSUME NEW m \in Remembered, NEW since \in Nat
  PROVE  /\ [m EXCEPT !.since = since] \in Remembered
         /\ [m EXCEPT !.since = since].since = since
         /\ [m EXCEPT !.since = since].id = m.id
         /\ [m EXCEPT !.since = since].to = m.to
         /\ [m EXCEPT !.since = since].by = m.by
         /\ [m EXCEPT !.since = since].note = m.note
         /\ [m EXCEPT !.since = since].source = m.source
         /\ [m EXCEPT !.since = since].shown = m.shown
BY DEF Remembered

LEMMA IdleRemembered == Idle \in Remembered /\ NoSource \in Sources
BY DEF Idle, Remembered, NoSource, Sources

\* A command that goes on at `to` remembering m.
LEMMA StartOn ==
  ASSUME Typed, NEW p \in Procs, NEW call, NEW to \in Places, NEW m \in Remembered,
         Start(p, call, to, m),
         KnowsOf(p, to, [m EXCEPT !.since = Len(events)])
  PROVE  ProcessStep(p)
<1> DEFINE n == [m EXCEPT !.since = Len(events)]
<1>1. n \in Remembered /\ n.since <= Len(events)
  BY TypedFacts, Remembering
<1>2. pc' = [pc EXCEPT ![p] = to] /\ mem' = [mem EXCEPT ![p] = n]
  BY DEF Start
<1> HIDE DEF n
<1>3. KnowsOf(p, to, n)
  BY DEF n
<1>4. QED
  BY <1>1, <1>2, <1>3 DEF ProcessStep

\* A command of one transaction.
LEMMA Commanded ==
  ASSUME Typed, NEW p \in Procs, NEW call, Start(p, call, "idle", Idle)
  PROVE  ProcessStep(p)
<1>1. \A m : KnowsOf(p, "idle", m)
  BY DEF KnowsOf
<1>2. QED
  BY <1>1, StartOn, IdleRemembered DEF Places

LEMMA GoOn ==
  ASSUME Typed, NEW p \in Procs, NEW to \in Places \ {"idle"}, NEW m \in Remembered,
         Goto(p, to, m), m.since <= Len(events), KnowsOf(p, to, m)
  PROVE  ProcessStep(p)
BY DEF Goto, ProcessStep

LEMMA GoIdle ==
  ASSUME Typed, NEW p \in Procs, NEW m, Goto(p, "idle", m)
  PROVE  ProcessStep(p)
<1>1. Idle.since <= Len(events) /\ KnowsOf(p, "idle", Idle) /\ "idle" \in Places
  BY TypedFacts DEF Idle, KnowsOf, Places
<1>2. QED
  BY <1>1, IdleRemembered DEF Goto, ProcessStep

LEMMA SameNotes ==
  ASSUME Typed, UNCHANGED notes
  PROVE  NotesGrow
BY TypedFacts DEF NotesGrow

LEMMA AddDecisionDoes ==
  ASSUME Typed, NEW p \in Procs, AddDecision(p)
  PROVE  Effect(p) /\ NotesGrow /\ ProcessStep(p)
<1>1. /\ Start(p, "decision", "index", [Idle EXCEPT !.to = "decision", !.id = Len(decisions) + 1])
      /\ InsertDecision(p, 0, Len(events))
  BY DEF AddDecision
<1>2. DecisionAdded(p)
  <2>1. 0 \in 0 .. Len(notes) /\ Len(events) \in 0 .. Len(events)
    BY TypedFacts
  <2>2. QED
    BY <1>1, <2>1 DEF DecisionAdded
<1>3. ProcessStep(p)
  <2> DEFINE m == [Idle EXCEPT !.to = "decision", !.id = Len(decisions) + 1]
  <2>1. Len(decisions) + 1 \in Nat
    BY TypedFacts
  <2>2. m \in Remembered
    BY <2>1, IdleRemembered DEF Idle, Remembered
  <2>3. Start(p, "decision", "index", m)
    BY <1>1
  <2>4. \A n : KnowsOf(p, "index", n)
    BY DEF KnowsOf
  <2> HIDE DEF m
  <2>5. QED
    BY <2>2, <2>3, <2>4, StartOn DEF Places
<1>4. QED
  BY <1>1, <1>2, <1>3, SameNotes DEF Effect, InsertDecision

LEMMA AddMemoryDoes ==
  ASSUME Typed, NEW p \in Procs, AddMemory(p)
  PROVE  Effect(p) /\ NotesGrow /\ ProcessStep(p)
<1>1. PICK kind \in Kinds :
        /\ Start(p, "memory", "index", [Idle EXCEPT !.to = "memory", !.id = Len(memory) + 1])
        /\ InsertMemory(p, kind, NoSource, Len(events))
  BY DEF AddMemory
<1>2. MemoryAdded(p)
  <2>1. NoSource.kind # "note" /\ Len(events) \in 0 .. Len(events)
    BY TypedFacts DEF NoSource
  <2>2. QED
    BY <1>1, <2>1, IdleRemembered DEF MemoryAdded
<1>3. ProcessStep(p)
  <2> DEFINE m == [Idle EXCEPT !.to = "memory", !.id = Len(memory) + 1]
  <2>1. Len(memory) + 1 \in Nat
    BY TypedFacts
  <2>2. m \in Remembered
    BY <2>1, IdleRemembered DEF Idle, Remembered
  <2>3. Start(p, "memory", "index", m)
    BY <1>1
  <2>4. \A n : KnowsOf(p, "index", n)
    BY DEF KnowsOf
  <2> HIDE DEF m
  <2>5. QED
    BY <2>2, <2>3, <2>4, StartOn DEF Places
<1>4. QED
  BY <1>1, <1>2, <1>3, SameNotes DEF Effect, InsertMemory

LEMMA AddNoteDoes ==
  ASSUME Typed, NEW p \in Procs, AddNote(p)
  PROVE  Effect(p) /\ NotesGrow /\ ProcessStep(p)
<1>1. /\ Start(p, "note", "index", [Idle EXCEPT !.to = "note", !.id = Len(notes) + 1])
      /\ notes' = Append(notes, Unpromoted)
      /\ Tell("note", Len(notes) + 1, "recorded", p, Len(events))
      /\ UNCHANGED <<decisions, memory, dependencies>>
  BY DEF AddNote
<1>2. Mentioned(p)
  <2>1. Len(notes) + 1 \in Nat /\ Len(events) \in 0 .. Len(events)
    BY TypedFacts
  <2>2. QED
    BY <1>1, <2>1 DEF Mentioned
<1>3. ProcessStep(p)
  <2> DEFINE m == [Idle EXCEPT !.to = "note", !.id = Len(notes) + 1]
  <2>1. Len(notes) + 1 \in Nat
    BY TypedFacts
  <2>2. m \in Remembered
    BY <2>1, IdleRemembered DEF Idle, Remembered
  <2>3. Start(p, "note", "index", m)
    BY <1>1
  <2>4. \A n : KnowsOf(p, "index", n)
    BY DEF KnowsOf
  <2> HIDE DEF m
  <2>5. QED
    BY <2>2, <2>3, <2>4, StartOn DEF Places
<1>4. NotesGrow
  <2>1. Unpromoted \in NoteRows
    BY DEF Unpromoted, NoteRows
  <2>2. QED
    BY <1>1, <2>1, TypedFacts, Appended DEF NotesGrow
<1>5. QED
  BY <1>2, <1>3, <1>4 DEF Effect

\* A decision's row of another status, or of another status and successor.
LEMMA DecisionRow ==
  ASSUME NEW row \in DecisionRows
  PROVE  \A to \in DecisionStatuses :
           /\ [row EXCEPT !.status = to] = [status |-> to, by |-> row.by, from |-> row.from]
           /\ \A by \in Nat : [row EXCEPT !.status = to, !.by = by]
                                = [status |-> to, by |-> by, from |-> row.from]
<1> SUFFICES ASSUME NEW to \in DecisionStatuses
             PROVE  /\ [row EXCEPT !.status = to]
                         = [status |-> to, by |-> row.by, from |-> row.from]
                    /\ \A by \in Nat : [row EXCEPT !.status = to, !.by = by]
                                         = [status |-> to, by |-> by, from |-> row.from]
  OBVIOUS
<1> DEFINE mid == [row EXCEPT !.status = to]
<1>1. mid = [status |-> to, by |-> row.by, from |-> row.from]
  BY DEF DecisionRows
<1>2. \A by \in Nat : [row EXCEPT !.status = to, !.by = by] = [mid EXCEPT !.by = by]
  OBVIOUS
<1>3. mid \in DecisionRows /\ mid.status = to /\ mid.from = row.from
  BY <1>1 DEF DecisionRows
<1> HIDE DEF mid
<1>4. \A by \in Nat : [mid EXCEPT !.by = by] = [status |-> to, by |-> by, from |-> row.from]
  BY <1>3 DEF DecisionRows
<1>5. QED
  BY <1>1, <1>2, <1>4 DEF mid

LEMMA AcceptDecisionDoes ==
  ASSUME Typed, NEW p \in Procs, AcceptDecision(p)
  PROVE  Effect(p) /\ NotesGrow /\ ProcessStep(p)
<1>1. PICK i \in DOMAIN decisions :
        /\ p \in Deciders /\ Start(p, "accept", "idle", Idle)
        /\ decisions' = [decisions EXCEPT ![i].status = "accepted"]
        /\ Tell("decision", i, "accepted", p, Len(events))
        /\ UNCHANGED <<memory, notes, dependencies>>
  BY DEF AcceptDecision
<1> DEFINE by == decisions[i].by
<1>2. /\ decisions' = [decisions EXCEPT ![i] = [status |-> "accepted", by |-> by,
                                                from |-> decisions[i].from]]
      /\ by \in {0} \union (DOMAIN decisions \ {i}) /\ by \in Nat
      /\ Len(events) \in 0 .. Len(events)
  <2>1. by \in Nat
    BY TypedFacts DEF DecisionRows
  <2>2. by \in {0} \union (DOMAIN decisions \ {i})
    BY DEF Typed, TypeOK
  <2> DEFINE row == decisions[i]
  <2>3. row \in DecisionRows /\ "accepted" \in DecisionStatuses
    BY TypedFacts DEF DecisionStatuses
  <2>4. decisions' = [decisions EXCEPT ![i] = [row EXCEPT !.status = "accepted"]]
    BY <1>1
  <2> HIDE DEF row
  <2>5. [row EXCEPT !.status = "accepted"]
          = [status |-> "accepted", by |-> row.by, from |-> row.from]
    BY <2>3, DecisionRow
  <2>6. decisions' = [decisions EXCEPT ![i] = [status |-> "accepted", by |-> by,
                                               from |-> decisions[i].from]]
    BY <2>4, <2>5 DEF row
  <2>7. QED
    BY <2>1, <2>2, <2>6, TypedFacts
<1> HIDE DEF by
<1>3. DecisionChanged(p)
  BY <1>1, <1>2 DEF DecisionChanged
<1>4. QED
  BY <1>1, <1>3, Commanded, SameNotes DEF Effect

LEMMA StartRetireDoes ==
  ASSUME Typed, Trail, NEW p \in Procs, StartRetire(p)
  PROVE  Effect(p) /\ NotesGrow /\ ProcessStep(p)
<1>1. PICK i \in DOMAIN decisions :
        \/ /\ RetireDecision(p, decisions[i].status, "rejected")
           /\ Start(p, "reject", "retire", [Idle EXCEPT !.id = i, !.to = "rejected"])
        \/ /\ RetireDecision(p, decisions[i].status, "deprecated")
           /\ Start(p, "deprecate", "retire", [Idle EXCEPT !.id = i, !.to = "deprecated"])
        \/ \E new \in DOMAIN decisions \ {i} :
             /\ RetireDecision(p, decisions[i].status, "superseded")
             /\ Start(p, "supersede", "retire",
                      [Idle EXCEPT !.id = i, !.to = "superseded", !.by = new])
  BY DEF StartRetire
<1>2. UNCHANGED tables /\ UNCHANGED events
  BY DEF StartRetire
<1>3. p \notin Deciders /\ decisions[i].status # "accepted" => ~TrustedAt("decision", i, Len(events))
  BY TrailTells DEF TrailTellsTrust, ShownDecisions
<1>4. ASSUME NEW to \in Retired, NEW by \in {0} \union (DOMAIN decisions \ {i}), NEW call,
             RetireDecision(p, decisions[i].status, to), NEW m \in Remembered,
             m.id = i, m.to = to, m.by = by, Start(p, call, "retire", m)
      PROVE  ProcessStep(p)
  <2> DEFINE n == [m EXCEPT !.since = Len(events)]
  <2>1. n.id = i /\ n.to = to /\ n.by = by /\ n.since = Len(events)
    BY <1>4, TypedFacts, Remembering
  <2> HIDE DEF n
  <2>2. p \notin Deciders => ~TrustedAt("decision", n.id, n.since)
    BY <1>3, <1>4, <2>1 DEF RetireDecision
  <2>3. KnowsOf(p, "retire", n)
    BY <1>4, <2>1, <2>2 DEF KnowsOf
  <2>4. QED
    BY <1>4, <2>3, StartOn DEF n, Places
<1>5. ASSUME NEW to \in {"rejected", "deprecated"}, NEW call,
             RetireDecision(p, decisions[i].status, to),
             Start(p, call, "retire", [Idle EXCEPT !.id = i, !.to = to])
      PROVE  ProcessStep(p)
  <2> DEFINE m == [Idle EXCEPT !.id = i, !.to = to]
  <2>1. i \in Nat /\ to \in Retired
    BY TypedFacts DEF Retired
  <2>2. m \in Remembered /\ m.id = i /\ m.to = to /\ m.by = 0
    BY <2>1, IdleRemembered DEF Idle, Remembered
  <2>3. Start(p, call, "retire", m)
    BY <1>5
  <2> HIDE DEF m
  <2>4. QED
    BY <1>4, <1>5, <2>1, <2>2, <2>3
<1>6. ASSUME NEW new \in DOMAIN decisions \ {i},
             RetireDecision(p, decisions[i].status, "superseded"),
             Start(p, "supersede", "retire", [Idle EXCEPT !.id = i, !.to = "superseded", !.by = new])
      PROVE  ProcessStep(p)
  <2> DEFINE m == [Idle EXCEPT !.id = i, !.to = "superseded", !.by = new]
  <2>1. i \in Nat /\ new \in Nat /\ "superseded" \in Retired
    BY TypedFacts DEF Retired
  <2>2. m \in Remembered /\ m.id = i /\ m.to = "superseded" /\ m.by = new
    BY <2>1, IdleRemembered DEF Idle, Remembered
  <2>3. Start(p, "supersede", "retire", m)
    BY <1>6
  <2> HIDE DEF m
  <2>4. QED
    BY <1>4, <1>6, <2>1, <2>2, <2>3
<1>7. ProcessStep(p)
  <2>1. CASE \E new \in DOMAIN decisions \ {i} :
               /\ RetireDecision(p, decisions[i].status, "superseded")
               /\ Start(p, "supersede", "retire",
                        [Idle EXCEPT !.id = i, !.to = "superseded", !.by = new])
    BY <1>6, <2>1
  <2>2. CASE RetireDecision(p, decisions[i].status, "rejected")
             /\ Start(p, "reject", "retire", [Idle EXCEPT !.id = i, !.to = "rejected"])
    BY <1>5, <2>2
  <2>3. CASE RetireDecision(p, decisions[i].status, "deprecated")
             /\ Start(p, "deprecate", "retire", [Idle EXCEPT !.id = i, !.to = "deprecated"])
    BY <1>5, <2>3
  <2>4. QED
    BY <1>1, <2>1, <2>2, <2>3
<1>8. QED
  BY <1>2, <1>7, SameNotes DEF Effect, Untold, tables

LEMMA RetireDoes ==
  ASSUME Typed, NEW p \in Procs, Knows(p), Retire(p)
  PROVE  Effect(p) /\ NotesGrow /\ ProcessStep(p)
<1> DEFINE m == mem[p]
           by == IF m.by # 0 THEN m.by ELSE decisions[m.id].by
<1>1. /\ m.to \in Retired /\ m.id \in DOMAIN decisions
      /\ m.by \in {0} \union (DOMAIN decisions \ {m.id})
      /\ p \notin Deciders => ~TrustedAt("decision", m.id, m.since)
  BY DEF Retire, Knows, KnowsOf
<1>2. Goto(p, "idle", Idle) /\ UNCHANGED <<memory, notes, dependencies>>
  BY DEF Retire
<1>3. by \in {0} \union (DOMAIN decisions \ {m.id}) /\ by \in Nat /\ m.since \in 0 .. Len(events)
  <2>1. decisions[m.id].by \in Nat /\ m.by \in Nat
    BY <1>1, TypedFacts DEF DecisionRows, Remembered
  <2>2. decisions[m.id].by \in {0} \union (DOMAIN decisions \ {m.id})
    BY <1>1 DEF Typed, TypeOK
  <2>3. QED
    BY <1>1, <2>1, <2>2, TypedFacts
<1>4. CASE m.to \in DecisionMayBecome(decisions[m.id].status)
  <2>1. /\ decisions' = [decisions EXCEPT ![m.id].status = m.to,
                                          ![m.id].by = IF m.by # 0 THEN m.by ELSE @]
        /\ Tell("decision", m.id, m.to, p, m.since)
    BY <1>4 DEF Retire
  <2>2. decisions' = [decisions EXCEPT ![m.id].status = m.to, ![m.id].by = by]
    <3>1. decisions[m.id] \in DecisionRows
      BY <1>1, TypedFacts
    <3>2. [decisions EXCEPT ![m.id].status = m.to][m.id].by = decisions[m.id].by
      BY <1>1, <3>1, TypedFacts DEF DecisionRows
    <3>3. QED
      BY <1>1, <2>1, <3>2, TypedFacts
  <2>3. decisions' = [decisions EXCEPT ![m.id] = [status |-> m.to, by |-> by,
                                                  from |-> decisions[m.id].from]]
    <3> DEFINE row == decisions[m.id]
    <3>1. row \in DecisionRows /\ m.to \in DecisionStatuses
      BY <1>1, TypedFacts DEF DecisionStatuses, Retired
    <3> HIDE DEF by
    <3>2. decisions' = [decisions EXCEPT ![m.id] = [row EXCEPT !.status = m.to, !.by = by]]
      BY <1>1, <2>2
    <3> HIDE DEF row
    <3>3. [row EXCEPT !.status = m.to, !.by = by]
            = [status |-> m.to, by |-> by, from |-> row.from]
      BY <1>3, <3>1, DecisionRow
    <3>4. QED
      BY <3>2, <3>3 DEF row
  <2> HIDE DEF by
  <2>4. m.to # "accepted"
    BY <1>1 DEF Retired
  <2>5. DecisionChanged(p)
    BY <1>1, <1>2, <1>3, <2>1, <2>3, <2>4 DEF DecisionChanged
  <2>6. QED
    BY <1>2, <2>5, GoIdle, SameNotes DEF Effect
<1>5. CASE m.to \notin DecisionMayBecome(decisions[m.id].status)
  BY <1>2, <1>5, GoIdle, SameNotes DEF Retire, Effect, Untold
<1>6. QED
  BY <1>4, <1>5

LEMMA ReviewMemoryDoes ==
  ASSUME Typed, NEW p \in Procs, ReviewMemory(p)
  PROVE  Effect(p) /\ NotesGrow /\ ProcessStep(p)
<1>1. /\ Start(p, "review", "idle", Idle) /\ UNCHANGED notes
      /\ MemoryReviewed(p)
  BY DEF ReviewMemory, MemoryReviewed
<1>2. QED
  BY <1>1, Commanded, SameNotes DEF Effect

LEMMA SetMemoryStaleDoes ==
  ASSUME Typed, NEW p \in Procs, SetMemoryStale(p)
  PROVE  Effect(p) /\ NotesGrow /\ ProcessStep(p)
<1>1. /\ Start(p, "forget", "idle", Idle) /\ UNCHANGED notes
      /\ MemoryAged(p)
  BY DEF SetMemoryStale, MemoryAged
<1>2. QED
  BY <1>1, Commanded, SameNotes DEF Effect

LEMMA TouchMemoryDoes ==
  ASSUME Typed, NEW p \in Procs, TouchMemory(p)
  PROVE  Effect(p) /\ NotesGrow /\ ProcessStep(p)
<1>1. /\ Start(p, "touch", "idle", Idle)
      /\ UNCHANGED <<decisions, memory, notes, dependencies>>
  BY DEF TouchMemory, tables
<1>2. PICK i \in DOMAIN memory : Tell("memory", i, "reconfirmed", p, Len(events))
  BY DEF TouchMemory
<1>3. Mentioned(p)
  <2>1. i \in Nat /\ Len(events) \in 0 .. Len(events)
    BY TypedFacts
  <2>2. QED
    BY <1>1, <1>2, <2>1 DEF Mentioned
<1>4. QED
  BY <1>1, <1>3, Commanded, SameNotes DEF Effect

LEMMA AddDependencyDoes ==
  ASSUME Typed, NEW p \in Procs, AddDependency(p)
  PROVE  Effect(p) /\ NotesGrow /\ ProcessStep(p)
<1>1. /\ Start(p, "dependency", "idle", Idle) /\ UNCHANGED notes
      /\ DependencyAdded(p)
  BY DEF AddDependency, DependencyAdded
<1>2. QED
  BY <1>1, Commanded, SameNotes DEF Effect

LEMMA VerifyDependencyDoes ==
  ASSUME Typed, NEW p \in Procs, VerifyDependency(p)
  PROVE  Effect(p) /\ NotesGrow /\ ProcessStep(p)
<1>1. /\ Start(p, "verify", "idle", Idle) /\ UNCHANGED notes
      /\ DependencyVerified(p)
  BY DEF VerifyDependency, DependencyVerified
<1>2. QED
  BY <1>1, Commanded, SameNotes DEF Effect

LEMMA RecordFailureDoes ==
  ASSUME Typed, NEW p \in Procs, RecordFailure(p)
  PROVE  Effect(p) /\ NotesGrow /\ ProcessStep(p)
<1>1. PICK t \in Tasks, kind \in Drafted :
        Start(p, "fail", "count", [Idle EXCEPT !.source = [kind |-> kind, of |-> t]])
  BY DEF RecordFailure
<1>2. UNCHANGED <<decisions, memory, notes, dependencies, events>>
  BY DEF RecordFailure, tables
<1>3. ProcessStep(p)
  <2> DEFINE source == [kind |-> kind, of |-> t]
             m == [Idle EXCEPT !.source = source]
             n == [m EXCEPT !.since = Len(events)]
  <2>1. source \in Sources /\ source.kind = kind /\ source.of = t
    BY RecordsAssumption DEF Sources
  <2>2. Start(p, "fail", "count", m)
    BY <1>1
  <2> HIDE DEF source
  <2>3. m \in Remembered /\ m.source = source /\ m.note = 0
    BY <2>1, IdleRemembered DEF Idle, Remembered
  <2> HIDE DEF m
  <2>4. n.source = source /\ n.note = 0
    BY <2>3, TypedFacts, Remembering
  <2> HIDE DEF n
  <2>5. KnowsOf(p, "count", n)
    BY <2>1, <2>4 DEF KnowsOf
  <2>6. QED
    BY <2>2, <2>3, <2>5, StartOn DEF n, Places
<1>4. QED
  BY <1>2, <1>3, SameNotes DEF Effect, Untold

LEMMA CountDraftsDoes ==
  ASSUME Typed, NEW p \in Procs, Knows(p), CountDrafts(p)
  PROVE  Effect(p) /\ NotesGrow /\ ProcessStep(p)
<1>1. UNCHANGED <<decisions, memory, notes, dependencies, events>>
  BY DEF CountDrafts, tables
<1>2. mem[p] \in Remembered /\ mem[p].since <= Len(events) /\ KnowsOf(p, "draft", mem[p])
  <2>1. pc[p] = "count"
    BY DEF CountDrafts
  <2>2. QED
    BY <2>1, TypedFacts DEF Knows, KnowsOf
<1>3. ProcessStep(p)
  <2>1. Goto(p, "draft", mem[p]) \/ Goto(p, "idle", mem[p])
    BY DEF CountDrafts
  <2>2. QED
    BY <1>2, <2>1, GoOn, GoIdle DEF Places
<1>4. QED
  BY <1>1, <1>3, SameNotes DEF Effect, Untold

LEMMA DraftFailurePatternDoes ==
  ASSUME Typed, NEW p \in Procs, Knows(p), DraftFailurePattern(p)
  PROVE  Effect(p) /\ NotesGrow /\ ProcessStep(p)
<1>1. /\ Goto(p, "index", [mem[p] EXCEPT !.to = "memory", !.id = Len(memory) + 1])
      /\ InsertMemory(p, "failure_pattern", mem[p].source, mem[p].since)
      /\ pc[p] = "draft"
  BY DEF DraftFailurePattern
<1>2. mem[p].source.kind \in Drafted /\ mem[p].source \in Sources
      /\ mem[p].since \in 0 .. Len(events)
  <2>1. mem[p] \in Remembered /\ mem[p].since \in 0 .. Len(events)
    BY TypedFacts
  <2>2. QED
    BY <1>1, <2>1 DEF Knows, KnowsOf, Remembered
<1>3. MemoryAdded(p)
  BY <1>1, <1>2 DEF MemoryAdded, Drafted, Kinds
<1>4. ProcessStep(p)
  <2> DEFINE mid == [mem[p] EXCEPT !.to = "memory"]
             m == [mid EXCEPT !.id = Len(memory) + 1]
  <2>1. Goto(p, "index", m)
    BY <1>1
  <2>2. mid \in Remembered /\ mid.since = mem[p].since
    <3>1. mem[p] \in Remembered
      BY TypedFacts
    <3>2. QED
      BY <3>1 DEF Remembered
  <2> HIDE DEF mid
  <2>3. m \in Remembered /\ m.since = mem[p].since
    <3>1. Len(memory) + 1 \in Nat
      BY TypedFacts
    <3>2. QED
      BY <2>2, <3>1 DEF Remembered
  <2> HIDE DEF m
  <2>4. m.since <= Len(events) /\ KnowsOf(p, "index", m)
    BY <1>2, <2>3, TypedFacts DEF KnowsOf
  <2>5. QED
    BY <2>1, <2>3, <2>4, GoOn DEF Places
<1>5. QED
  BY <1>1, <1>3, <1>4, SameNotes DEF Effect, InsertMemory

-----------------------------------------------------------------------------
(* Promoting and rendering.                                                *)

LEMMA ClaimDoes ==
  ASSUME Typed, NEW p \in Procs, Claim(p)
  PROVE  Effect(p) /\ NotesGrow /\ ProcessStep(p)
<1>1. PICK n \in DOMAIN notes, kind \in {"decision", "memory"} :
        /\ Start(p, "promote", "create", [Idle EXCEPT !.note = n, !.to = kind])
        /\ notes' = [notes EXCEPT ![n].to = kind]
  BY DEF Claim
<1>2. UNCHANGED <<decisions, memory, dependencies, events>>
  BY DEF Claim
<1>3. ProcessStep(p)
  <2> DEFINE m == [Idle EXCEPT !.note = n, !.to = kind]
  <2>1. n \in Nat
    BY TypedFacts
  <2>2. m \in Remembered
    BY <2>1, IdleRemembered DEF Idle, Remembered
  <2>3. Start(p, "promote", "create", m)
    BY <1>1
  <2>4. \A l : KnowsOf(p, "create", l)
    BY DEF KnowsOf
  <2> HIDE DEF m
  <2>5. QED
    BY <2>2, <2>3, <2>4, StartOn DEF Places
<1>4. NotesGrow
  <2> DEFINE row == [notes[n] EXCEPT !.to = kind]
  <2>1. row \in NoteRows
    <3>1. notes[n] \in NoteRows
      BY TypedFacts
    <3>2. QED
      BY <3>1 DEF NoteRows
  <2>2. notes' = [notes EXCEPT ![n] = row]
    BY <1>1
  <2> HIDE DEF row
  <2>3. QED
    BY <2>1, <2>2, TypedFacts, Replaced DEF NotesGrow
<1>5. QED
  BY <1>2, <1>3, <1>4 DEF Effect, Untold

LEMMA CreateDoes ==
  ASSUME Typed, NEW p \in Procs, Promoting(p), Create(p)
  PROVE  Effect(p) /\ NotesGrow /\ ProcessStep(p)
<1> DEFINE m == mem[p]
<1>1. /\ m \in Remembered /\ m.since \in 0 .. Len(events) /\ pc[p] = "create"
      /\ m.note \in 0 .. Len(notes) /\ m.note \in Nat
  <2>1. pc[p] = "create" /\ m.note \in DOMAIN notes
    BY TypedFacts DEF Create, Promoting, Promotion
  <2>2. QED
    BY <2>1, TypedFacts
<1>2. \A l, to : to \in {"index", "release"} => KnowsOf(p, to, l)
  BY DEF KnowsOf
<1>3. ASSUME NEW id \in Nat, Goto(p, "index", [m EXCEPT !.id = id]) PROVE ProcessStep(p)
  <2> DEFINE n == [m EXCEPT !.id = id]
  <2>1. n \in Remembered /\ n.since = m.since
    BY <1>1 DEF Remembered
  <2>2. Goto(p, "index", n)
    BY <1>3
  <2> HIDE DEF n
  <2>3. n.since <= Len(events)
    BY <1>1, <2>1, TypedFacts
  <2>4. QED
    BY <1>2, <2>1, <2>2, <2>3, GoOn DEF Places
<1>4. CASE /\ Goto(p, "index", [m EXCEPT !.id = Len(decisions) + 1])
           /\ InsertDecision(p, m.note, m.since)
  <2>1. DecisionAdded(p)
    <3>1. PICK from \in 0 .. Len(notes), since \in 0 .. Len(events) :
            from = m.note /\ since = m.since
      BY <1>1
    <3>2. InsertDecision(p, from, since)
      BY <1>4, <3>1 DEF InsertDecision, Tell
    <3>3. QED
      BY <3>2 DEF DecisionAdded
  <2>2. ProcessStep(p)
    <3>1. PICK id \in Nat : id = Len(decisions) + 1
      BY TypedFacts
    <3>2. Goto(p, "index", [m EXCEPT !.id = id])
      BY <1>4, <3>1 DEF Goto
    <3>3. QED
      BY <1>3, <3>2
  <2>3. QED
    BY <1>4, <2>1, <2>2, SameNotes DEF Effect, InsertDecision
<1>5. CASE /\ Goto(p, "index", [m EXCEPT !.id = Len(memory) + 1])
           /\ \E kind \in Kinds :
                InsertMemory(p, kind, [kind |-> "note", of |-> m.note], m.since)
  <2> DEFINE source == [kind |-> "note", of |-> m.note]
  <2>1. source \in Sources /\ source.of <= Len(notes)
    BY <1>1, TypedFacts DEF Sources
  <2>2. PICK kind \in Kinds : InsertMemory(p, kind, source, m.since)
    BY <1>5
  <2> HIDE DEF source
  <2>3. MemoryAdded(p)
    <3>1. PICK since \in 0 .. Len(events) : since = m.since
      BY <1>1
    <3>2. InsertMemory(p, kind, source, since)
      BY <2>2, <3>1 DEF InsertMemory, Tell
    <3>3. QED
      BY <2>1, <3>2 DEF MemoryAdded
  <2>4. ProcessStep(p)
    <3>1. PICK id \in Nat : id = Len(memory) + 1
      BY TypedFacts
    <3>2. Goto(p, "index", [m EXCEPT !.id = id])
      BY <1>5, <3>1 DEF Goto
    <3>3. QED
      BY <1>3, <3>2
  <2>5. QED
    BY <2>2, <2>3, <2>4, SameNotes DEF Effect, InsertMemory
<1>6. CASE Goto(p, "release", m) /\ UNCHANGED <<tables, events>>
  <2>1. m.since <= Len(events)
    BY <1>1, TypedFacts
  <2>2. ProcessStep(p)
    BY <1>1, <1>2, <1>6, <2>1, GoOn DEF Places
  <2>3. QED
    BY <1>6, <2>2, SameNotes DEF Effect, Untold, tables
<1>7. QED
  BY <1>4, <1>5, <1>6 DEF Create

LEMMA ReleaseDoes ==
  ASSUME Typed, NEW p \in Procs, Promoting(p), Release(p)
  PROVE  Effect(p) /\ NotesGrow /\ ProcessStep(p)
<1>1. /\ Goto(p, "idle", Idle) /\ mem[p].note \in DOMAIN notes
      /\ notes' \in {notes, [notes EXCEPT ![mem[p].note] = Unpromoted]}
      /\ UNCHANGED <<decisions, memory, dependencies, events>>
  BY DEF Release, Promoting, Promotion
<1>2. Unpromoted \in NoteRows
  BY DEF Unpromoted, NoteRows
<1>3. NotesGrow
  <2> DEFINE n == mem[p].note
  <2>1. n \in DOMAIN notes /\ notes' \in {notes, [notes EXCEPT ![n] = Unpromoted]}
    BY <1>1
  <2> HIDE DEF n
  <2>2. CASE notes' = [notes EXCEPT ![n] = Unpromoted]
    BY <1>2, <2>1, <2>2, TypedFacts, Replaced DEF NotesGrow
  <2>3. QED
    BY <2>1, <2>2, SameNotes
<1>4. QED
  BY <1>1, <1>3, GoIdle DEF Effect, Untold

LEMMA MarkPromotedDoes ==
  ASSUME Typed, NEW p \in Procs, Promoting(p), MarkPromoted(p)
  PROVE  Effect(p) /\ NotesGrow /\ ProcessStep(p)
<1> DEFINE m == mem[p]
           row == [to |-> m.to, id |-> m.id]
<1>1. /\ Goto(p, "idle", Idle) /\ m.note \in DOMAIN notes /\ m.to \in {"decision", "memory"}
      /\ UNCHANGED <<decisions, memory, dependencies>>
  BY TypedFacts DEF MarkPromoted, Promoting, Promotion, Promotes, Holds
<1>2. ProcessStep(p)
  BY <1>1, GoIdle
<1>3. m.id \in Nat /\ m.note \in Nat /\ m.since \in 0 .. Len(events)
  <2>1. m \in Remembered /\ m.since \in 0 .. Len(events)
    BY TypedFacts
  <2>2. QED
    BY <2>1 DEF Remembered
<1>4. row \in NoteRows
  BY <1>1, <1>3 DEF NoteRows
<1> HIDE DEF row
<1>5. CASE notes' = [notes EXCEPT ![m.note] = row] /\ Tell("note", m.note, "promoted", p, m.since)
  <2>1. Mentioned(p)
    BY <1>1, <1>3, <1>5 DEF Mentioned
  <2>2. NotesGrow
    BY <1>1, <1>4, <1>5, TypedFacts, Replaced DEF NotesGrow
  <2>3. QED
    BY <1>2, <2>1, <2>2 DEF Effect
<1>6. CASE UNCHANGED <<notes, events>>
  BY <1>1, <1>2, <1>6, SameNotes DEF Effect, Untold
<1>7. QED
  BY <1>5, <1>6 DEF MarkPromoted, row

LEMMA IndexDoes ==
  ASSUME Typed, NEW p \in Procs, Index(p)
  PROVE  Effect(p) /\ NotesGrow /\ ProcessStep(p)
<1>1. UNCHANGED <<decisions, memory, notes, dependencies, events>>
  BY DEF Index, tables
<1>2. Goto(p, "idle", mem[p]) \/ Goto(p, "mark", mem[p]) \/ Goto(p, "release", mem[p])
  BY DEF Index
<1>3. mem[p] \in Remembered /\ mem[p].since <= Len(events)
      /\ KnowsOf(p, "mark", mem[p]) /\ KnowsOf(p, "release", mem[p])
  BY TypedFacts DEF KnowsOf
<1>4. ProcessStep(p)
  BY <1>2, <1>3, GoOn, GoIdle DEF Places
<1>5. QED
  BY <1>1, <1>4, SameNotes DEF Effect, Untold

LEMMA RenderConstraintsDoes ==
  ASSUME Typed, Trail, NEW p \in Procs, RenderConstraints(p)
  PROVE  Effect(p) /\ NotesGrow /\ ProcessStep(p)
<1>1. /\ Start(p, "export", "render", [Idle EXCEPT !.shown = ShownMemory])
      /\ UNCHANGED <<decisions, memory, notes, dependencies, events>>
  BY DEF RenderConstraints, tables
<1>2. ProcessStep(p)
  <2> DEFINE m == [Idle EXCEPT !.shown = ShownMemory]
             n == [m EXCEPT !.since = Len(events)]
  <2>1. ShownMemory \in SUBSET Nat
    BY TypedFacts DEF ShownMemory
  <2>2. m \in Remembered /\ m.shown = ShownMemory
    BY <2>1, IdleRemembered DEF Idle, Remembered
  <2>3. Start(p, "export", "render", m)
    BY <1>1
  <2> HIDE DEF m
  <2>4. n.shown = ShownMemory /\ n.since = Len(events)
    BY <2>2, TypedFacts, Remembering
  <2> HIDE DEF n
  <2>5. \A i \in ShownMemory : TrustedAt("memory", i, Len(events))
    BY TrailTells DEF TrailTellsTrust, ShownMemory
  <2>6. KnowsOf(p, "render", n)
    BY <2>4, <2>5 DEF KnowsOf
  <2>7. QED
    BY <2>2, <2>3, <2>6, StartOn DEF n, Places
<1>3. QED
  BY <1>1, <1>2, SameNotes DEF Effect, Untold

LEMMA RenderDecisionsDoes ==
  ASSUME Typed, NEW p \in Procs, RenderDecisions(p)
  PROVE  Effect(p) /\ NotesGrow /\ ProcessStep(p)
<1>1. Goto(p, "idle", Idle) /\ UNCHANGED <<decisions, memory, notes, dependencies, events>>
  BY DEF RenderDecisions, tables
<1>2. QED
  BY <1>1, GoIdle, SameNotes DEF Effect, Untold

LEMMA CrashDoes ==
  ASSUME Typed, NEW p \in Procs, Crash(p)
  PROVE  Effect(p) /\ NotesGrow /\ ProcessStep(p)
<1>1. Goto(p, "idle", Idle) /\ UNCHANGED <<decisions, memory, notes, dependencies, events>>
  BY DEF Crash, tables
<1>2. QED
  BY <1>1, GoIdle, SameNotes DEF Effect, Untold

LEMMA StepDoes ==
  ASSUME Typed, Trail, NEW p \in Procs, Knows(p), Promoting(p), Step(p)
  PROVE  Effect(p) /\ NotesGrow /\ ProcessStep(p)
BY AddDecisionDoes, AcceptDecisionDoes, StartRetireDoes, RetireDoes, AddMemoryDoes,
   ReviewMemoryDoes, SetMemoryStaleDoes, TouchMemoryDoes, AddDependencyDoes,
   VerifyDependencyDoes, RecordFailureDoes, CountDraftsDoes, DraftFailurePatternDoes,
   AddNoteDoes, ClaimDoes, CreateDoes, ReleaseDoes, MarkPromotedDoes, IndexDoes,
   RenderConstraintsDoes, RenderDecisionsDoes, CrashDoes
   DEF Step

-----------------------------------------------------------------------------
(* What the processes know, and what the context file shows.               *)

LEMMA KnownStill ==
  ASSUME Typed, Grows, TrailGrows, NEW q, NEW to, NEW m \in Remembered,
         m.since <= Len(events), KnowsOf(q, to, m)
  PROVE  KnowsOf(q, to, m)'
<1>1. DOMAIN decisions \subseteq DOMAIN decisions'
  BY TypedFacts, RowOf DEF Grows
<1>2. PICK since \in 0 .. Len(events) : since = m.since
  BY TypedFacts DEF Remembered
<1>3. PICK id : id = m.id
  OBVIOUS
<1>4. to = "retire" =>
        /\ m.to \in Retired /\ m.id \in DOMAIN decisions'
        /\ m.by \in {0} \union (DOMAIN decisions' \ {m.id})
        /\ q \notin Deciders => ~TrustedAt("decision", id, since)'
  <2>1. TrustedAt("decision", id, since)' = TrustedAt("decision", id, since)
    BY Lasting DEF Tables
  <2>2. QED
    BY <1>1, <1>2, <1>3, <2>1 DEF KnowsOf
<1>5. to = "render" => \A i \in m.shown : TrustedAt("memory", i, since)'
  BY <1>2, Lasting DEF KnowsOf, Tables
<1>6. QED
  BY <1>2, <1>3, <1>4, <1>5 DEF KnowsOf

LEMMA KnowsKeep ==
  ASSUME Typed, Grows, TrailGrows, NEW p \in Procs, ProcessStep(p), \A q \in Procs : Knows(q)
  PROVE  \A q \in Procs : Knows(q)'
<1> SUFFICES ASSUME NEW q \in Procs PROVE Knows(q)'
  OBVIOUS
<1>1. PICK to \in Places, m \in Remembered :
        /\ m.since <= Len(events) /\ KnowsOf(p, to, m)
        /\ pc' = [pc EXCEPT ![p] = to] /\ mem' = [mem EXCEPT ![p] = m]
  BY DEF ProcessStep
<1>2. \E at \in Places, l \in Remembered :
        /\ at = pc'[q] /\ l = mem'[q] /\ l.since <= Len(events) /\ KnowsOf(q, at, l)
  <2>1. CASE q = p
    <3>1. pc'[q] = to /\ mem'[q] = m
      BY <1>1, <2>1, TypedFacts
    <3>2. KnowsOf(q, to, m) /\ m.since <= Len(events)
      BY <1>1, <2>1
    <3>3. QED
      BY <3>1, <3>2
  <2>2. CASE q # p
    <3>1. pc'[q] = pc[q] /\ mem'[q] = mem[q]
      BY <1>1, <2>2, TypedFacts
    <3>2. PICK at \in Places, l \in Remembered : at = pc[q] /\ l = mem[q] /\ l.since <= Len(events)
      <4>1. pc[q] \in Places
        BY DEF Typed, TypeOK, Places
      <4>2. QED
        BY <4>1, TypedFacts
    <3>3. KnowsOf(q, at, l)
      BY <3>2 DEF Knows, KnowsOf
    <3>4. QED
      BY <3>1, <3>2, <3>3
  <2>3. QED
    BY <2>1, <2>2
<1>3. PICK at \in Places, l \in Remembered :
        /\ at = pc'[q] /\ l = mem'[q] /\ l.since <= Len(events) /\ KnowsOf(q, at, l)
  BY <1>2
<1>4. KnowsOf(q, at, l)'
  BY <1>3, KnownStill
<1>5. QED
  BY <1>3, <1>4 DEF Knows, KnowsOf

LEMMA TypesKeep ==
  ASSUME Typed, Fits, Grows, NotesGrow, TrailGrows, NEW p \in Procs, ProcessStep(p)
  PROVE  Typed'
<1>1. PICK to \in Places, m \in Remembered :
        /\ m.since <= Len(events)
        /\ pc' = [pc EXCEPT ![p] = to] /\ mem' = [mem EXCEPT ![p] = m]
  BY DEF ProcessStep
<1>2. events' \in Seq(Events) /\ Len(events) <= Len(events') /\ Len(events') \in Nat
  <2>1. CASE UNCHANGED events
    BY <2>1, TypedFacts
  <2>2. ASSUME NEW e \in Events, events' = Append(events, e)
        PROVE  events' \in Seq(Events) /\ Len(events) <= Len(events') /\ Len(events') \in Nat
    BY <2>2, TypedFacts, Appended
  <2>3. QED
    BY <2>1, <2>2 DEF TrailGrows
<1>3. pc \in [Procs -> Places] /\ mem \in [Procs -> Remembered]
  BY TypedFacts DEF Typed, TypeOK, Places
<1>4. pc' \in [Procs -> Places] /\ mem' \in [Procs -> Remembered]
  BY <1>1, <1>3
<1>5. \A q \in Procs : mem'[q].since \in 0 .. Len(events')
  <2>1. \A q \in Procs : mem'[q].since \in Nat /\ mem'[q].since <= Len(events)
    <3>1. m.since \in Nat
      BY DEF Remembered
    <3>2. QED
      BY <1>1, <1>3, <3>1, TypedFacts
  <2>2. QED
    BY <1>2, <2>1, TypedFacts
<1>6. QED
  BY <1>2, <1>4, <1>5
  DEF Typed, TypeOK, Grows, NotesGrow, DecisionRows, MemoryRows, NoteRows, Sources, Places

LEMMA ContextStill ==
  ASSUME Typed, ContextFits, ContextShowsWhatStood, TrailGrows, UNCHANGED context
  PROVE  ContextFits' /\ ContextShowsWhatStood'
<1>1. context.since .. context.until \subseteq 0 .. Len(events)
  BY TypedFacts DEF ContextFits
<1>2. 0 .. Len(events) \subseteq 0 .. Len(events')
  BY Lasting DEF Tables
<1>3. ASSUME NEW n \in context.since .. context.until, NEW table \in {"memory", "decision"}, NEW i,
             TrustedAt(table, i, n)
      PROVE  TrustedAt(table, i, n)'
  BY <1>1, <1>3, Lasting DEF Tables
<1>4. ContextFits'
  BY <1>2 DEF ContextFits
<1>5. ContextShowsWhatStood'
  BY <1>3 DEF ContextShowsWhatStood
<1>6. QED
  BY <1>4, <1>5

LEMMA ContextRendered ==
  ASSUME Typed, Trail, TrailGrows, NEW p \in Procs, Knows(p), RenderDecisions(p)
  PROVE  ContextFits' /\ ContextShowsWhatStood'
<1>1. /\ context' = [since |-> mem[p].since, until |-> Len(events),
                     memory |-> mem[p].shown, decisions |-> ShownDecisions]
      /\ UNCHANGED events /\ pc[p] = "render"
  BY DEF RenderDecisions
<1>2. PICK from \in 0 .. Len(events), now \in 0 .. Len(events) :
        from = mem[p].since /\ now = Len(events)
  <2>1. mem[p].since \in 0 .. Len(events) /\ Len(events) \in 0 .. Len(events)
    BY TypedFacts
  <2>2. QED
    BY <2>1
<1>3. from \in from .. now /\ now \in from .. now /\ from \in Nat /\ now \in Nat
  BY <1>2, TypedFacts
<1>4. \A i \in mem[p].shown : TrustedAt("memory", i, from)
  BY <1>1, <1>2 DEF Knows, KnowsOf
<1>5. \A i \in ShownDecisions : TrustedAt("decision", i, now)
  <2>1. \A i \in ShownDecisions : i \in DOMAIN decisions
    BY DEF ShownDecisions
  <2>2. QED
    BY <1>2, <2>1, TrailTells DEF TrailTellsTrust
<1>6. /\ \A i \in mem[p].shown : TrustedAt("memory", i, from)'
      /\ \A i \in ShownDecisions : TrustedAt("decision", i, now)'
  BY <1>4, <1>5, Lasting DEF Tables
<1>7. /\ context'.since = from /\ context'.until = now /\ context'.memory = mem[p].shown
      /\ context'.decisions = ShownDecisions
  BY <1>1, <1>2
<1>8. ContextFits'
  BY <1>1, <1>2, <1>3, <1>7 DEF ContextFits
<1>9. ContextShowsWhatStood'
  BY <1>3, <1>6, <1>7 DEF ContextShowsWhatStood
<1>10. QED
  BY <1>8, <1>9

LEMMA ContextKeeps ==
  ASSUME Typed, Trail, ContextFits, ContextShowsWhatStood, TrailGrows,
         NEW p \in Procs, Knows(p), Step(p)
  PROVE  ContextFits' /\ ContextShowsWhatStood'
<1>1. UNCHANGED context \/ RenderDecisions(p)
  BY DEF Step, AddDecision, AcceptDecision, StartRetire, Retire, AddMemory, ReviewMemory,
         SetMemoryStale, TouchMemory, AddDependency, VerifyDependency, RecordFailure,
         CountDrafts, DraftFailurePattern, AddNote, Claim, Create, Release, MarkPromoted,
         Index, RenderConstraints, Crash
<1>2. QED
  BY <1>1, ContextStill, ContextRendered

-----------------------------------------------------------------------------
(* Drafts.                                                                 *)

LEMMA FewerAre ==
  ASSUME NEW S, IsFiniteSet(S), NEW T \in SUBSET S
  PROVE  /\ IsFiniteSet(T) /\ Cardinality(T) <= Cardinality(S)
         /\ Cardinality(T) \in Nat /\ Cardinality(S) \in Nat
BY FS_Subset, FS_CardinalityType

\* Counting A's members twice: what keeps two sets within its number.
LEMMA Counting ==
  ASSUME NEW A, IsFiniteSet(A), NEW P, IsFiniteSet(P), NEW D \in SUBSET A, NEW PP,
         NEW DD \in SUBSET A, Cardinality(P) + Cardinality(D) <= Cardinality(A),
         \/ PP = {}
         \/ PP \subseteq P /\ DD \subseteq D
         \/ \E x, y : PP \subseteq P \union {x} /\ y \in D /\ DD \subseteq D \ {y}
  PROVE  Cardinality(PP) + Cardinality(DD) <= Cardinality(A)
<1>1. /\ IsFiniteSet(D) /\ IsFiniteSet(DD) /\ Cardinality(DD) <= Cardinality(A)
      /\ Cardinality(D) \in Nat /\ Cardinality(DD) \in Nat /\ Cardinality(A) \in Nat
  BY FewerAre
<1>2. Cardinality(P) \in Nat
  BY FS_CardinalityType
<1>3. CASE PP = {}
  BY <1>1, <1>3, FS_EmptySet
<1>4. CASE PP \subseteq P /\ DD \subseteq D
  <2>1. Cardinality(PP) <= Cardinality(P) /\ Cardinality(PP) \in Nat
    BY <1>4, FewerAre
  <2>2. Cardinality(DD) <= Cardinality(D)
    BY <1>1, <1>4, FewerAre
  <2>3. QED
    BY <1>1, <1>2, <2>1, <2>2
<1>5. ASSUME NEW x, NEW y, PP \subseteq P \union {x}, y \in D, DD \subseteq D \ {y}
      PROVE  Cardinality(PP) + Cardinality(DD) <= Cardinality(A)
  <2>1. Cardinality(PP) <= Cardinality(P) + 1 /\ Cardinality(PP) \in Nat
    <3>1. IsFiniteSet(P \union {x}) /\ Cardinality(P \union {x}) <= Cardinality(P) + 1
      BY <1>2, FS_AddElement
    <3>2. Cardinality(PP) <= Cardinality(P \union {x}) /\ Cardinality(PP) \in Nat
          /\ Cardinality(P \union {x}) \in Nat
      BY <1>5, <3>1, FewerAre
    <3>3. QED
      BY <1>2, <3>1, <3>2
  <2>2. Cardinality(DD) <= Cardinality(D) - 1
    <3>1. IsFiniteSet(D \ {y}) /\ Cardinality(D \ {y}) = Cardinality(D) - 1
      BY <1>1, <1>5, FS_RemoveElement
    <3>2. QED
      BY <1>5, <3>1, FewerAre
  <2>3. QED
    BY <1>1, <1>2, <2>1, <2>2
<1>6. QED
  BY <1>3, <1>4, <1>5

\* No entry that was drafted starts to wait for review.
NoDraft ==
  \A i \in DOMAIN memory' :
    memory'[i].status = "pending" /\ memory'[i].source.kind \in Drafted =>
      i \in DOMAIN memory /\ memory[i].status = "pending"

LEMMA InsertedRow ==
  ASSUME Typed, NEW p, NEW kind \in Kinds, NEW source \in Sources, NEW since,
         InsertMemory(p, kind, source, since)
  PROVE  /\ DOMAIN memory' = DOMAIN memory \union {Len(memory) + 1}
         /\ Len(memory) + 1 \notin DOMAIN memory
         /\ memory'[Len(memory) + 1].source = source
         /\ \A i \in DOMAIN memory : memory'[i] = memory[i]
<1> DEFINE status == StatusOnArrival(p, source.kind \in Drafted)
           row == [kind |-> kind, status |-> status, stale |-> FALSE, source |-> source]
<1>1. memory' = Append(memory, row)
  BY DEF InsertMemory
<1>2. status \in MemoryStatuses
  BY DEF StatusOnArrival, MemoryStatuses
<1> HIDE DEF status
<1>3. row \in MemoryRows /\ row.source = source
  BY <1>2 DEF MemoryRows
<1> HIDE DEF row
<1>4. QED
  BY <1>1, <1>3, TypedFacts, Appended

LEMMA ReplacedRow ==
  ASSUME Typed, NEW i \in DOMAIN memory,
         \/ \E to \in {"approved", "rejected"} : memory' = [memory EXCEPT ![i].status = to]
         \/ \E stale \in BOOLEAN : memory' = [memory EXCEPT ![i].stale = stale]
  PROVE  /\ DOMAIN memory' = DOMAIN memory
         /\ \A j \in DOMAIN memory :
              memory'[j].status = "pending" => memory[j].status = "pending"
<1> DEFINE row == memory[i]
<1>1. row \in MemoryRows
  BY TypedFacts
<1>2. PICK new \in MemoryRows : memory' = [memory EXCEPT ![i] = new]
                               /\ (new.status = "pending" => row.status = "pending")
  <2>1. ASSUME NEW to \in {"approved", "rejected"}, memory' = [memory EXCEPT ![i].status = to]
        PROVE  \E new \in MemoryRows : memory' = [memory EXCEPT ![i] = new]
                                       /\ (new.status = "pending" => row.status = "pending")
    <3>1. memory' = [memory EXCEPT ![i] = [row EXCEPT !.status = to]]
      BY <2>1
    <3>2. to \in MemoryStatuses
      BY DEF MemoryStatuses
    <3> HIDE DEF row
    <3>3. [row EXCEPT !.status = to] \in MemoryRows /\ [row EXCEPT !.status = to].status = to
      BY <1>1, <3>2, MemoryRow
    <3>4. QED
      BY <3>1, <3>3
  <2>2. ASSUME NEW stale \in BOOLEAN, memory' = [memory EXCEPT ![i].stale = stale]
        PROVE  \E new \in MemoryRows : memory' = [memory EXCEPT ![i] = new]
                                       /\ (new.status = "pending" => row.status = "pending")
    <3>1. memory' = [memory EXCEPT ![i] = [row EXCEPT !.stale = stale]]
      BY <2>2
    <3> HIDE DEF row
    <3>2. [row EXCEPT !.stale = stale] \in MemoryRows
          /\ [row EXCEPT !.stale = stale].status = row.status
      BY <1>1, MemoryRow
    <3>3. QED
      BY <3>1, <3>2
  <2>3. QED
    BY <2>1, <2>2
<1>3. QED
  BY <1>2, TypedFacts, Replaced

LEMMA NoneDrafted ==
  ASSUME Typed, NEW p \in Procs, Promoting(p), Step(p), ~DraftFailurePattern(p)
  PROVE  NoDraft
<1>1. CASE UNCHANGED memory
  BY <1>1 DEF NoDraft
<1>2. ASSUME NEW kind \in Kinds, NEW source \in Sources, NEW since,
             InsertMemory(p, kind, source, since), source.kind \notin Drafted
      PROVE  NoDraft
  BY <1>2, InsertedRow DEF NoDraft
<1>3. CASE AddMemory(p)
  <2>1. NoSource \in Sources /\ NoSource.kind \notin Drafted
    BY IdleRemembered DEF NoSource, Drafted
  <2>2. QED
    BY <1>2, <1>3, <2>1 DEF AddMemory
<1>4. CASE Create(p)
  <2> DEFINE source == [kind |-> "note", of |-> mem[p].note]
  <2>1. mem[p].note \in Nat
    BY TypedFacts DEF Remembered
  <2>2. source \in Sources /\ source.kind \notin Drafted
    BY <2>1 DEF Sources, Drafted
  <2>3. \/ \E kind \in Kinds : InsertMemory(p, kind, source, mem[p].since)
        \/ UNCHANGED memory
    BY <1>4 DEF Create, InsertDecision, tables
  <2> HIDE DEF source
  <2>4. ASSUME NEW kind \in Kinds, InsertMemory(p, kind, source, mem[p].since)
        PROVE  NoDraft
    <3>1. PICK from, since : from = source /\ since = mem[p].since
      OBVIOUS
    <3>2. InsertMemory(p, kind, from, since) /\ from \in Sources /\ from.kind \notin Drafted
      BY <2>2, <2>4, <3>1 DEF InsertMemory, Tell
    <3>3. QED
      BY <1>2, <3>2
  <2>5. QED
    BY <1>1, <2>3, <2>4
<1>5. CASE ReviewMemory(p) \/ SetMemoryStale(p)
  BY <1>5, ReplacedRow DEF ReviewMemory, SetMemoryStale, NoDraft
<1>6. QED
  BY <1>1, <1>3, <1>4, <1>5
  DEF Step, AddDecision, AcceptDecision, StartRetire, Retire, TouchMemory, AddDependency,
      VerifyDependency, RecordFailure, CountDrafts, AddNote, Claim, Release, MarkPromoted,
      Index, RenderConstraints, RenderDecisions, Crash, tables, InsertDecision

LEMMA ComesToDraft ==
  ASSUME Typed, NEW p \in Procs, Step(p), pc'[p] = "draft"
  PROVE  CountDrafts(p) /\ LiveDrafts(mem[p].source) = {} /\ mem'[p] = mem[p]
<1>1. ASSUME NEW to, to # "draft", pc' = [pc EXCEPT ![p] = to] PROVE FALSE
  BY <1>1, TypedFacts
<1>2. CountDrafts(p)
  BY <1>1 DEF Step, AddDecision, AcceptDecision, StartRetire, Retire, AddMemory, ReviewMemory,
         SetMemoryStale, TouchMemory, AddDependency, VerifyDependency, RecordFailure,
         DraftFailurePattern, AddNote, Claim, Create, Release, MarkPromoted,
         Index, RenderConstraints, RenderDecisions, Crash, Start, Goto
<1>3. QED
  BY <1>2, TypedFacts DEF CountDrafts, Goto

LEMMA CapKeeps ==
  ASSUME Typed, Capped, Grows, NEW p \in Procs, Promoting(p), Knows(p), ProcessStep(p), Step(p)
  PROVE  Capped'
<1> SUFFICES ASSUME NEW t \in Tasks, NEW kind \in Drafted
             PROVE  LET s == [kind |-> kind, of |-> t] IN
                    Cardinality(Pending(s)') + Cardinality(Drafting(s)') <= Cardinality(Procs)
  BY DEF Capped
<1> DEFINE s == [kind |-> kind, of |-> t]
           P == Pending(s)
           D == Drafting(s)
           PP == Pending(s)'
           DD == Drafting(s)'
<1>1. Cardinality(P) + Cardinality(D) <= Cardinality(Procs)
  BY DEF Capped
<1>2. IsFiniteSet(P) /\ IsFiniteSet(Procs) /\ D \in SUBSET Procs /\ DD \in SUBSET Procs
  <2>1. IsFiniteSet(DOMAIN memory)
    BY TypedFacts, FS_Interval
  <2>2. P \subseteq DOMAIN memory
    BY DEF Pending
  <2>3. QED
    BY <2>1, <2>2, RecordsAssumption, FewerAre DEF Drafting
<1>3. \/ PP = {}
      \/ PP \subseteq P /\ DD \subseteq D
      \/ \E x, y : PP \subseteq P \union {x} /\ y \in D /\ DD \subseteq D \ {y}
  <2>1. DD \ {p} \subseteq D
    <3>1. \A q \in Procs \ {p} : pc'[q] = pc[q] /\ mem'[q] = mem[q]
      BY TypedFacts DEF ProcessStep
    <3>2. QED
      BY <3>1 DEF Drafting
  <2>2. s.kind = kind /\ s.of = t
    OBVIOUS
  <2>3. NoDraft => PP \subseteq P
    BY <2>2 DEF NoDraft, Pending, Grows
  <2>4. CASE p \in DD
    <3>1. CountDrafts(p) /\ LiveDrafts(s) = {}
      BY <2>4, ComesToDraft DEF Drafting, LiveDrafts
    <3>2. PP = {}
      BY <3>1 DEF CountDrafts, tables, Pending, LiveDrafts
    <3>3. QED
      BY <3>2
  <2>5. CASE p \notin DD /\ NoDraft
    BY <2>1, <2>3, <2>5
  <2>6. CASE p \notin DD /\ DraftFailurePattern(p)
    <3> DEFINE new == Len(memory) + 1
    <3>1. PICK source \in Sources, since \in Nat : source = mem[p].source /\ since = mem[p].since
      BY TypedFacts DEF Remembered
    <3>2. InsertMemory(p, "failure_pattern", source, since)
      BY <2>6, <3>1 DEF DraftFailurePattern, InsertMemory, Tell
    <3>3. /\ DOMAIN memory' = DOMAIN memory \union {new} /\ memory'[new].source = source
          /\ \A i \in DOMAIN memory : memory'[i] = memory[i]
      BY <3>2, InsertedRow DEF Kinds
    <3>4. CASE mem[p].source = s
      <4>1. p \in D
        BY <2>6, <3>4 DEF DraftFailurePattern, Drafting
      <4>2. PP \subseteq P \union {new}
        BY <3>3 DEF Pending
      <4>3. DD \subseteq D \ {p}
        BY <2>1, <2>6
      <4>4. QED
        BY <4>1, <4>2, <4>3
    <3>5. CASE mem[p].source # s
      <4>1. PP \subseteq P
        BY <3>1, <3>3, <3>5 DEF Pending
      <4>2. QED
        BY <2>1, <2>6, <4>1
    <3>6. QED
      BY <3>4, <3>5
  <2>7. QED
    BY <2>4, <2>5, <2>6, NoneDrafted
<1> HIDE DEF P, D, PP, DD
<1>4. Cardinality(PP) + Cardinality(DD) <= Cardinality(Procs)
  BY <1>1, <1>2, <1>3, Counting
<1>5. QED
  BY <1>4 DEF PP, DD

-----------------------------------------------------------------------------
(* Promotions: what the others' steps leave alone.                         *)

LEMMA OthersStay ==
  ASSUME Typed, NEW p \in Procs, ProcessStep(p)
  PROVE  \A q \in Procs \ {p} : pc'[q] = pc[q] /\ mem'[q] = mem[q]
BY TypedFacts DEF ProcessStep

\* A step of p that concerns note n alone, or none when n is 0.
LEMMA PromotedKeeps ==
  ASSUME Typed, Promoted, NEW p \in Procs, ProcessStep(p), NEW n \in Nat,
         0 \notin DOMAIN notes',
         DOMAIN notes \ {n} \subseteq DOMAIN notes', DOMAIN notes' \subseteq DOMAIN notes \union {n},
         \A k \in DOMAIN notes \ {n} : notes'[k] = notes[k] /\ MadeOf(k)' = MadeOf(k),
         unreported \subseteq unreported',
         \A q \in Procs \ {p} : n # 0 => ~Promotes(q, n),
         pc'[p] \in Promotion => mem'[p].note \in {0, n},
         Promoting(p)', n \in DOMAIN notes' => MadeOnceOf(n)'
  PROVE  Promoted'
<1>1. \A q \in Procs \ {p} : pc'[q] = pc[q] /\ mem'[q] = mem[q]
  BY OthersStay
<1>2. ASSUME NEW q \in Procs \ {p} PROVE Promoting(q)'
  <2>1. Promoting(q)
    BY DEF Promoted
  <2>2. ASSUME NEW k \in DOMAIN notes', Promotes(q, k)' PROVE Holds(q, k)'
    <3>1. Promotes(q, k) /\ k # n /\ k \in DOMAIN notes
      BY <1>1, <2>2 DEF Promotes
    <3>2. Holds(q, k)
      BY <2>1, <3>1 DEF Promoting
    <3>3. notes'[k] = notes[k] /\ MadeOf(k)' = MadeOf(k)
      BY <3>1
    <3>4. QED
      BY <1>1, <3>2, <3>3 DEF Holds
  <2>3. pc[q] \in Promotion => mem[q].note \in {0} \union DOMAIN notes'
    BY <2>1 DEF Promoting, Promotes
  <2>4. QED
    BY <1>1, <2>1, <2>2, <2>3 DEF Promoting
<1>3. Alone'
  <2>1. ASSUME NEW k \in DOMAIN notes', NEW q \in Procs, NEW r \in Procs,
               Promotes(q, k)', Promotes(r, k)', q # r
        PROVE  FALSE
    <3>1. CASE k = n
      BY <1>1, <2>1, <3>1 DEF Promotes
    <3>2. CASE k # n
      <4>1. q # p /\ r # p
        BY <2>1, <3>2 DEF Promotes
      <4>2. Promotes(q, k) /\ Promotes(r, k) /\ k \in DOMAIN notes
        BY <1>1, <2>1, <3>2, <4>1 DEF Promotes
      <4>3. QED
        BY <2>1, <4>2 DEF Promoted, Alone
    <3>3. QED
      BY <3>1, <3>2
  <2>2. QED
    BY <2>1 DEF Alone
<1>4. ASSUME NEW k \in DOMAIN notes' PROVE MadeOnceOf(k)'
  <2>1. CASE k = n
    BY <2>1
  <2>2. CASE k # n
    <3>1. MadeOnceOf(k) /\ notes'[k] = notes[k] /\ MadeOf(k)' = MadeOf(k)
      BY <2>2 DEF Promoted
    <3>2. QED
      BY <3>1 DEF MadeOnceOf
  <2>3. QED
    BY <2>1, <2>2
<1>5. QED
  BY <1>2, <1>3, <1>4 DEF Promoted

\* No row that was made of a note.
NoneMade ==
  /\ \A i \in DOMAIN decisions' \ DOMAIN decisions : decisions'[i].from = 0
  /\ \A i \in DOMAIN memory' \ DOMAIN memory : memory'[i].source.kind # "note"

LEMMA MadeOfSame ==
  ASSUME Typed, Grows, NoneMade, NEW k, k # 0
  PROVE  MadeOf(k)' = MadeOf(k)
<1>1. DOMAIN decisions \subseteq DOMAIN decisions' /\ DOMAIN memory \subseteq DOMAIN memory'
  BY TypedFacts, RowOf DEF Grows
<1>2. \A i : i \in DOMAIN decisions' /\ decisions'[i].from = k
               <=> i \in DOMAIN decisions /\ decisions[i].from = k
  BY <1>1 DEF NoneMade, Grows
<1> DEFINE source == [kind |-> "note", of |-> k]
<1>3. source.kind = "note"
  OBVIOUS
<1> HIDE DEF source
<1>4. \A i : i \in DOMAIN memory' /\ memory'[i].source = source
               <=> i \in DOMAIN memory /\ memory[i].source = source
  BY <1>1, <1>3 DEF NoneMade, Grows
<1>5. {j \in DOMAIN decisions' : decisions'[j].from = k} = {j \in DOMAIN decisions : decisions[j].from = k}
  BY <1>2
<1>6. {j \in DOMAIN memory' : memory'[j].source = source} = {j \in DOMAIN memory : memory[j].source = source}
  BY <1>4
<1>7. QED
  BY <1>5, <1>6 DEF MadeOf, source

LEMMA InsertedDecision ==
  ASSUME Typed, NEW p, NEW from \in Nat, NEW since, InsertDecision(p, from, since)
  PROVE  /\ DOMAIN decisions' = DOMAIN decisions \union {Len(decisions) + 1}
         /\ Len(decisions) + 1 \notin DOMAIN decisions
         /\ decisions'[Len(decisions) + 1].from = from
         /\ \A i \in DOMAIN decisions : decisions'[i] = decisions[i]
         /\ UNCHANGED memory
<1> DEFINE row == [status |-> "proposed", by |-> 0, from |-> from]
<1>1. decisions' = Append(decisions, row) /\ UNCHANGED memory
  BY DEF InsertDecision
<1>2. row \in DecisionRows /\ row.from = from
  BY DEF DecisionRows, DecisionStatuses
<1> HIDE DEF row
<1>3. QED
  BY <1>1, <1>2, TypedFacts, Appended

LEMMA OnlyCreateMakes ==
  ASSUME Typed, NEW p \in Procs, Knows(p), Step(p), ~Create(p)
  PROVE  NoneMade
<1>1. CASE DOMAIN decisions' = DOMAIN decisions /\ DOMAIN memory' = DOMAIN memory
  BY <1>1 DEF NoneMade
<1>2. CASE AddDecision(p)
  <2>1. InsertDecision(p, 0, Len(events))
    BY <1>2 DEF AddDecision
  <2>2. QED
    BY <2>1, InsertedDecision DEF NoneMade
<1>3. ASSUME NEW kind \in Kinds, NEW source \in Sources, NEW since,
             InsertMemory(p, kind, source, since), source.kind # "note"
      PROVE  NoneMade
  BY <1>3, InsertedRow DEF NoneMade, InsertMemory
<1>4. CASE AddMemory(p)
  <2>1. NoSource \in Sources /\ NoSource.kind # "note"
    BY IdleRemembered DEF NoSource
  <2>2. QED
    BY <1>3, <1>4, <2>1 DEF AddMemory
<1>5. CASE DraftFailurePattern(p)
  <2>1. PICK source \in Sources, since \in Nat : source = mem[p].source /\ since = mem[p].since
    BY TypedFacts DEF Remembered
  <2>2. InsertMemory(p, "failure_pattern", source, since) /\ source.kind \in Drafted
    BY <1>5, <2>1 DEF DraftFailurePattern, InsertMemory, Tell, Knows, KnowsOf
  <2>3. QED
    BY <1>3, <2>2 DEF Drafted, Kinds
<1>6. CASE ReviewMemory(p) \/ SetMemoryStale(p)
  BY <1>1, <1>6 DEF ReviewMemory, SetMemoryStale
<1>7. CASE AcceptDecision(p) \/ Retire(p)
  BY <1>1, <1>7 DEF AcceptDecision, Retire
<1>8. QED
  BY <1>1, <1>2, <1>4, <1>5, <1>6, <1>7
  DEF Step, StartRetire, TouchMemory, AddDependency, VerifyDependency, RecordFailure,
      CountDrafts, AddNote, Claim, Release, MarkPromoted, Index, RenderConstraints,
      RenderDecisions, Crash, tables

\* A step after which p promotes nothing.
LEMMA NotPromoting ==
  ASSUME NEW p, 0 \notin DOMAIN notes',
         pc'[p] \in Promotion => pc'[p] = "index" /\ mem'[p].note = 0
  PROVE  Promoting(p)'
BY DEF Promoting, Promotes, Promotion

LEMMA QuietKeeps ==
  ASSUME Typed, Promoted, Grows, NoneMade, NEW p \in Procs, ProcessStep(p),
         UNCHANGED notes, unreported \subseteq unreported',
         pc'[p] \in Promotion => pc'[p] = "index" /\ mem'[p].note = 0
  PROVE  Promoted'
<1>1. 0 \notin DOMAIN notes /\ 0 \in Nat
  BY TypedFacts
<1>2. Promoting(p)'
  BY <1>1, NotPromoting
<1>3. \A k \in DOMAIN notes : MadeOf(k)' = MadeOf(k)
  BY <1>1, MadeOfSame
<1>4. QED
  BY <1>1, <1>2, <1>3, PromotedKeeps

\* A step after which p promotes n.
LEMMA StillPromoting ==
  ASSUME NEW p, NEW n \in DOMAIN notes', n # 0, pc'[p] \in Promotion, mem'[p].note = n,
         Holds(p, n)'
  PROVE  Promoting(p)' /\ MadeOnceOf(n)'
<1>1. Promoting(p)'
  BY DEF Promoting, Promotes
<1>2. MadeOnceOf(n)'
  BY DEF Holds, MadeOnceOf, Promotion
<1>3. QED
  BY <1>1, <1>2

-----------------------------------------------------------------------------
(* Promotions, step by step.                                               *)

LEMMA Started ==
  ASSUME Typed, NEW p \in Procs, NEW call, NEW to, NEW m \in Remembered, Start(p, call, to, m)
  PROVE  pc'[p] = to /\ mem'[p].note = m.note /\ mem'[p].to = m.to /\ mem'[p].id = m.id
<1> DEFINE n == [m EXCEPT !.since = Len(events)]
<1>1. pc' = [pc EXCEPT ![p] = to] /\ mem' = [mem EXCEPT ![p] = n]
  BY DEF Start
<1>2. n.note = m.note /\ n.to = m.to /\ n.id = m.id
  BY TypedFacts, Remembering
<1> HIDE DEF n
<1>3. QED
  BY <1>1, <1>2, TypedFacts

LEMMA Gone ==
  ASSUME Typed, NEW p \in Procs, NEW to, NEW m, Goto(p, to, m)
  PROVE  pc'[p] = to /\ (to # "idle" => mem'[p] = m)
BY TypedFacts DEF Goto

LEMMA AddedQuietly ==
  ASSUME Typed, NEW p \in Procs, NEW call, NEW table \in {"decision", "memory", "note"},
         NEW id \in Nat,
         Start(p, call, "index", [Idle EXCEPT !.to = table, !.id = id])
  PROVE  pc'[p] = "index" /\ mem'[p].note = 0
<1> DEFINE m == [Idle EXCEPT !.to = table, !.id = id]
<1>1. m \in Remembered /\ m.note = 0
  BY IdleRemembered DEF Idle, Remembered
<1>2. Start(p, call, "index", m)
  OBVIOUS
<1> HIDE DEF m
<1>3. QED
  BY <1>1, <1>2, Started

LEMMA AddedPlace ==
  ASSUME Typed, NEW p \in Procs, AddDecision(p) \/ AddMemory(p) \/ AddNote(p)
  PROVE  pc'[p] = "index" /\ mem'[p].note = 0
<1>1. Len(decisions) + 1 \in Nat /\ Len(memory) + 1 \in Nat /\ Len(notes) + 1 \in Nat
  BY TypedFacts
<1>2. PICK id \in Nat, table \in {"decision", "memory", "note"}, call \in Calls :
        Start(p, call, "index", [Idle EXCEPT !.to = table, !.id = id])
  BY <1>1 DEF AddDecision, AddMemory, AddNote, Calls
<1>3. QED
  BY <1>2, AddedQuietly

LEMMA QuietPlace ==
  ASSUME Typed, NEW p \in Procs, Knows(p), Step(p),
         ~Claim(p), ~Create(p), ~Release(p), ~(Index(p) /\ mem[p].note # 0)
  PROVE  pc'[p] \in Promotion => pc'[p] = "index" /\ mem'[p].note = 0
<1>1. ASSUME NEW to \in {"idle", "retire", "count", "draft", "render"},
             pc' = [pc EXCEPT ![p] = to]
      PROVE  pc'[p] \notin Promotion
  BY <1>1, TypedFacts DEF Promotion
<1>2. CASE AddDecision(p) \/ AddMemory(p) \/ AddNote(p)
  BY <1>2, AddedPlace
<1>3. CASE DraftFailurePattern(p)
  <2> DEFINE mid == [mem[p] EXCEPT !.to = "memory"]
             m == [mid EXCEPT !.id = Len(memory) + 1]
  <2>1. Goto(p, "index", m) /\ pc[p] = "draft"
    BY <1>3 DEF DraftFailurePattern
  <2>2. mid \in Remembered /\ mid.note = mem[p].note
    <3>1. mem[p] \in Remembered
      BY TypedFacts
    <3>2. QED
      BY <3>1 DEF Remembered
  <2> HIDE DEF mid
  <2>3. m.note = mem[p].note
    BY <2>2 DEF Remembered
  <2> HIDE DEF m
  <2>4. QED
    BY <2>1, <2>3, Gone DEF Knows, KnowsOf
<1>4. CASE CountDrafts(p)
  BY <1>1, <1>4 DEF CountDrafts, Goto
<1>5. CASE Index(p)
  BY <1>1, <1>5 DEF Index, Goto
<1>6. QED
  BY <1>1, <1>2, <1>3, <1>4, <1>5
  DEF Step, AcceptDecision, StartRetire, Retire, ReviewMemory, SetMemoryStale, TouchMemory,
      AddDependency, VerifyDependency, RecordFailure, MarkPromoted, RenderConstraints,
      RenderDecisions, Crash, Start, Goto

LEMMA AddNotePromoted ==
  ASSUME Typed, Fits, Promoted, Grows, NEW p \in Procs, ProcessStep(p), AddNote(p)
  PROVE  Promoted'
<1>1. notes' = Append(notes, Unpromoted) /\ UNCHANGED <<decisions, memory, unreported>>
  BY DEF AddNote
<1>2. PICK n \in Nat : n = Len(notes) + 1
  BY TypedFacts
<1>3. /\ n # 0 /\ 0 \notin DOMAIN notes'
      /\ n \notin DOMAIN notes /\ DOMAIN notes' = DOMAIN notes \union {n}
      /\ notes'[n] = Unpromoted /\ \A k \in DOMAIN notes : notes'[k] = notes[k]
  <2>1. Unpromoted \in NoteRows
    BY DEF Unpromoted, NoteRows
  <2>2. QED
    BY <1>1, <1>2, <2>1, TypedFacts, Appended
<1>4. pc'[p] \in Promotion => pc'[p] = "index" /\ mem'[p].note = 0
  BY AddedPlace
<1>5. Promoting(p)'
  BY <1>3, <1>4, NotPromoting
<1>6. MadeOf(n) = {}
  <2>1. \A i \in DOMAIN decisions : decisions[i].from # n
    BY <1>2, TypedFacts DEF Fits
  <2>2. \A i \in DOMAIN memory : memory[i].source # [kind |-> "note", of |-> n]
    BY <1>2, TypedFacts DEF Fits
  <2>3. QED
    BY <2>1, <2>2 DEF MadeOf
<1>7. \A k : MadeOf(k)' = MadeOf(k)
  BY <1>1 DEF MadeOf
<1>8. MadeOnceOf(n)'
  BY <1>3, <1>6, <1>7 DEF MadeOnceOf, Unpromoted
<1>9. \A q \in Procs : ~Promotes(q, n)
  BY <1>3 DEF Promoted, Promoting, Promotes
<1>10. QED
  BY <1>1, <1>3, <1>4, <1>5, <1>7, <1>8, <1>9, PromotedKeeps

LEMMA ClaimPromoted ==
  ASSUME Typed, Promoted, Grows, NEW p \in Procs, ProcessStep(p), Claim(p)
  PROVE  Promoted'
<1>1. PICK n \in DOMAIN notes, kind \in {"decision", "memory"} :
        /\ MayClaim(n)
        /\ Start(p, "promote", "create", [Idle EXCEPT !.note = n, !.to = kind])
        /\ notes' = [notes EXCEPT ![n].to = kind]
  BY DEF Claim
<1>2. UNCHANGED <<decisions, memory, unreported>> /\ n \in Nat /\ n # 0
  BY TypedFacts DEF Claim
<1>3. notes[n].to = "none" /\ notes[n].id = 0 /\ MadeOf(n) \subseteq unreported
  BY <1>1 DEF MayClaim, Promoted, MadeOnceOf
<1>4. /\ notes'[n] = [to |-> kind, id |-> 0] /\ DOMAIN notes' = DOMAIN notes
      /\ \A k \in DOMAIN notes \ {n} : notes'[k] = notes[k]
      /\ 0 \notin DOMAIN notes'
  <2> DEFINE row == [notes[n] EXCEPT !.to = kind]
  <2>1. notes' = [notes EXCEPT ![n] = row]
    BY <1>1
  <2>2. row = [to |-> kind, id |-> 0] /\ row \in NoteRows
    <3>1. notes[n] \in NoteRows
      BY TypedFacts
    <3>2. QED
      BY <1>3, <3>1 DEF NoteRows
  <2> HIDE DEF row
  <2>3. QED
    BY <2>1, <2>2, TypedFacts, Replaced
<1>5. pc'[p] = "create" /\ mem'[p].note = n /\ mem'[p].to = kind
  <2> DEFINE m == [Idle EXCEPT !.note = n, !.to = kind]
  <2>1. m \in Remembered /\ m.note = n /\ m.to = kind
    BY <1>2, IdleRemembered DEF Idle, Remembered
  <2>2. Start(p, "promote", "create", m)
    BY <1>1
  <2> HIDE DEF m
  <2>3. QED
    BY <2>1, <2>2, Started
<1>6. \A k : MadeOf(k)' = MadeOf(k)
  BY <1>2 DEF MadeOf
<1>7. Holds(p, n)'
  BY <1>2, <1>3, <1>4, <1>5, <1>6 DEF Holds
<1>8. Promoting(p)' /\ MadeOnceOf(n)'
  BY <1>2, <1>4, <1>5, <1>7, StillPromoting DEF Promotion
<1>9. \A q \in Procs : ~Promotes(q, n)
  <2>1. ASSUME NEW q \in Procs, Promotes(q, n) PROVE FALSE
    <3>1. Holds(q, n)
      BY <2>1 DEF Promoted, Promoting
    <3>2. QED
      BY <1>3, <3>1 DEF Holds
  <2>2. QED
    BY <2>1
<1>10. QED
  BY <1>2, <1>4, <1>5, <1>6, <1>8, <1>9, PromotedKeeps

\* What a promotion relies on when it goes on: the note is its own.
LEMMA OwnNote ==
  ASSUME Typed, Promoted, NEW p \in Procs, pc[p] \in Promotion, mem[p].note # 0
  PROVE  /\ mem[p].note \in DOMAIN notes /\ mem[p].note \in Nat
         /\ \A n \in DOMAIN notes : n = mem[p].note =>
              Holds(p, n) /\ MadeOnceOf(n) /\ \A q \in Procs \ {p} : ~Promotes(q, n)
BY TypedFacts DEF Promoted, Promoting, Promotes, Alone

LEMMA CreatePromoted ==
  ASSUME Typed, Promoted, Grows, NEW p \in Procs, ProcessStep(p), Create(p)
  PROVE  Promoted'
<1>1. pc[p] = "create" /\ mem[p].note # 0 /\ UNCHANGED <<notes, unreported>>
  BY DEF Create, Promoted, Promoting, InsertDecision, InsertMemory, tables
<1>2. PICK n \in DOMAIN notes : n = mem[p].note
  BY <1>1, OwnNote DEF Promotion
<1>3. /\ n \in Nat /\ n # 0 /\ 0 \notin DOMAIN notes
      /\ Holds(p, n) /\ MadeOnceOf(n) /\ \A q \in Procs \ {p} : ~Promotes(q, n)
  BY <1>1, <1>2, TypedFacts, OwnNote DEF Promotion
<1>4. mem[p] \in Remembered /\ notes[n] = [to |-> mem[p].to, id |-> 0]
      /\ MadeOf(n) \subseteq unreported
  BY <1>1, <1>3, TypedFacts DEF Holds
<1>5. ASSUME NEW id \in Nat, Goto(p, "index", [mem[p] EXCEPT !.id = id]),
             MadeOf(n)' = MadeOf(n) \union {<<mem[p].to, id>>},
             \A k \in DOMAIN notes \ {n} : MadeOf(k)' = MadeOf(k)
      PROVE  Promoted'
  <2> DEFINE row == mem[p]
             m == [row EXCEPT !.id = id]
  <2>1. m.note = n /\ m.to = row.to /\ m.id = id
    BY <1>2, <1>4 DEF Remembered
  <2>2. Goto(p, "index", m)
    BY <1>5
  <2> HIDE DEF m
  <2>3. pc'[p] = "index" /\ mem'[p] = m
    BY <2>2, Gone
  <2>4. Holds(p, n)'
    BY <1>1, <1>3, <1>4, <1>5, <2>1, <2>3 DEF Holds
  <2>5. Promoting(p)' /\ MadeOnceOf(n)'
    BY <1>1, <1>3, <2>1, <2>3, <2>4, StillPromoting DEF Promotion
  <2>6. QED
    BY <1>1, <1>3, <1>5, <2>1, <2>3, <2>5, PromotedKeeps
<1>6. CASE /\ mem[p].to = "decision"
           /\ Goto(p, "index", [mem[p] EXCEPT !.id = Len(decisions) + 1])
           /\ InsertDecision(p, mem[p].note, mem[p].since)
  <2>1. PICK id \in Nat, since \in Nat : id = Len(decisions) + 1 /\ since = mem[p].since
    BY TypedFacts DEF Remembered
  <2>2. InsertDecision(p, n, since) /\ Goto(p, "index", [mem[p] EXCEPT !.id = id])
    BY <1>2, <1>6, <2>1 DEF InsertDecision, Tell, Goto
  <2>3. /\ DOMAIN decisions' = DOMAIN decisions \union {id} /\ id \notin DOMAIN decisions
        /\ decisions'[id].from = n /\ UNCHANGED memory
        /\ \A i \in DOMAIN decisions : decisions'[i] = decisions[i]
    BY <1>3, <2>1, <2>2, InsertedDecision
  <2>4. MadeOf(n)' = MadeOf(n) \union {<<"decision", id>>}
    BY <2>3 DEF MadeOf
  <2>5. \A k \in DOMAIN notes \ {n} : MadeOf(k)' = MadeOf(k)
    BY <2>3 DEF MadeOf
  <2>6. QED
    BY <1>5, <1>6, <2>2, <2>4, <2>5
<1>7. CASE /\ mem[p].to = "memory"
           /\ Goto(p, "index", [mem[p] EXCEPT !.id = Len(memory) + 1])
           /\ \E kind \in Kinds :
                InsertMemory(p, kind, [kind |-> "note", of |-> mem[p].note], mem[p].since)
  <2> DEFINE source == [kind |-> "note", of |-> n]
  <2>1. PICK id \in Nat, since \in Nat : id = Len(memory) + 1 /\ since = mem[p].since
    BY TypedFacts DEF Remembered
  <2>2. PICK kind \in Kinds : InsertMemory(p, kind, source, since)
    BY <1>2, <1>7, <2>1 DEF InsertMemory, Tell
  <2>3. Goto(p, "index", [mem[p] EXCEPT !.id = id]) /\ UNCHANGED decisions
    BY <1>7, <2>1, <2>2 DEF InsertMemory, Goto
  <2>4. source \in Sources /\ source.of = n
    BY <1>3 DEF Sources
  <2> HIDE DEF source
  <2>5. /\ DOMAIN memory' = DOMAIN memory \union {id} /\ id \notin DOMAIN memory
        /\ memory'[id].source = source
        /\ \A i \in DOMAIN memory : memory'[i] = memory[i]
    BY <2>1, <2>2, <2>4, InsertedRow
  <2>6. MadeOf(n)' = MadeOf(n) \union {<<"memory", id>>}
    BY <2>3, <2>5 DEF MadeOf, source
  <2>7. \A k \in DOMAIN notes \ {n} : MadeOf(k)' = MadeOf(k)
    <3>1. \A k \in DOMAIN notes \ {n} : source # [kind |-> "note", of |-> k]
      BY <2>4
    <3>2. QED
      BY <2>3, <2>5, <3>1 DEF MadeOf
  <2>8. QED
    BY <1>5, <1>7, <2>3, <2>6, <2>7
<1>8. CASE Goto(p, "release", mem[p]) /\ UNCHANGED <<tables, events>>
  <2>1. pc'[p] = "release" /\ mem'[p] = mem[p]
    BY <1>8, Gone
  <2>2. \A k : MadeOf(k)' = MadeOf(k)
    BY <1>8 DEF MadeOf, tables
  <2>3. Holds(p, n)'
    BY <1>1, <1>3, <1>4, <2>1, <2>2 DEF Holds
  <2>4. Promoting(p)' /\ MadeOnceOf(n)'
    BY <1>1, <1>2, <1>3, <2>1, <2>3, StillPromoting DEF Promotion
  <2>5. QED
    BY <1>1, <1>2, <1>3, <2>1, <2>2, <2>4, PromotedKeeps
<1>9. QED
  BY <1>6, <1>7, <1>8 DEF Create

LEMMA IndexPromoted ==
  ASSUME Typed, Promoted, Grows, NEW p \in Procs, ProcessStep(p), Index(p), mem[p].note # 0
  PROVE  Promoted'
<1>1. pc[p] = "index" /\ UNCHANGED <<decisions, memory, notes>>
      /\ \/ Goto(p, "mark", mem[p]) /\ UNCHANGED unreported
         \/ /\ Goto(p, "release", mem[p])
            /\ unreported' = unreported \union {<<mem[p].to, mem[p].id>>}
  BY DEF Index, tables
<1>2. PICK n \in DOMAIN notes : n = mem[p].note
  BY <1>1, OwnNote DEF Promotion
<1>3. /\ n \in Nat /\ n # 0 /\ 0 \notin DOMAIN notes
      /\ Holds(p, n) /\ \A q \in Procs \ {p} : ~Promotes(q, n)
  BY <1>1, <1>2, TypedFacts, OwnNote DEF Promotion
<1>4. /\ mem'[p] = mem[p] /\ pc'[p] \in Promotion
      /\ \/ pc'[p] = "mark"
         \/ /\ pc'[p] = "release"
            /\ unreported' = unreported \union {<<mem[p].to, mem[p].id>>}
  <2>1. CASE Goto(p, "mark", mem[p])
    BY <2>1, Gone DEF Promotion
  <2>2. CASE /\ Goto(p, "release", mem[p])
             /\ unreported' = unreported \union {<<mem[p].to, mem[p].id>>}
    BY <2>2, Gone DEF Promotion
  <2>3. QED
    BY <1>1, <2>1, <2>2
<1>5. \A k : MadeOf(k)' = MadeOf(k)
  BY <1>1 DEF MadeOf
<1>6. unreported \subseteq unreported'
  BY <1>1
<1>7. Holds(p, n)'
  BY <1>1, <1>3, <1>4, <1>5, <1>6 DEF Holds
<1>8. Promoting(p)' /\ MadeOnceOf(n)'
  BY <1>1, <1>2, <1>3, <1>4, <1>7, StillPromoting
<1>9. QED
  BY <1>1, <1>2, <1>3, <1>4, <1>5, <1>6, <1>8, PromotedKeeps

\* The end of a promotion: the note's row says what was made of it.
LEMMA EndPromoted ==
  ASSUME Typed, Promoted, NEW p \in Procs, ProcessStep(p), NEW n \in DOMAIN notes,
         n = mem[p].note, pc[p] \in Promotion, pc'[p] = "idle",
         UNCHANGED <<decisions, memory, unreported>>,
         NEW row \in NoteRows, notes' = [notes EXCEPT ![n] = row],
         \/ row = Unpromoted /\ pc[p] = "release"
         \/ row = [to |-> mem[p].to, id |-> mem[p].id] /\ pc[p] = "mark"
  PROVE  Promoted'
<1>1. n \in Nat /\ n # 0 /\ 0 \notin DOMAIN notes
  BY TypedFacts
<1>2. Holds(p, n) /\ MadeOnceOf(n) /\ \A q \in Procs \ {p} : ~Promotes(q, n)
  BY <1>1, OwnNote
<1>3. /\ DOMAIN notes' = DOMAIN notes /\ notes'[n] = row
      /\ \A k \in DOMAIN notes \ {n} : notes'[k] = notes[k]
  BY TypedFacts, Replaced
<1>4. \A k : MadeOf(k)' = MadeOf(k)
  BY DEF MadeOf
<1>5. MadeOnceOf(n)'
  BY <1>2, <1>3, <1>4 DEF MadeOnceOf, Holds, Unpromoted
<1>6. pc'[p] \notin Promotion
  BY DEF Promotion
<1>7. Promoting(p)'
  BY <1>1, <1>3, <1>6, NotPromoting
<1>8. QED
  BY <1>1, <1>2, <1>3, <1>4, <1>5, <1>6, <1>7, PromotedKeeps

LEMMA ReleasePromoted ==
  ASSUME Typed, Promoted, Grows, NEW p \in Procs, ProcessStep(p), Release(p)
  PROVE  Promoted'
<1>1. /\ pc[p] = "release" /\ UNCHANGED <<decisions, memory, unreported>>
      /\ pc'[p] = "idle" /\ notes' \in {notes, [notes EXCEPT ![mem[p].note] = Unpromoted]}
  BY Gone DEF Release
<1>2. PICK n \in DOMAIN notes : n = mem[p].note
  BY <1>1, OwnNote DEF Promotion, Promoted, Promoting
<1>3. CASE UNCHANGED notes
  BY <1>1, <1>3, QuietKeeps DEF NoneMade, Promotion
<1>4. CASE notes' = [notes EXCEPT ![n] = Unpromoted]
  <2>1. Unpromoted \in NoteRows
    BY DEF Unpromoted, NoteRows
  <2>2. QED
    BY <1>1, <1>2, <1>4, <2>1, EndPromoted DEF Promotion
<1>5. QED
  BY <1>1, <1>2, <1>3, <1>4

LEMMA MarkPromotedPromoted ==
  ASSUME Typed, Promoted, Grows, NEW p \in Procs, ProcessStep(p), MarkPromoted(p)
  PROVE  Promoted'
<1>1. pc[p] = "mark" /\ UNCHANGED <<decisions, memory>> /\ pc'[p] = "idle"
  BY Gone DEF MarkPromoted
<1>2. PICK n \in DOMAIN notes : n = mem[p].note
  BY <1>1, OwnNote DEF Promotion, Promoted, Promoting
<1>3. CASE UNCHANGED notes /\ unreported' = unreported \union {<<mem[p].to, mem[p].id>>}
  BY <1>1, <1>3, QuietKeeps DEF NoneMade, Promotion
<1>4. CASE /\ notes' = [notes EXCEPT ![mem[p].note] = [to |-> mem[p].to, id |-> mem[p].id]]
           /\ UNCHANGED unreported
  <2> DEFINE row == [to |-> mem[p].to, id |-> mem[p].id]
  <2>1. row \in NoteRows
    <3>1. Holds(p, n) /\ mem[p] \in Remembered
      BY <1>1, <1>2, TypedFacts, OwnNote DEF Promotion
    <3>2. QED
      BY <3>1 DEF NoteRows, Holds, Remembered
  <2> HIDE DEF row
  <2>2. notes' = [notes EXCEPT ![n] = row]
    BY <1>2, <1>4 DEF row
  <2>3. QED
    BY <1>1, <1>2, <1>4, <2>1, <2>2, EndPromoted DEF Promotion, row
<1>5. QED
  BY <1>3, <1>4 DEF MarkPromoted

LEMMA PromotionKeeps ==
  ASSUME Typed, Fits, Promoted, Grows, NEW p \in Procs, Knows(p), ProcessStep(p), Step(p)
  PROVE  Promoted'
<1>1. CASE AddNote(p)
  BY <1>1, AddNotePromoted
<1>2. CASE Claim(p)
  BY <1>2, ClaimPromoted
<1>3. CASE Create(p)
  BY <1>3, CreatePromoted
<1>4. CASE Release(p)
  BY <1>4, ReleasePromoted
<1>5. CASE MarkPromoted(p)
  BY <1>5, MarkPromotedPromoted
<1>6. CASE Index(p) /\ mem[p].note # 0
  BY <1>6, IndexPromoted
<1>7. CASE ~AddNote(p) /\ ~Claim(p) /\ ~Create(p) /\ ~Release(p) /\ ~MarkPromoted(p)
           /\ ~(Index(p) /\ mem[p].note # 0)
  <2>1. UNCHANGED notes /\ unreported \subseteq unreported'
    BY <1>7 DEF Step, AddDecision, AcceptDecision, StartRetire, Retire, AddMemory, ReviewMemory,
         SetMemoryStale, TouchMemory, AddDependency, VerifyDependency, RecordFailure,
         CountDrafts, DraftFailurePattern, Index, RenderConstraints, RenderDecisions, Crash,
         InsertDecision, InsertMemory, tables
  <2>2. NoneMade
    BY <1>7, OnlyCreateMakes
  <2>3. pc'[p] \in Promotion => pc'[p] = "index" /\ mem'[p].note = 0
    BY <1>7, QuietPlace
  <2>4. QED
    BY <2>1, <2>2, <2>3, QuietKeeps
<1>8. QED
  BY <1>1, <1>2, <1>3, <1>4, <1>5, <1>6, <1>7

-----------------------------------------------------------------------------
(* The invariant.                                                          *)

LEMMA RecordsInitially == Init => IInv
<1> SUFFICES ASSUME Init PROVE IInv
  OBVIOUS
<1>1. /\ decisions = <<>> /\ memory = <<>> /\ notes = <<>> /\ dependencies = <<>>
      /\ events = <<>> /\ context = NoContext /\ unreported = {}
      /\ pc = [p \in Procs |-> "idle"] /\ mem = [p \in Procs |-> Idle]
  BY DEF Init
<1>2. Typed
  <2>1. Idle \in Remembered /\ Idle.since = 0
    BY IdleRemembered DEF Idle
  <2>2. events \in Seq(Events) /\ mem \in [Procs -> Remembered]
    BY <1>1, <2>1
  <2>3. TypeOK
    BY <1>1, <2>1 DEF TypeOK
  <2>4. QED
    BY <2>2, <2>3 DEF Typed
<1>3. Fits /\ Trail
  BY <1>1 DEF Fits, Trail
<1>4. \A p \in Procs : Knows(p)
  BY <1>1 DEF Knows, KnowsOf
<1>5. ContextFits /\ ContextShowsWhatStood
  BY <1>1 DEF ContextFits, ContextShowsWhatStood, NoContext
<1>6. TrustTakesAPerson /\ RulesRetiredByPeople
  BY <1>1 DEF TrustTakesAPerson, RulesRetiredByPeople
<1>7. Capped
  <2>1. \A s : Pending(s) = {} /\ Drafting(s) = {}
    BY <1>1 DEF Pending, Drafting
  <2>2. Cardinality(Procs) \in Nat /\ Cardinality({}) = 0
    BY RecordsAssumption, FS_CardinalityType, FS_EmptySet
  <2>3. ASSUME NEW s
        PROVE  Cardinality(Pending(s)) + Cardinality(Drafting(s)) <= Cardinality(Procs)
    <3>1. Cardinality(Pending(s)) = 0 /\ Cardinality(Drafting(s)) = 0
      BY <2>1, <2>2
    <3>2. QED
      BY <2>2, <3>1
  <2>4. QED
    BY <2>3 DEF Capped
<1>8. Promoted
  BY <1>1 DEF Promoted, Alone, Promoting, Promotes, Promotion
<1>9. QED
  BY <1>2, <1>3, <1>4, <1>5, <1>6, <1>7, <1>8 DEF IInv

LEMMA RecordsStep == IInv /\ [Next]_vars => IInv'
<1> SUFFICES ASSUME IInv, [Next]_vars PROVE IInv'
  OBVIOUS
<1>1. /\ Typed /\ Fits /\ Trail /\ \A p \in Procs : Knows(p)
      /\ ContextFits /\ ContextShowsWhatStood /\ TrustTakesAPerson /\ RulesRetiredByPeople
      /\ Capped /\ Promoted /\ \A p \in Procs : Promoting(p)
  BY DEF IInv, Promoted
<1>2. ASSUME NEW p \in Procs, Step(p) PROVE IInv'
  <2>1. Effect(p) /\ NotesGrow /\ ProcessStep(p)
    BY <1>1, <1>2, StepDoes
  <2>2. Grows /\ TrailGrows /\ Trail'
    BY <1>1, <2>1, EffectKeeps
  <2>3. Fits'
    BY <1>1, <2>1, <2>2, FitsKeeps DEF NotesGrow
  <2>4. Typed'
    BY <1>1, <2>1, <2>2, TypesKeep
  <2>5. \A q \in Procs : Knows(q)'
    BY <1>1, <2>1, <2>2, KnowsKeep
  <2>6. ContextFits' /\ ContextShowsWhatStood'
    BY <1>1, <1>2, <2>2, ContextKeeps
  <2>7. TrustTakesAPerson' /\ RulesRetiredByPeople'
    BY <1>1, <2>2, PersonsKeep
  <2>8. Capped'
    BY <1>1, <1>2, <2>1, <2>2, CapKeeps
  <2>9. Promoted'
    BY <1>1, <1>2, <2>1, <2>2, PromotionKeeps
  <2>10. QED
    BY <2>2, <2>3, <2>4, <2>5, <2>6, <2>7, <2>8, <2>9 DEF IInv
<1>3. CASE UNCHANGED vars
  <2>1. /\ UNCHANGED <<decisions, memory, notes, dependencies, events>>
        /\ UNCHANGED <<context, unreported, pc, mem>>
    BY <1>3 DEF vars, tables
  <2>2. Typed' /\ Fits' /\ Trail' /\ ContextFits'
    BY <1>1, <2>1 DEF Typed, TypeOK, Fits, Trail, ContextFits
  <2>3. TrailGrows
    BY <2>1 DEF TrailGrows
  <2>4. ASSUME NEW q \in Procs PROVE Knows(q)'
    <3>1. Grows
      BY <1>1, <2>1, UntoldKeeps DEF Untold
    <3>2. ProcessStep(q)
      <4>1. PICK at \in Places, m \in Remembered :
              at = pc[q] /\ m = mem[q] /\ m.since <= Len(events)
        <5>1. pc[q] \in Places
          BY <1>1 DEF Typed, TypeOK, Places
        <5>2. QED
          BY <1>1, <5>1, TypedFacts
      <4>2. KnowsOf(q, at, m)
        BY <1>1, <4>1 DEF Knows, KnowsOf
      <4>3. pc' = [pc EXCEPT ![q] = at] /\ mem' = [mem EXCEPT ![q] = m]
        BY <1>1, <2>1, <4>1, TypedFacts DEF Typed, TypeOK
      <4>4. QED
        BY <4>1, <4>2, <4>3 DEF ProcessStep
    <3>3. QED
      BY <1>1, <2>3, <3>1, <3>2, KnowsKeep
  <2>5. ContextShowsWhatStood'
    BY <1>1, <2>1, <2>3, ContextStill
  <2>6. TrustTakesAPerson' /\ RulesRetiredByPeople'
    BY <1>1, <2>1 DEF TrustTakesAPerson, RulesRetiredByPeople, TrustedAt, ToldLast
  <2>7. Capped'
    BY <1>1, <2>1 DEF Capped, Pending, Drafting
  <2>8. Promoted'
    BY <1>1, <2>1
    DEF Promoted, Alone, Promoting, Promotes, Holds, MadeOnceOf, MadeOf
  <2>9. QED
    BY <2>2, <2>4, <2>5, <2>6, <2>7, <2>8 DEF IInv
<1>4. QED
  BY <1>2, <1>3 DEF Next

LEMMA RecordsInvariant == Spec => []IInv
BY RecordsInitially, RecordsStep, PTL DEF Spec

-----------------------------------------------------------------------------
(* The theorems.                                                           *)

\* However commands interleave, fail and die, what the trail says of a record is
\* what its row says, and an exported context shows nothing that was not to be
\* relied on while it was written.
THEOREM TrailTellsOfTrust == Spec => []TrustIsTold
<1>1. IInv => TrustIsTold
  BY TrailTells DEF IInv, Typed, TrustIsTold
<1>2. QED
  BY <1>1, RecordsInvariant, PTL

\* No agent's command makes a record trusted, or retires a rule that stood when
\* the command began.
THEOREM TrustTakesPeople == Spec => []TrustIsAPersonsCall
<1>1. IInv => TrustIsAPersonsCall
  BY DEF IInv, TrustIsAPersonsCall
<1>2. QED
  BY <1>1, RecordsInvariant, PTL

LEMMA OneAtMost ==
  ASSUME NEW S, \A x, y \in S : x = y
  PROVE  Cardinality(S) <= 1
<1>1. CASE S = {}
  BY <1>1, FS_EmptySet
<1>2. ASSUME NEW x \in S PROVE Cardinality(S) <= 1
  <2>1. S = {x}
    OBVIOUS
  <2>2. QED
    BY <2>1, FS_Singleton
<1>3. QED
  BY <1>1, <1>2

\* A failure leaves no more drafts waiting than there are processes, and a note
\* one record nobody reported an error for, whoever promotes it.
THEOREM FailuresAndNotesAreUsedOnce == Spec => []MadeOnce
<1> SUFFICES IInv => MadeOnce
  BY RecordsInvariant, PTL
<1> SUFFICES ASSUME IInv PROVE MadeOnce
  OBVIOUS
<1>1. Typed /\ Capped /\ Promoted
  BY DEF IInv
<1>2. DraftsCapped
  <2>1. ASSUME NEW t \in Tasks, NEW kind \in Drafted
        PROVE  Cardinality(Pending([kind |-> kind, of |-> t])) <= Cardinality(Procs)
    <3> DEFINE s == [kind |-> kind, of |-> t]
    <3>1. Cardinality(Pending(s)) + Cardinality(Drafting(s)) <= Cardinality(Procs)
      BY <1>1 DEF Capped
    <3>2. /\ IsFiniteSet(DOMAIN memory) /\ Pending(s) \subseteq DOMAIN memory
          /\ Drafting(s) \subseteq Procs
      <4>1. IsFiniteSet(DOMAIN memory)
        BY <1>1, TypedFacts, FS_Interval
      <4>2. QED
        BY <4>1 DEF Pending, Drafting
    <3> DEFINE P == Pending(s)  D == Drafting(s)
    <3> HIDE DEF P, D, s
    <3>3. Cardinality(P) \in Nat /\ Cardinality(D) \in Nat /\ Cardinality(Procs) \in Nat
      BY <3>2, RecordsAssumption, FewerAre DEF P, D
    <3>4. Cardinality(P) <= Cardinality(Procs)
      BY <3>1, <3>3 DEF P, D
    <3>5. QED
      BY <3>4 DEF P, s
  <2>2. QED
    BY <2>1 DEF DraftsCapped, Pending
<1>3. ASSUME NEW n \in DOMAIN notes
      PROVE  /\ Cardinality(MadeOf(n) \ unreported) <= 1
             /\ notes[n].id # 0 => <<notes[n].to, notes[n].id>> \in MadeOf(n)
             /\ Cardinality({p \in Procs : pc[p] \in {"create", "index", "release", "mark"}
                                           /\ mem[p].note = n}) <= 1
  <2>1. MadeOnceOf(n) /\ Alone
    BY <1>1 DEF Promoted
  <2>2. Cardinality(MadeOf(n) \ unreported) <= 1
    BY <2>1, OneAtMost DEF MadeOnceOf
  <2> DEFINE S == {p \in Procs : pc[p] \in {"create", "index", "release", "mark"}
                                 /\ mem[p].note = n}
  <2>3. \A p, q \in S : p = q
    BY <2>1 DEF Alone, Promotes, Promotion
  <2> HIDE DEF S
  <2>4. Cardinality(S) <= 1
    BY <2>3, OneAtMost
  <2>5. QED
    BY <2>1, <2>2, <2>4 DEF MadeOnceOf, S
<1>4. QED
  BY <1>2, <1>3 DEF MadeOnce, PromotedOnce

=============================================================================
