----------------------------- MODULE FrontProofs -----------------------------
(***************************************************************************)
(* Theorems of Hooks: the guard sees what a shell would run, a call obeys  *)
(* the session it was made in however sessions change between the guard's  *)
(* reads, and every tagged line of a transcript is noted, once.  And of    *)
(* Shell: what the terminal UI promises, for any number of items, any tabs *)
(* and lines, whatever other processes commit.                             *)
(***************************************************************************)
EXTENDS Hooks, Shell, FiniteSetTheorems, SequenceTheorems, WellFoundedInduction, TLAPS

-----------------------------------------------------------------------------
(* The guard's tables: commands.                                           *)

LEMMA CommandFits ==
  ASSUME NEW c \in Commands(Nat)
  PROVE  /\ c.depth \in Nat /\ c.at \in Nat /\ c.at <= c.depth
         /\ c.executor = None \/ c.executor \in Nat
         /\ c.quoted \in BOOLEAN /\ FirstRaw(c) \in Nat
         /\ c.executor # None /\ c.executor <= MaxDepth => FirstRaw(c) = c.executor
         /\ ~(c.executor # None /\ c.executor <= MaxDepth) => FirstRaw(c) = 6
BY DEF Commands, FirstRaw, MaxDepth, None

\* What a shell would execute is in a text the tables are matched against, in
\* whatever quotes and however deep, and as a word of its own where it stands as
\* one.
LEMMA ExecutedIsShown ==
  ASSUME NEW c \in Commands(Nat), Executes(c)
  PROVE  \E t \in Targets(c) :
           /\ SaidIn(c, t)
           /\ \/ c.stands = "apart"
              \/ /\ c.stands = "opening" /\ ~c.quoted /\ c.at <= MaxDepth
                 /\ c.executor = None \/ c.at <= c.executor
              => LeadsIn(c, t)
<1> DEFINE F == FirstRaw(c)
<1>1. /\ c.depth \in Nat /\ c.at \in Nat /\ c.at <= c.depth /\ F \in Nat
      /\ c.executor = None \/ c.executor \in Nat
      /\ c.executor # None /\ c.executor <= MaxDepth => F = c.executor
      /\ ~(c.executor # None /\ c.executor <= MaxDepth) => F = 6
  BY CommandFits
<1> HIDE DEF F
<1>2. CASE c.at < F
  <2> DEFINE t == [level |-> c.at, raw |-> FALSE]
  <2>1. t \in Targets(c)
    <3>1. c.at \in {k \in 0 .. c.depth : k < FirstRaw(c)}
      BY <1>1, <1>2 DEF F
    <3>2. QED
      BY <3>1 DEF Targets
  <2>2. ~c.quoted
    BY <1>1, <1>2 DEF Executes, MaxDepth
  <2>3. SaidIn(c, t)
    BY <2>2 DEF SaidIn
  <2>4. c.stands \in {"apart", "opening"} => LeadsIn(c, t)
    BY <2>2, <2>3 DEF LeadsIn
  <2>5. QED
    BY <2>1, <2>3, <2>4
<1>3. CASE c.at >= F
  <2> DEFINE t == [level |-> F, raw |-> TRUE]
  <2>1. t \in Targets(c)
    <3>1. F \in {k \in 0 .. c.depth : k = FirstRaw(c)}
      BY <1>1, <1>3 DEF F
    <3>2. QED
      BY <3>1 DEF Targets
  <2>2. SaidIn(c, t)
    BY <1>3 DEF SaidIn
  <2>3. /\ c.stands = "opening" /\ ~c.quoted /\ c.at <= MaxDepth
        /\ c.executor = None \/ c.at <= c.executor
        => c.at = F
    BY <1>1, <1>3 DEF MaxDepth, None
  <2>4. QED
    BY <2>1, <2>2, <2>3 DEF LeadsIn
<1>4. QED
  BY <1>1, <1>2, <1>3

\* And what the tables are matched against is executed, or nests too deep.
LEMMA ShownIsExecuted ==
  ASSUME NEW c \in Commands(Nat), NEW t \in Targets(c), SaidIn(c, t)
  PROVE  Executes(c) \/ c.at > MaxDepth
<1>1. /\ c.depth \in Nat /\ c.at \in Nat /\ c.at <= c.depth /\ FirstRaw(c) \in Nat
      /\ c.executor = None \/ c.executor \in Nat
      /\ c.executor # None /\ c.executor <= MaxDepth => FirstRaw(c) = c.executor
      /\ ~(c.executor # None /\ c.executor <= MaxDepth) => FirstRaw(c) = 6
  BY CommandFits
<1>2. CASE t.raw
  <2>1. t.level \in Nat /\ t.level >= FirstRaw(c)
    BY <1>1, <1>2 DEF Targets
  <2>2. c.at >= FirstRaw(c)
    BY <1>1, <1>2, <2>1 DEF SaidIn
  <2>3. QED
    BY <1>1, <2>2 DEF Executes, MaxDepth
<1>3. CASE ~t.raw
  BY <1>3 DEF SaidIn, Executes
<1>4. QED
  BY <1>2, <1>3

LEMMA CallFits ==
  ASSUME NEW call \in CallRows
  PROVE  /\ call.tool \in Tools /\ call.command \in Commands(Nat) /\ call.glob \in Globs
         /\ call.path.asked = "none" <=> call.path.real = "none"
BY DEF CallRows, Paths

\* What the tables name and have in reach is blocked.
LEMMA DoneIsBlocked ==
  ASSUME NEW c \in Commands(Nat), Executes(c), InReach(c),
         c.does \in Sayings \ {"routine", "environment code", "file redirect", "file writer",
                               "session switch", "nothing"}
  PROVE  BlocksCommand(c)
<1>1. PICK t \in Targets(c) :
        /\ SaidIn(c, t)
        /\ \/ c.stands = "apart"
           \/ /\ c.stands = "opening" /\ ~c.quoted /\ c.at <= MaxDepth
              /\ c.executor = None \/ c.at <= c.executor
           => LeadsIn(c, t)
  BY ExecutedIsShown
<1>2. CASE c.does \in Patterns
  BY <1>1, <1>2 DEF BlocksCommand, Patterns
<1>3. CASE c.does \notin Patterns
  <2>1. c.does \in {"secret reader", "store program", "protected writer", "removal", "actor type"}
    BY <1>3 DEF Sayings, Words
  <2>2. LeadsIn(c, t) \/ (c.stands = "behind" /\ c.does \in {"removal", "actor type"})
    BY <1>1, <1>3 DEF InReach
  <2>3. QED
    BY <1>1, <2>1, <2>2 DEF BlocksCommand
<1>4. QED
  BY <1>2, <1>3

\* What the content rules let through does nothing they name.
LEMMA LetThroughIsAllowed ==
  ASSUME NEW call \in CallRows, ~BlocksContent(call)
  PROVE  ~Forbidden(call)
<1>1. /\ call.tool \in Tools /\ call.command \in Commands(Nat) /\ call.glob \in Globs
      /\ call.path.asked = "none" <=> call.path.real = "none"
  BY CallFits
<1>2. CASE call.tool = "Bash"
  <2>1. ~BlocksCommand(call.command)
    BY <1>2 DEF BlocksContent
  <2>2. ~Does(call, Sayings \ {"routine", "environment code", "file redirect", "file writer",
                              "session switch", "nothing"})
    BY <1>1, <2>1, DoneIsBlocked DEF Does
  <2>3. QED
    BY <1>2, <2>2 DEF Forbidden
<1>3. CASE call.tool = "Edit"
  <2>1. ~BlocksFile("Edit", call.path, call.glob)
    BY <1>3 DEF BlocksContent, FileTools
  <2>2. QED
    BY <1>1, <1>3, <2>1
    DEF BlocksFile, Forbidden, Does, SecretFile, ProtectedFile, StoreFile, InScope, WriteTools
<1>4. CASE call.tool = "Grep"
  <2>1. ~BlocksFile("Grep", call.path, call.glob)
    BY <1>4 DEF BlocksContent, FileTools
  <2>2. QED
    BY <1>4, <2>1 DEF BlocksFile, Forbidden, Does, SecretGlob
<1>5. QED
  BY <1>2, <1>3, <1>4 DEF Forbidden, Does

\* What a read-only role is not refused changes no file.
LEMMA ReadOnlyChangesNothing ==
  ASSUME NEW call \in CallRows, ~BlocksReadOnly(call)
  PROVE  ~ChangesFiles(call)
<1> DEFINE c == call.command
           written == {"file redirect", "protected redirect", "file writer", "protected writer"}
<1>1. c \in Commands(Nat)
  BY CallFits
<1>2. call.tool # "Edit"
  BY DEF BlocksReadOnly, WriteTools
<1>3. ASSUME Does(call, written) PROVE FALSE
  <2>1. call.tool = "Bash" /\ Executes(c) /\ InReach(c) /\ c.does \in written
    BY <1>3 DEF Does
  <2>2. PICK t \in Targets(c) :
          /\ SaidIn(c, t)
          /\ \/ c.stands = "apart"
             \/ /\ c.stands = "opening" /\ ~c.quoted /\ c.at <= MaxDepth
                /\ c.executor = None \/ c.at <= c.executor
             => LeadsIn(c, t)
    BY <1>1, <2>1, ExecutedIsShown
  <2>3. c.does \in {"file redirect", "protected redirect"} \/ LeadsIn(c, t)
    BY <2>1, <2>2 DEF InReach, Patterns
  <2>4. WritesFiles(c)
    BY <2>1, <2>2, <2>3 DEF WritesFiles
  <2>5. QED
    BY <2>1, <2>4 DEF BlocksReadOnly
<1>4. QED
  BY <1>2, <1>3 DEF ChangesFiles

LEMMA BlockedIsExecuted ==
  ASSUME NEW call \in CallRows, call.tool = "Bash", BlocksContent(call)
  PROVE  Executes(call.command) \/ call.command.at > MaxDepth
<1>1. BlocksCommand(call.command)
  BY DEF BlocksContent, FileTools
<1>2. PICK t \in Targets(call.command) : SaidIn(call.command, t)
  BY <1>1 DEF BlocksCommand, LeadsIn
<1>3. QED
  BY <1>2, CallFits, ShownIsExecuted

-----------------------------------------------------------------------------
(* The k-th of some positions.                                             *)

Rank(S, i) == Cardinality({j \in 1 .. i : j \in S})

LEMMA RankCounts ==
  ASSUME NEW n \in Nat, NEW S \in SUBSET (1 .. n)
  PROVE  /\ \A i \in 0 .. n : Rank(S, i) \in Nat
         /\ Rank(S, 0) = 0 /\ Rank(S, n) = Cardinality(S)
         /\ \A i \in 1 .. n : Rank(S, i) = Rank(S, i - 1) + (IF i \in S THEN 1 ELSE 0)
<1> DEFINE Upto(i) == {j \in 1 .. i : j \in S}
<1>1. ASSUME NEW i \in 0 .. n PROVE IsFiniteSet(Upto(i)) /\ Cardinality(Upto(i)) \in Nat
  <2>1. IsFiniteSet(1 .. i)
    BY FS_Interval
  <2>2. IsFiniteSet(Upto(i))
    BY <2>1, FS_Subset
  <2>3. QED
    BY <2>2, FS_CardinalityType
<1>2. Upto(0) = {} /\ Upto(n) = S
  <2>1. 1 .. 0 = {}
    OBVIOUS
  <2>2. \A j \in S : j \in 1 .. n
    OBVIOUS
  <2>3. QED
    BY <2>1, <2>2
<1>3. ASSUME NEW i \in 1 .. n
      PROVE  Cardinality(Upto(i)) = Cardinality(Upto(i - 1)) + (IF i \in S THEN 1 ELSE 0)
  <2>1. IsFiniteSet(Upto(i - 1)) /\ Cardinality(Upto(i - 1)) \in Nat
    BY <1>1
  <2>2. CASE i \in S
    <3>1. Upto(i) = Upto(i - 1) \union {i} /\ i \notin Upto(i - 1)
      BY <2>2
    <3> HIDE DEF Upto
    <3>2. QED
      BY <2>1, <2>2, <3>1, FS_AddElement
  <2>3. CASE i \notin S
    <3>1. Upto(i) = Upto(i - 1)
      BY <2>3
    <3> HIDE DEF Upto
    <3>2. QED
      BY <2>1, <2>3, <3>1
  <2>4. QED
    BY <2>2, <2>3
<1>4. \A i : Rank(S, i) = Cardinality(Upto(i))
  BY DEF Rank
<1> HIDE DEF Upto
<1>5. Cardinality(Upto(0)) = 0 /\ Cardinality(Upto(n)) = Cardinality(S)
  BY <1>2, FS_EmptySet
<1>6. QED
  BY <1>1, <1>3, <1>4, <1>5

LEMMA RankGrows ==
  ASSUME NEW n \in Nat, NEW S \in SUBSET (1 .. n), NEW i \in S, NEW j \in S, i < j
  PROVE  Rank(S, i) < Rank(S, j)
<1> DEFINE Upto(k) == {m \in 1 .. k : m \in S}
<1>1. i \in 0 .. n /\ j \in 1 .. n /\ j - 1 \in 0 .. n /\ Upto(i) \subseteq Upto(j - 1)
  OBVIOUS
<1>2. IsFiniteSet(Upto(j - 1))
  <2>1. IsFiniteSet(1 .. (j - 1)) /\ Upto(j - 1) \subseteq 1 .. (j - 1)
    BY <1>1, FS_Interval
  <2>2. QED
    BY <2>1, FS_Subset
<1>3. Cardinality(Upto(i)) <= Cardinality(Upto(j - 1))
  <2> HIDE DEF Upto
  <2>1. QED
    BY <1>1, <1>2, FS_Subset
<1>4. Rank(S, i) <= Rank(S, j - 1)
  BY <1>3 DEF Rank
<1>5. Rank(S, j) = Rank(S, j - 1) + 1 /\ Rank(S, j - 1) \in Nat /\ Rank(S, i) \in Nat
  BY <1>1, RankCounts
<1>6. QED
  BY <1>4, <1>5

\* Ranks number some positions from 1 on.
LEMMA RanksNumber ==
  ASSUME NEW n \in Nat, NEW S \in SUBSET (1 .. n)
  PROVE  /\ Cardinality(S) \in Nat
         /\ \A i \in S : Rank(S, i) \in 1 .. Cardinality(S)
         /\ \A k \in 1 .. Cardinality(S) : \E i \in S : Rank(S, i) = k
         /\ \A i, j \in S : Rank(S, i) = Rank(S, j) => i = j
<1>1. /\ \A i \in 0 .. n : Rank(S, i) \in Nat
      /\ Rank(S, 0) = 0 /\ Rank(S, n) = Cardinality(S)
      /\ \A i \in 1 .. n : Rank(S, i) = Rank(S, i - 1) + (IF i \in S THEN 1 ELSE 0)
  BY RankCounts
<1>2. Cardinality(S) \in Nat
  BY <1>1
<1>3. ASSUME NEW i \in S PROVE Rank(S, i) \in 1 .. Cardinality(S)
  <2>1. i \in 1 .. n /\ i - 1 \in 0 .. n
    OBVIOUS
  <2>2. Rank(S, i) = Rank(S, i - 1) + 1 /\ Rank(S, i - 1) \in Nat
    BY <1>1, <2>1
  <2>3. Rank(S, i) <= Cardinality(S)
    <3>1. IsFiniteSet(S)
      <4>1. IsFiniteSet(1 .. n)
        BY FS_Interval
      <4>2. QED
        BY <4>1, FS_Subset
    <3>2. {j \in 1 .. i : j \in S} \subseteq S
      OBVIOUS
    <3>3. QED
      BY <3>1, <3>2, FS_Subset DEF Rank
  <2>4. QED
    BY <1>2, <2>2, <2>3
<1>4. ASSUME NEW k \in 1 .. Cardinality(S) PROVE \E i \in S : Rank(S, i) = k
  <2> DEFINE T == {i \in Nat : i <= n /\ Rank(S, i) >= k}
             R == {ss \in Nat \X Nat : ss[1] < ss[2]}
  <2>1. T \subseteq Nat /\ n \in T
    BY <1>1, <1>2
  <2>2. PICK i \in T : \A j \in T : ~(<<j, i>> \in R)
    <3> HIDE DEF T, R
    <3>1. IsWellFoundedOn(R, Nat)
      BY NatLessThanWellFounded DEF OpToRel, R
    <3>2. QED
      BY <2>1, <3>1, WFMin
  <2>3. i \in 0 .. n /\ Rank(S, i) >= k /\ Rank(S, i) \in Nat /\ k \in Nat /\ k >= 1
    BY <1>1, <1>2
  <2>4. i # 0
    BY <1>1, <2>3
  <2>5. i \in 1 .. n /\ i - 1 \in 0 .. n /\ i - 1 \in Nat
    BY <2>3, <2>4
  <2>6. ~(Rank(S, i - 1) >= k)
    <3>1. i - 1 < i /\ i - 1 <= n /\ i \in Nat
      BY <2>5
    <3>2. <<i - 1, i>> \in R
      BY <2>5, <3>1
    <3>3. i - 1 \notin T
      <4> HIDE DEF T, R
      <4>1. QED
        BY <2>2, <3>2
    <3>4. QED
      BY <2>5, <3>1, <3>3
  <2>7. Rank(S, i - 1) \in Nat /\ Rank(S, i) = Rank(S, i - 1) + (IF i \in S THEN 1 ELSE 0)
    BY <1>1, <2>5
  <2>8. i \in S /\ Rank(S, i) = k
    BY <2>3, <2>6, <2>7
  <2>9. QED
    BY <2>8
<1>5. ASSUME NEW i \in S, NEW j \in S, Rank(S, i) = Rank(S, j) PROVE i = j
  <2>1. i \in 1 .. n /\ j \in 1 .. n /\ Rank(S, i) \in Nat /\ Rank(S, j) \in Nat
    BY <1>1
  <2>2. ~(i < j)
    <3>1. i < j => Rank(S, i) < Rank(S, j)
      BY RankGrows
    <3>2. QED
      BY <1>5, <2>1, <3>1
  <2>3. ~(j < i)
    <3>1. j < i => Rank(S, j) < Rank(S, i)
      BY RankGrows
    <3>2. QED
      BY <1>5, <2>1, <3>1
  <2>4. QED
    BY <2>1, <2>2, <2>3
<1>6. QED
  BY <1>2, <1>3, <1>4, <1>5

-----------------------------------------------------------------------------
(* Sequences, and what a capture notes.                                    *)

LEMMA Appended ==
  ASSUME NEW R, NEW s \in Seq(R), NEW x \in R
  PROVE  /\ Append(s, x) \in Seq(R)
         /\ Len(Append(s, x)) = Len(s) + 1
         /\ DOMAIN Append(s, x) = DOMAIN s \union {Len(s) + 1}
         /\ Len(s) + 1 \notin DOMAIN s
         /\ \A i \in DOMAIN s : Append(s, x)[i] = s[i]
         /\ Append(s, x)[Len(s) + 1] = x
         /\ ToSet(Append(s, x)) = ToSet(s) \union {x}
<1>1. /\ Append(s, x) \in Seq(R) /\ Len(Append(s, x)) = Len(s) + 1
      /\ Len(s) \in Nat /\ DOMAIN s = 1 .. Len(s) /\ DOMAIN Append(s, x) = 1 .. Len(s) + 1
  OBVIOUS
<1>2. (\A i \in 1 .. Len(s) : Append(s, x)[i] = s[i]) /\ Append(s, x)[Len(s) + 1] = x
  OBVIOUS
<1> DEFINE t == Append(s, x)
<1>3. ToSet(t) = ToSet(s) \union {x}
  <2>1. /\ DOMAIN t = DOMAIN s \union {Len(s) + 1} /\ t[Len(s) + 1] = x
        /\ \A i \in DOMAIN s : t[i] = s[i]
    BY <1>1, <1>2
  <2> HIDE DEF t
  <2>2. QED
    BY <2>1 DEF ToSet
<1>4. QED
  BY <1>1, <1>2, <1>3

LEMMA AppendedInjective ==
  ASSUME NEW R, NEW s \in Seq(R), NEW x \in R, IsInjective(s), x \notin ToSet(s)
  PROVE  IsInjective(Append(s, x))
<1> DEFINE t == Append(s, x)
<1>1. /\ DOMAIN t = DOMAIN s \union {Len(s) + 1} /\ t[Len(s) + 1] = x
      /\ \A i \in DOMAIN s : t[i] = s[i]
  BY Appended
<1> HIDE DEF t
<1>2. \A i \in DOMAIN s : t[i] # x
  BY <1>1 DEF ToSet
<1>3. \A i, j \in DOMAIN s : t[i] = t[j] => i = j
  BY <1>1 DEF IsInjective
<1>4. IsInjective(t)
  BY <1>1, <1>2, <1>3 DEF IsInjective
<1>5. QED
  BY <1>4 DEF t

\* Of lines that are all different, the first is not among the rest.
LEMMA OneTaken ==
  ASSUME NEW R, NEW s \in Seq(R), s # <<>>
  PROVE  /\ Head(s) \in R /\ Tail(s) \in Seq(R)
         /\ ToSet(s) = {Head(s)} \union ToSet(Tail(s))
         /\ IsInjective(s) => IsInjective(Tail(s)) /\ Head(s) \notin ToSet(Tail(s))
<1> DEFINE t == Tail(s)
<1>1. /\ Head(s) \in R /\ t \in Seq(R) /\ Len(t) = Len(s) - 1 /\ Len(s) \in Nat /\ Len(s) >= 1
      /\ \A i \in 1 .. Len(t) : t[i] = s[i + 1]
  BY HeadTailProperties
<1>2. DOMAIN s = 1 .. Len(s) /\ DOMAIN t = 1 .. Len(s) - 1 /\ Head(s) = s[1]
  BY <1>1
<1> HIDE DEF t
<1>3. \A i \in DOMAIN t : i + 1 \in DOMAIN s /\ t[i] = s[i + 1] /\ i + 1 # 1
  BY <1>1, <1>2
<1>4. \A i \in DOMAIN s : i = 1 \/ (i - 1 \in DOMAIN t /\ t[i - 1] = s[i])
  <2> SUFFICES ASSUME NEW i \in DOMAIN s, i # 1 PROVE i - 1 \in DOMAIN t /\ t[i - 1] = s[i]
    OBVIOUS
  <2>1. i - 1 \in DOMAIN t /\ (i - 1) + 1 = i
    BY <1>1, <1>2
  <2>2. QED
    BY <1>3, <2>1
<1>5. ToSet(s) = {Head(s)} \union ToSet(t)
  <2>1. ToSet(s) \subseteq {Head(s)} \union ToSet(t)
    BY <1>2, <1>4 DEF ToSet
  <2>2. 1 \in DOMAIN s
    BY <1>1, <1>2
  <2>3. ToSet(t) \subseteq ToSet(s) /\ Head(s) \in ToSet(s)
    BY <1>2, <1>3, <2>2 DEF ToSet
  <2>4. QED
    BY <2>1, <2>3
<1>6. ASSUME IsInjective(s) PROVE IsInjective(t) /\ Head(s) \notin ToSet(t)
  <2>1. 1 \in DOMAIN s /\ DOMAIN t \subseteq Int
    BY <1>1, <1>2
  <2>2. \A i, j \in DOMAIN t : t[i] = t[j] => i + 1 = j + 1
    BY <1>3, <1>6 DEF IsInjective
  <2>3. IsInjective(t)
    BY <2>1, <2>2 DEF IsInjective
  <2>4. \A i \in DOMAIN t : t[i] # s[1]
    BY <1>3, <1>6, <2>1 DEF IsInjective
  <2>5. QED
    BY <1>2, <2>3, <2>4 DEF ToSet
<1>7. QED
  BY <1>1, <1>5, <1>6 DEF t

\* The elements of a sequence that are not in `seen`, each once, in order.
Firsts(s, seen) ==
  {i \in DOMAIN s : s[i] \notin seen /\ \A j \in 1 .. (i - 1) : s[j] # s[i]}
Unseen(s, seen) ==
  [k \in 1 .. Cardinality(Firsts(s, seen)) |->
     s[CHOOSE i \in DOMAIN s :
         /\ s[i] \notin seen /\ \A j \in 1 .. (i - 1) : s[j] # s[i]
         /\ Cardinality({j \in 1 .. i : s[j] \notin seen /\ \A m \in 1 .. (j - 1) : s[m] # s[j]}) = k]]

LEMMA FirstIsThere ==
  ASSUME NEW R, NEW s \in Seq(R), NEW seen, NEW i \in DOMAIN s, s[i] \notin seen
  PROVE  \E j \in Firsts(s, seen) : s[j] = s[i]
<1> DEFINE T == {j \in DOMAIN s : s[j] = s[i]}
           B == {ss \in Nat \X Nat : ss[1] < ss[2]}
<1>1. DOMAIN s = 1 .. Len(s) /\ Len(s) \in Nat
  OBVIOUS
<1>2. T \subseteq Nat /\ i \in T
  BY <1>1
<1>3. PICK j \in T : \A m \in T : ~(<<m, j>> \in B)
  <2> HIDE DEF T, B
  <2>1. IsWellFoundedOn(B, Nat)
    BY NatLessThanWellFounded DEF OpToRel, B
  <2>2. QED
    BY <1>2, <2>1, WFMin
<1>4. \A m \in 1 .. (j - 1) : s[m] # s[j]
  <2> SUFFICES ASSUME NEW m \in 1 .. (j - 1), s[m] = s[j] PROVE FALSE
    OBVIOUS
  <2>1. m \in T /\ m \in Nat /\ j \in Nat /\ m < j
    BY <1>1
  <2>2. QED
    BY <1>3, <2>1
<1>5. QED
  BY <1>4 DEF Firsts

LEMMA FreshAre ==
  ASSUME NEW R, NEW s \in Seq(R), NEW seen
  PROVE  /\ Unseen(s, seen) \in Seq(R)
         /\ IsInjective(Unseen(s, seen))
         /\ ToSet(Unseen(s, seen)) = ToSet(s) \ seen
<1> DEFINE F == Firsts(s, seen)
           N == Cardinality(F)
           first(i) == s[i] \notin seen /\ \A j \in 1 .. (i - 1) : s[j] # s[i]
           is(i, k) == first(i) /\ Cardinality({j \in 1 .. i : first(j)}) = k
           at(k) == CHOOSE i \in DOMAIN s : is(i, k)
           f == Unseen(s, seen)
<1>1. DOMAIN s = 1 .. Len(s) /\ Len(s) \in Nat /\ F \in SUBSET (1 .. Len(s))
  BY DEF Firsts
<1>2. /\ N \in Nat
      /\ \A i \in F : Rank(F, i) \in 1 .. N
      /\ \A k \in 1 .. N : \E i \in F : Rank(F, i) = k
      /\ \A i, j \in F : Rank(F, i) = Rank(F, j) => i = j
  <2> HIDE DEF F
  <2>1. QED
    BY <1>1, RanksNumber
<1>3. ASSUME NEW i \in DOMAIN s, NEW k PROVE is(i, k) <=> i \in F /\ Rank(F, i) = k
  <2>1. first(i) <=> i \in F
    BY DEF Firsts
  <2>2. {j \in 1 .. i : first(j)} = {j \in 1 .. i : j \in F}
    <3>1. \A j \in 1 .. i : j \in DOMAIN s
      BY <1>1
    <3>2. QED
      BY <3>1 DEF Firsts
  <2>3. QED
    BY <2>1, <2>2 DEF Rank
<1>4. f = [k \in 1 .. N |-> s[at(k)]]
  BY DEF Unseen
<1> HIDE DEF is, first
<1>5. ASSUME NEW k \in 1 .. N PROVE at(k) \in F /\ Rank(F, at(k)) = k /\ at(k) \in DOMAIN s
  <2>1. PICK i \in F : Rank(F, i) = k
    BY <1>2
  <2>2. i \in DOMAIN s /\ is(i, k)
    BY <1>1, <1>3, <2>1
  <2>3. at(k) \in DOMAIN s /\ is(at(k), k)
    BY <2>2
  <2>4. QED
    BY <1>3, <2>3
<1> HIDE DEF at, f
<1>6. \A i, j \in F : s[i] = s[j] => i = j
  <2> SUFFICES ASSUME NEW i \in F, NEW j \in F, s[i] = s[j] PROVE i = j
    OBVIOUS
  <2>1. /\ i \in Nat /\ j \in Nat
        /\ \A m \in 1 .. (i - 1) : s[m] # s[i]
        /\ \A m \in 1 .. (j - 1) : s[m] # s[j]
        /\ i >= 1 /\ j >= 1
    BY <1>1 DEF Firsts
  <2>2. ~(i < j) /\ ~(j < i)
    BY <2>1
  <2>3. QED
    BY <2>1, <2>2
<1>7. \A i \in F : s[i] \in R /\ s[i] \notin seen /\ s[i] \in ToSet(s)
  <2>1. \A i \in F : i \in DOMAIN s /\ s[i] \notin seen
    BY DEF Firsts
  <2>2. QED
    BY <1>1, <2>1 DEF ToSet
<1> HIDE DEF F, N
<1>8. f \in [1 .. N -> R] /\ \A k \in 1 .. N : f[k] = s[at(k)]
  BY <1>4, <1>5, <1>7
<1>9. f \in Seq(R) /\ DOMAIN f = 1 .. N
  BY <1>2, <1>8
<1>10. IsInjective(f)
  <2>1. ASSUME NEW a \in 1 .. N, NEW b \in 1 .. N, f[a] = f[b] PROVE a = b
    <3>1. at(a) = at(b)
      BY <1>5, <1>6, <1>8, <2>1
    <3>2. QED
      BY <1>5, <3>1
  <2>2. QED
    BY <1>9, <2>1 DEF IsInjective
<1>11. ToSet(f) \subseteq ToSet(s) \ seen
  BY <1>5, <1>7, <1>8, <1>9 DEF ToSet
<1>12. ASSUME NEW x \in ToSet(s) \ seen PROVE x \in ToSet(f)
  <2>1. PICK i \in DOMAIN s : s[i] = x
    BY DEF ToSet
  <2>2. PICK j \in F : s[j] = x
    BY <2>1, FirstIsThere DEF F
  <2> DEFINE k == Rank(F, j)
  <2>3. k \in 1 .. N
    BY <1>2
  <2>4. at(k) = j
    BY <1>2, <1>5, <2>3
  <2>5. f[k] = x
    BY <1>8, <2>2, <2>3, <2>4
  <2>6. QED
    BY <1>9, <2>3, <2>5 DEF ToSet
<1>13. QED
  BY <1>9, <1>10, <1>11, <1>12 DEF f

\* A capture resumes where it left off or from the start, and notes the lines
\* after it that are new, each once.
LEMMA NewLines ==
  ASSUME NEW st \in Entries, NEW path, NEW t \in Seq(Lines)
  PROVE  LET from == ResumeAt(st, path, t)
             new  == LinesToNote(st, path, t)
         IN  /\ from = 0 \/ (from = st.offset /\ st.offset <= Len(t) /\ st.path = path)
             /\ new \in Seq(Lines) /\ IsInjective(new) /\ ToSet(new) \intersect st.seen = {}
             /\ \A i \in DOMAIN t : i > from => t[i] \in st.seen \union ToSet(new)
<1> DEFINE from == ResumeAt(st, path, t)
           rest == SubSeq(t, from + 1, Len(t))
           new  == LinesToNote(st, path, t)
<1>1. st.offset \in Nat /\ Len(t) \in Nat
  BY DEF Entries
<1>2. from \in Nat /\ (from = 0 \/ (from = st.offset /\ st.offset <= Len(t) /\ st.path = path))
  BY <1>1 DEF ResumeAt
<1>3. new = Unseen(rest, st.seen)
  BY DEF LinesToNote, Unseen, Firsts
<1> HIDE DEF from
<1>4. /\ rest \in Seq(Lines)
      /\ Len(rest) = IF from + 1 <= Len(t) THEN Len(t) - (from + 1) + 1 ELSE 0
      /\ \A i \in 1 .. Len(t) - (from + 1) + 1 : rest[i] = t[(from + 1) + i - 1]
  <2>1. \A i \in (from + 1) .. Len(t) : t[i] \in Lines
    BY <1>1, <1>2
  <2>2. from + 1 \in Int /\ Len(t) \in Int
    BY <1>1, <1>2
  <2>3. QED
    BY <2>1, <2>2, SubSeqProperties
<1> HIDE DEF rest, new
<1>5. new \in Seq(Lines) /\ IsInjective(new) /\ ToSet(new) = ToSet(rest) \ st.seen
  BY <1>3, <1>4, FreshAre
<1>6. ASSUME NEW i \in DOMAIN t, i > from PROVE t[i] \in ToSet(rest)
  <2>1. i \in Nat /\ i <= Len(t) /\ i >= 1
    BY <1>1
  <2>2. i - from \in 1 .. Len(t) - (from + 1) + 1 /\ from + 1 <= Len(t)
    BY <1>1, <1>2, <1>6, <2>1
  <2>3. (from + 1) + (i - from) - 1 = i
    BY <1>2, <2>1
  <2>4. rest[i - from] = t[i]
    BY <1>4, <2>2, <2>3
  <2>5. i - from \in DOMAIN rest
    BY <1>1, <1>2, <1>4, <2>2
  <2>6. QED
    BY <2>4, <2>5 DEF ToSet
<1>7. QED
  BY <1>2, <1>5, <1>6 DEF from, new

-----------------------------------------------------------------------------
(* The inductive invariant.                                                *)

SessionRecords ==
  [project : {Here}, role : SessionRoles, policy : Policies, task : Nat, open : BOOLEAN]

Typed ==
  /\ sessions \in Seq(SessionRecords)
  /\ trail \in Seq([type : Events, session : {0} \union DOMAIN sessions])
  /\ tree \in Trees /\ finished \in BOOLEAN /\ checks \in Seq(CheckRecords(Trees))
  /\ transcripts \in [Windows -> Transcripts] /\ saved \in [Windows -> Entries]
  /\ read \in [Windows -> Nat]
  /\ notes \in [Windows -> Seq(Lines)] /\ lost \in [Windows -> SUBSET Lines]
  /\ continuing \in [Windows -> BOOLEAN]
  /\ used \in DOMAIN Families
  /\ pc \in [Windows -> {"idle", "policy", "role", "rules", "deny", "tell", "allowed",
                         "ran", "noting", "stop", "hash", "held"}]
  /\ DOMAIN mem = Windows /\ \A w \in Windows : DOMAIN mem[w] = DOMAIN Idle

OneOpen == \A i, j \in OpenSessions(sessions) : i = j

\* The session a call was made in is still the one here.
StillIn(m) == m.since # 0 /\ sessions[m.since].open

ReadOnly(m) ==
  \/ m.call.subagent = "read_only"
  \/ /\ ~m.unread
     /\ m.call.named = "read_only" \/ (/\ m.call.named = "none" /\ StillIn(m)
                                       /\ sessions[m.since].role = "read_only")

\* How far judging is, when what is being told is told.
Stage(at, m) == IF at = "tell" THEN m.then ELSE at

Judging == {"policy", "role", "rules", "deny", "allowed"}

\* What each step of judging has found, of the session if it is still open.
JudgedAt(at, m) ==
  /\ at = "tell" => /\ m.then \in {"deny", "allowed", "idle"} /\ m.event \in Events
                    /\ m.on \in {0} \union DOMAIN sessions
  /\ Stage(at, m) \in Judging => m.call \in CallRows /\ m.since \in {0} \union DOMAIN sessions
  /\ Stage(at, m) \in {"role", "rules", "allowed"} /\ StillIn(m) => Allows(m.since, m.call)
  /\ Stage(at, m) \in {"rules", "allowed"} /\ ReadOnly(m) => ~BlocksReadOnly(m.call)
  /\ Stage(at, m) = "allowed" => ~BlocksContent(m.call)
  /\ Stage(at, m) = "deny" /\ m.why = "rules" => BlocksContent(m.call)

Judged(w) == JudgedAt(pc[w], mem[w])

\* An entry of the state file, read when the transcript was of edition `ed`:
\* what it calls seen was recorded, or is about to be, and covers what is before
\* its offset.
Tells(e, ed, w, todo) ==
  LET t == transcripts[w] IN
  /\ ed <= t.edition
  /\ e.seen \subseteq ToSet(notes[w]) \union lost[w] \union todo
  /\ w \notin cut /\ ed = t.edition =>
       e.offset <= Len(t.lines) /\ \A i \in 1 .. e.offset : t.lines[i] \in e.seen

SavedTells == \A w \in Windows : Tells(saved[w], read[w], w, {})

InHand(v) ==
  LET m == mem[v] IN
  pc[v] = "noting" =>
    /\ m.state \in [Windows -> Entries] /\ m.read \in [Windows -> Nat] /\ m.todo \in Seq(Lines)
    /\ \A w \in Windows :
         Tells(m.state[w], m.read[w], w, IF w = v THEN ToSet(m.todo) ELSE {})

Forgotten(w) == {<<w, "unsaved">>, <<w, "overwritten">>} \intersect forgot # {}

Once(w) ==
  LET m == mem[w] IN
  ~Forgotten(w) =>
    /\ IsInjective(notes[w])
    /\ pc[w] # "noting" => ToSet(notes[w]) \subseteq saved[w].seen
    /\ pc[w] = "noting" =>
         /\ IsInjective(m.todo) /\ ToSet(notes[w]) \intersect ToSet(m.todo) = {}
         /\ ToSet(notes[w]) \union ToSet(m.todo) \subseteq m.state[w].seen

Held(w) ==
  /\ pc[w] \in {"hash", "held"} => ~continuing[w] /\ mem[w].passes # {}
  /\ pc[w] = "held" => mem[w].now \notin mem[w].passes

IInv ==
  /\ Typed /\ OneOpen /\ SavedTells
  /\ \A w \in Windows : Judged(w) /\ InHand(w) /\ Once(w) /\ Held(w)

LEMMA HooksInitially == Init => IInv
<1> SUFFICES ASSUME Init PROVE IInv
  OBVIOUS
<1>1. \A w \in Windows : /\ pc[w] = "idle" /\ mem[w] = Idle /\ notes[w] = <<>> /\ lost[w] = {}
                         /\ saved[w] = Nothing /\ read[w] = 0 /\ continuing[w] = FALSE
                         /\ transcripts[w] = [path |-> 1, lines |-> <<>>, there |-> TRUE, edition |-> 0]
  BY DEF Init
<1>2. Typed
  <2>1. /\ sessions \in Seq(SessionRecords) /\ checks \in Seq(CheckRecords(Trees))
        /\ trail \in Seq([type : Events, session : {0} \union DOMAIN sessions])
    BY DEF Init
  <2>2. tree \in Trees /\ finished \in BOOLEAN /\ used \in DOMAIN Families
    BY HooksAssumption DEF Init
  <2>3. transcripts \in [Windows -> Transcripts]
    <3> DEFINE t == [path |-> 1, lines |-> <<>>, there |-> TRUE, edition |-> 0]
    <3>1. t \in Transcripts
      BY DEF Transcripts
    <3> HIDE DEF t
    <3>2. transcripts = [w \in Windows |-> t]
      BY DEF Init, t
    <3>3. QED
      BY <3>1, <3>2
  <2>4. saved \in [Windows -> Entries]
    <3>1. Nothing \in Entries
      BY DEF Nothing, Entries, NoPath
    <3>2. QED
      BY <3>1 DEF Init
  <2>5. /\ read \in [Windows -> Nat] /\ notes \in [Windows -> Seq(Lines)]
        /\ lost \in [Windows -> SUBSET Lines] /\ continuing \in [Windows -> BOOLEAN]
    BY DEF Init
  <2>6. pc \in [Windows -> {"idle", "policy", "role", "rules", "deny", "tell", "allowed",
                            "ran", "noting", "stop", "hash", "held"}]
    BY DEF Init
  <2>7. DOMAIN mem = Windows /\ \A w \in Windows : DOMAIN mem[w] = DOMAIN Idle
    BY <1>1 DEF Init
  <2>8. QED
    BY <2>1, <2>2, <2>3, <2>4, <2>5, <2>6, <2>7 DEF Typed
<1>3. OneOpen
  BY DEF OneOpen, OpenSessions, Init
<1>4. SavedTells
  BY <1>1 DEF SavedTells, Tells, Nothing
<1>5. ASSUME NEW w \in Windows PROVE Judged(w) /\ InHand(w) /\ Once(w) /\ Held(w)
  <2>1. pc[w] = "idle" /\ notes[w] = <<>>
    BY <1>1
  <2>2. ToSet(notes[w]) = {} /\ IsInjective(notes[w])
    BY <2>1 DEF ToSet, IsInjective
  <2>3. QED
    BY <2>1, <2>2 DEF Judged, JudgedAt, Stage, Judging, InHand, Once, Held
<1>6. QED
  BY <1>2, <1>3, <1>4, <1>5 DEF IInv

-----------------------------------------------------------------------------
(* Sessions.                                                               *)

LEMMA CurrentIs ==
  ASSUME Typed, OneOpen
  PROVE  /\ Current # 0 => Current \in OpenSessions(sessions)
         /\ \A i \in OpenSessions(sessions) : Current = i
<1> DEFINE own == {i \in OpenSessions(sessions) : sessions[i].project = Here}
           unscoped == {i \in OpenSessions(sessions) : sessions[i].project = NoProject}
           newest(ids) == IF ids = {} THEN 0 ELSE Largest(ids)
<1>1. own = OpenSessions(sessions)
  <2>1. \A i \in DOMAIN sessions : sessions[i] \in SessionRecords
    BY DEF Typed
  <2>2. \A i \in DOMAIN sessions : sessions[i].project = Here
    BY <2>1 DEF SessionRecords
  <2>3. QED
    BY <2>2 DEF OpenSessions
<1>2. Current = IF own # {} THEN newest(own) ELSE newest(unscoped)
  BY DEF Current, CurrentSession, Here, NoProject
<1>3. CASE own = {}
  <2>1. unscoped = {}
    BY <1>1, <1>3
  <2>2. QED
    BY <1>1, <1>2, <1>3, <2>1
<1>4. ASSUME NEW i \in own PROVE Current = i
  <2>1. \A j \in own : j = i
    BY <1>1 DEF OneOpen
  <2>2. i \in Nat
    BY DEF OpenSessions, Typed
  <2>3. i <= i
    BY <2>2
  <2>4. Largest(own) = i
    <3> HIDE DEF own
    <3>1. \A k \in own : (\A j \in own : j <= k) <=> k = i
      BY <2>1, <2>3
    <3>2. QED
      BY <3>1, <1>4 DEF Largest
  <2>5. QED
    BY <1>2, <1>4, <2>4
<1>5. QED
  BY <1>1, <1>3, <1>4

\* What becomes of the sessions there are: at most closed.
Lasting ==
  \A i \in DOMAIN sessions :
    /\ i \in DOMAIN sessions'
    /\ sessions'[i].policy = sessions[i].policy /\ sessions'[i].role = sessions[i].role
    /\ sessions'[i].open => sessions[i].open

LEMMA UnchangedLast ==
  ASSUME UNCHANGED sessions
  PROVE  Lasting
BY DEF Lasting

LEMMA JudgedStays ==
  ASSUME Typed, NEW w \in Windows, Judged(w), Lasting, pc'[w] = pc[w], mem'[w] = mem[w]
  PROVE  Judged(w)'
<1> DEFINE m == mem[w]
           at == Stage(pc[w], m)
<1>1. at \in Judging => m.call \in CallRows /\ m.since \in {0} \union DOMAIN sessions
  BY DEF Judged, JudgedAt
<1>2. {0} \union DOMAIN sessions \subseteq {0} \union DOMAIN sessions'
  BY DEF Lasting
<1>3. ASSUME at \in Judging, StillIn(m)'
      PROVE  /\ StillIn(m) /\ sessions'[m.since].role = sessions[m.since].role
             /\ sessions'[m.since].policy = sessions[m.since].policy
  BY <1>1, <1>3 DEF StillIn, Lasting
<1>4. StillIn(mem[w])' <=> m.since # 0 /\ sessions'[m.since].open
  BY DEF StillIn
<1>5. ASSUME at \in {"role", "rules", "allowed"}, StillIn(mem[w])' PROVE Allows(m.since, m.call)'
  <2>1. StillIn(m) /\ sessions'[m.since].policy = sessions[m.since].policy
    BY <1>3, <1>4, <1>5 DEF StillIn, Judging
  <2>2. Allows(m.since, m.call)
    BY <1>5, <2>1 DEF Judged, JudgedAt
  <2>3. QED
    BY <2>1, <2>2 DEF Allows
<1>6. ASSUME at \in Judging, ReadOnly(mem[w])' PROVE ReadOnly(m)
  BY <1>3, <1>4, <1>6 DEF ReadOnly, StillIn
<1>7. Stage(pc[w], mem[w])' = at
  BY DEF Stage
<1>8. pc[w] = "tell" => m.on \in {0} \union DOMAIN sessions'
  BY <1>2 DEF Judged, JudgedAt
<1> HIDE DEF at
<1>9. /\ at \in Judging => m.since \in {0} \union DOMAIN sessions'
      /\ at \in {"rules", "allowed"} => at \in Judging
  BY <1>1, <1>2 DEF Judging
<1>10. QED
  BY <1>1, <1>5, <1>6, <1>7, <1>8, <1>9 DEF Judged, JudgedAt, Allows, at

-----------------------------------------------------------------------------
(* What a step leaves alone.                                               *)

PCs == {"idle", "policy", "role", "rules", "deny", "tell", "allowed", "ran", "noting", "stop",
        "hash", "held"}

\* A step of window w, and no other.
LEMMA GotoMoves ==
  ASSUME Typed, NEW w \in Windows, NEW to \in PCs, NEW m, DOMAIN m = DOMAIN Idle, Goto(w, to, m)
  PROVE  /\ pc' \in [Windows -> PCs]
         /\ DOMAIN mem' = Windows /\ \A v \in Windows : DOMAIN mem'[v] = DOMAIN Idle
         /\ pc'[w] = to /\ mem'[w] = IF to = "idle" THEN Idle ELSE m
         /\ \A v \in Windows \ {w} : pc'[v] = pc[v] /\ mem'[v] = mem[v]
<1> DEFINE k == IF to = "idle" THEN Idle ELSE m
<1>1. pc' = [pc EXCEPT ![w] = to] /\ mem' = [mem EXCEPT ![w] = k]
  BY DEF Goto
<1>2. DOMAIN k = DOMAIN Idle
  OBVIOUS
<1> HIDE DEF k
<1>3. QED
  <2>1. pc \in [Windows -> PCs] /\ DOMAIN mem = Windows
        /\ \A v \in Windows : DOMAIN mem[v] = DOMAIN Idle
    BY DEF Typed, PCs
  <2>2. /\ pc' \in [Windows -> PCs] /\ DOMAIN mem' = Windows
        /\ pc'[w] = to /\ mem'[w] = k
        /\ \A v \in Windows \ {w} : pc'[v] = pc[v] /\ mem'[v] = mem[v]
    BY <1>1, <2>1
  <2>3. \A v \in Windows : DOMAIN mem'[v] = DOMAIN Idle
    BY <1>2, <2>1, <2>2
  <2>4. QED
    BY <2>2, <2>3 DEF k

LEMMA HeldStays ==
  ASSUME NEW w \in Windows, Held(w), pc'[w] = pc[w], mem'[w] = mem[w],
         continuing'[w] = continuing[w]
  PROVE  Held(w)'
BY DEF Held

\* Transcripts added to or of another edition, and more that is recorded, take
\* nothing from what entries tell.
KeepTelling ==
  \A w \in Windows :
    /\ transcripts'[w].edition >= transcripts[w].edition
    /\ transcripts'[w].edition = transcripts[w].edition =>
         /\ Len(transcripts[w].lines) <= Len(transcripts'[w].lines)
         /\ \A i \in 1 .. Len(transcripts[w].lines) :
              transcripts'[w].lines[i] = transcripts[w].lines[i]
    /\ ToSet(notes[w]) \subseteq ToSet(notes'[w]) /\ lost[w] \subseteq lost'[w]
    /\ w \in cut => w \in cut'

LEMMA TranscriptFits ==
  ASSUME Typed, NEW w \in Windows
  PROVE  /\ transcripts[w].edition \in Nat /\ transcripts[w].lines \in Seq(Lines)
         /\ Len(transcripts[w].lines) \in Nat /\ transcripts[w] \in Transcripts
         /\ DOMAIN transcripts[w].lines = 1 .. Len(transcripts[w].lines)
<1>1. transcripts[w] \in Transcripts
  BY DEF Typed
<1>2. QED
  BY <1>1 DEF Transcripts

LEMMA TellsStill ==
  ASSUME Typed, Typed', NEW w \in Windows, KeepTelling, NEW e \in Entries, NEW ed \in Nat, NEW todo,
         Tells(e, ed, w, todo)
  PROVE  Tells(e, ed, w, todo)'
<1> DEFINE t == transcripts[w]
           u == transcripts'[w]
<1>1. t.edition \in Nat /\ u.edition \in Nat /\ Len(t.lines) \in Nat /\ Len(u.lines) \in Nat
  <2>1. t \in Transcripts /\ u \in Transcripts
    BY DEF Typed
  <2>2. QED
    BY <2>1 DEF Transcripts
<1>2. /\ u.edition >= t.edition
      /\ u.edition = t.edition => /\ Len(t.lines) <= Len(u.lines)
                                  /\ \A i \in 1 .. Len(t.lines) : u.lines[i] = t.lines[i]
      /\ ToSet(notes[w]) \subseteq ToSet(notes'[w]) /\ lost[w] \subseteq lost'[w]
      /\ w \in cut => w \in cut'
  BY DEF KeepTelling
<1>3. e.offset \in Nat
  BY DEF Entries
<1>4. /\ ed <= t.edition
      /\ e.seen \subseteq ToSet(notes[w]) \union lost[w] \union todo
      /\ w \notin cut /\ ed = t.edition =>
           e.offset <= Len(t.lines) /\ \A i \in 1 .. e.offset : t.lines[i] \in e.seen
  BY DEF Tells
<1> HIDE DEF t, u
<1>5. ed <= u.edition
  BY <1>1, <1>2, <1>4
<1>6. e.seen \subseteq ToSet(notes'[w]) \union lost'[w] \union todo
  BY <1>2, <1>4
<1>7. ASSUME w \notin cut', ed = u.edition
      PROVE  e.offset <= Len(u.lines) /\ \A i \in 1 .. e.offset : u.lines[i] \in e.seen
  <2>1. w \notin cut /\ ed = t.edition /\ u.edition = t.edition
    BY <1>1, <1>2, <1>4, <1>7
  <2>2. e.offset <= Len(t.lines) /\ \A i \in 1 .. e.offset : t.lines[i] \in e.seen
    BY <1>4, <2>1
  <2>3. Len(t.lines) <= Len(u.lines) /\ \A i \in 1 .. Len(t.lines) : u.lines[i] = t.lines[i]
    BY <1>2, <2>1
  <2>4. \A i \in 1 .. e.offset : i \in 1 .. Len(t.lines)
    BY <1>1, <1>3, <2>2
  <2>5. QED
    BY <1>1, <1>3, <2>2, <2>3, <2>4
<1>8. QED
  BY <1>5, <1>6, <1>7 DEF Tells, u

LEMMA SavedTellsStill ==
  ASSUME Typed, Typed', KeepTelling, SavedTells, UNCHANGED <<saved, read>>
  PROVE  SavedTells'
<1> SUFFICES ASSUME NEW w \in Windows PROVE Tells(saved[w], read[w], w, {})'
  BY DEF SavedTells
<1>1. saved[w] \in Entries /\ read[w] \in Nat /\ Tells(saved[w], read[w], w, {})
  BY DEF Typed, SavedTells
<1>2. Tells(saved[w], read[w], w, {})' <=>
        /\ read[w] <= transcripts'[w].edition
        /\ saved[w].seen \subseteq ToSet(notes'[w]) \union lost'[w] \union {}
        /\ w \notin cut' /\ read[w] = transcripts'[w].edition =>
             /\ saved[w].offset <= Len(transcripts'[w].lines)
             /\ \A i \in 1 .. saved[w].offset : transcripts'[w].lines[i] \in saved[w].seen
  BY DEF Tells
<1>3. PICK e \in Entries, ed \in Nat : e = saved[w] /\ ed = read[w]
  BY <1>1
<1>4. Tells(e, ed, w, {})'
  BY <1>1, <1>3, TellsStill
<1>5. QED
  BY <1>2, <1>3, <1>4 DEF Tells

LEMMA InHandStays ==
  ASSUME Typed, Typed', NEW v \in Windows, KeepTelling, InHand(v), pc'[v] = pc[v], mem'[v] = mem[v]
  PROVE  InHand(v)'
<1> SUFFICES ASSUME pc[v] = "noting"
             PROVE  /\ mem[v].state \in [Windows -> Entries] /\ mem[v].read \in [Windows -> Nat]
                    /\ mem[v].todo \in Seq(Lines)
                    /\ \A w \in Windows :
                         Tells(mem[v].state[w], mem[v].read[w], w,
                               IF w = v THEN ToSet(mem[v].todo) ELSE {})'
  BY DEF InHand, Tells
<1>1. /\ mem[v].state \in [Windows -> Entries] /\ mem[v].read \in [Windows -> Nat]
      /\ mem[v].todo \in Seq(Lines)
  BY DEF InHand
<1>2. ASSUME NEW w \in Windows
      PROVE  Tells(mem[v].state[w], mem[v].read[w], w, IF w = v THEN ToSet(mem[v].todo) ELSE {})'
  <2> DEFINE todo == IF w = v THEN ToSet(mem[v].todo) ELSE {}
  <2>1. mem[v].state[w] \in Entries /\ mem[v].read[w] \in Nat /\ todo \in SUBSET Lines
    BY <1>1 DEF ToSet
  <2>2. Tells(mem[v].state[w], mem[v].read[w], w, todo)
    BY DEF InHand
  <2>3. PICK e \in Entries, ed \in Nat, S \in SUBSET Lines :
          e = mem[v].state[w] /\ ed = mem[v].read[w] /\ S = todo
    BY <2>1
  <2> HIDE DEF todo
  <2>4. Tells(e, ed, w, S)
    BY <2>2, <2>3
  <2>5. Tells(e, ed, w, S)'
    BY <2>4, TellsStill
  <2>6. QED
    BY <2>3, <2>5 DEF Tells, todo
<1>3. QED
  BY <1>1, <1>2

LEMMA OnceStays ==
  ASSUME NEW w \in Windows, Once(w), pc'[w] = pc[w], mem'[w] = mem[w],
         notes'[w] = notes[w], saved'[w] = saved[w] \/ Forgotten(w)', forgot \subseteq forgot'
  PROVE  Once(w)'
BY DEF Once, Forgotten

\* Where nothing of the capture changes.
LEMMA CaptureStays ==
  ASSUME Typed, UNCHANGED capture
  PROVE  KeepTelling /\ UNCHANGED <<saved, read, notes, forgot, transcripts>>
<1>1. UNCHANGED <<transcripts, saved, read, notes, lost, forgot, cut>>
  BY DEF capture
<1>2. \A w \in Windows : transcripts[w].edition \in Nat /\ Len(transcripts[w].lines) \in Nat
  BY TranscriptFits
<1>3. QED
  BY <1>1, <1>2 DEF KeepTelling

-----------------------------------------------------------------------------
(* Each step.                                                              *)

\* A step of one window (or of none), as far as the others are concerned.
LEMMA OthersStay ==
  ASSUME IInv, Typed', OneOpen', SavedTells', KeepTelling, Lasting,
         forgot \subseteq forgot',
         NEW v \in Windows, pc'[v] = pc[v], mem'[v] = mem[v], continuing'[v] = continuing[v],
         notes'[v] = notes[v], saved'[v] = saved[v] \/ Forgotten(v)'
  PROVE  Judged(v)' /\ InHand(v)' /\ Once(v)' /\ Held(v)'
<1>1. Typed /\ Judged(v) /\ InHand(v) /\ Once(v) /\ Held(v)
  BY DEF IInv
<1>2. QED
  BY <1>1, JudgedStays, InHandStays, OnceStays, HeldStays

LEMMA SessionsKeep ==
  ASSUME IInv, sessions' \in Seq(SessionRecords), OneOpen', Lasting,
         UNCHANGED <<trail, work, capture, continuing, used, pc, mem>>
  PROVE  IInv'
<1>1. UNCHANGED <<trail, tree, checks, finished, transcripts, saved, read, notes, lost, forgot, cut,
                  continuing, used, pc, mem>>
  BY DEF work, capture
<1>2. Typed'
  <2>1. {0} \union DOMAIN sessions \subseteq {0} \union DOMAIN sessions'
    BY DEF Lasting
  <2>2. trail \in Seq([type : Events, session : {0} \union DOMAIN sessions])
    BY DEF IInv, Typed
  <2>3. trail \in Seq([type : Events, session : {0} \union DOMAIN sessions'])
    <3> DEFINE A == {0} \union DOMAIN sessions
               B == {0} \union DOMAIN sessions'
    <3>1. trail \in Seq([type : Events, session : A]) /\ A \subseteq B
      BY <2>1, <2>2
    <3> HIDE DEF A, B
    <3>2. [type : Events, session : A] \subseteq [type : Events, session : B]
      BY <3>1
    <3> DEFINE R == [type : Events, session : A]
               S == [type : Events, session : B]
    <3>3. trail \in Seq(R) /\ R \subseteq S
      BY <3>1, <3>2
    <3> HIDE DEF R, S
    <3>4. \A i \in 1 .. Len(trail) : trail[i] \in S
      BY <3>3
    <3>5. trail \in [1 .. Len(trail) -> S] /\ Len(trail) \in Nat
      BY <3>3, <3>4
    <3>6. trail \in Seq(S)
      BY <3>5
    <3>7. QED
      BY <3>6 DEF S, B
  <2>4. QED
    BY <1>1, <2>3 DEF IInv, Typed
<1>3. KeepTelling
  BY CaptureStays DEF IInv
<1>4. SavedTells'
  BY <1>1, <1>2, <1>3, SavedTellsStill DEF IInv
<1>5. \A v \in Windows : Judged(v)' /\ InHand(v)' /\ Once(v)' /\ Held(v)'
  BY <1>1, <1>2, <1>3, <1>4, OthersStay
<1>6. QED
  BY <1>2, <1>4, <1>5 DEF IInv

LEMMA BeginKeeps ==
  ASSUME IInv, Begin
  PROVE  IInv'
<1>1. PICK s \in Families[used].sessions : sessions' = Append(sessions, s)
  BY DEF Begin
<1>2. s \in HereRows
  BY <1>1, HooksAssumption DEF IInv, Typed
<1>3. s \in SessionRecords
  BY <1>2 DEF HereRows, SessionRecords
<1>4. sessions \in Seq(SessionRecords) /\ \A i \in DOMAIN sessions : sessions[i].project = Here
  <2>1. sessions \in Seq(SessionRecords) /\ \A i \in DOMAIN sessions : sessions[i] \in SessionRecords
    BY DEF IInv, Typed
  <2>2. QED
    BY <2>1 DEF SessionRecords
<1>5. /\ sessions' \in Seq(SessionRecords) /\ sessions'[Len(sessions) + 1] = s
      /\ DOMAIN sessions' = DOMAIN sessions \union {Len(sessions) + 1}
      /\ \A i \in DOMAIN sessions : sessions'[i] = sessions[i]
  BY <1>1, <1>3, <1>4, Appended
<1>6. OpenSessions(sessions) = {}
  BY <1>4 DEF Begin, Conflicts, OpenSessions
<1>7. OneOpen'
  BY <1>5, <1>6 DEF OneOpen, OpenSessions
<1>8. Lasting
  BY <1>5 DEF Lasting
<1>9. UNCHANGED <<trail, work, capture, continuing, used, pc, mem>>
  BY DEF Begin, Spend
<1>10. QED
  BY <1>5, <1>7, <1>8, <1>9, SessionsKeep

LEMMA EndKeeps ==
  ASSUME IInv, End
  PROVE  IInv'
<1>1. sessions \in Seq(SessionRecords) /\ Current \in OpenSessions(sessions)
  BY CurrentIs DEF IInv, Typed, End
<1> DEFINE c == Current
           s == [sessions[c] EXCEPT !.open = FALSE]
<1>2. c \in DOMAIN sessions /\ sessions[c] \in SessionRecords
  BY <1>1 DEF OpenSessions
<1>3. /\ s \in SessionRecords /\ s.open = FALSE
      /\ s.policy = sessions[c].policy /\ s.role = sessions[c].role
  BY <1>2 DEF SessionRecords
<1>4. sessions' = [sessions EXCEPT ![c] = s]
  BY DEF End
<1> HIDE DEF s, c
<1>5. sessions' \in Seq(SessionRecords) /\ DOMAIN sessions' = DOMAIN sessions
  BY <1>1, <1>2, <1>3, <1>4
<1>6. sessions'[c] = s /\ \A i \in DOMAIN sessions : i # c => sessions'[i] = sessions[i]
  BY <1>1, <1>2, <1>4
<1>7. Lasting
  BY <1>3, <1>5, <1>6 DEF Lasting
<1>8. OneOpen'
  <2>1. OpenSessions(sessions') \subseteq OpenSessions(sessions)
    BY <1>3, <1>5, <1>6 DEF OpenSessions
  <2>2. QED
    BY <2>1 DEF IInv, OneOpen
<1>9. UNCHANGED <<trail, work, capture, continuing, used, pc, mem>>
  BY DEF End, Spend
<1>10. QED
  BY <1>5, <1>7, <1>8, <1>9, SessionsKeep

LEMMA WorkKeeps ==
  ASSUME IInv, Work
  PROVE  IInv'
<1>1. UNCHANGED <<sessions, trail, transcripts, saved, read, notes, lost, forgot, cut,
                  continuing, used, pc, mem>>
  BY DEF Work, Spend, capture
<1>2. tree' \in Trees /\ finished' \in BOOLEAN /\ checks' \in Seq(CheckRecords(Trees))
  <2>1. tree \in Trees /\ finished \in BOOLEAN /\ checks \in Seq(CheckRecords(Trees))
    BY DEF IInv, Typed
  <2>2. tree' \in Trees /\ finished' \in BOOLEAN
    BY <2>1 DEF Work
  <2>3. CASE checks' = checks
    BY <2>1, <2>2, <2>3
  <2>4. CASE \E kind \in {"test", "lint"}, status \in {"pass", "fail"}, source \in CheckSources :
               checks' = Append(checks, [kind |-> kind, status |-> status, source |-> source,
                                         by |-> "agent", tree |-> tree])
    <3>1. PICK kind \in {"test", "lint"}, status \in {"pass", "fail"}, source \in CheckSources :
               checks' = Append(checks, [kind |-> kind, status |-> status, source |-> source,
                                         by |-> "agent", tree |-> tree])
      BY <2>4
    <3> DEFINE c == [kind |-> kind, status |-> status, source |-> source, by |-> "agent", tree |-> tree]
    <3>2. c \in CheckRecords(Trees)
      BY <2>1 DEF CheckRecords, CheckKinds, CheckStatuses, ActorTypes
    <3> HIDE DEF c
    <3>3. checks' = Append(checks, c)
      BY <3>1 DEF c
    <3>4. QED
      BY <2>1, <2>2, <3>2, <3>3, Appended
  <2>5. QED
    BY <2>3, <2>4 DEF Work
<1>3. Typed'
  BY <1>1, <1>2 DEF IInv, Typed
<1>4. KeepTelling
  BY <1>1, CaptureStays DEF IInv, capture
<1>5. SavedTells'
  BY <1>1, <1>3, <1>4, SavedTellsStill DEF IInv
<1>6. OneOpen'
  BY <1>1 DEF IInv, OneOpen
<1>7. Lasting
  BY <1>1, UnchangedLast
<1>8. \A v \in Windows : Judged(v)' /\ InHand(v)' /\ Once(v)' /\ Held(v)'
  BY <1>1, <1>3, <1>4, <1>5, <1>6, <1>7, OthersStay
<1>9. QED
  BY <1>3, <1>5, <1>6, <1>8 DEF IInv

-----------------------------------------------------------------------------
(* The guard, and the end of a turn.                                       *)

\* A step of a window that captures nothing.
LEMMA AsideKeeps ==
  ASSUME IInv, NEW w \in Windows, pc[w] # "noting", NEW to \in PCs \ {"noting"},
         NEW m, DOMAIN m = DOMAIN Idle, Goto(w, to, m), JudgedAt(to, m), Held(w)',
         UNCHANGED <<sessions, work, capture, used>>,
         trail' \in Seq([type : Events, session : {0} \union DOMAIN sessions]),
         continuing' \in [Windows -> BOOLEAN],
         \A v \in Windows \ {w} : continuing'[v] = continuing[v]
  PROVE  IInv'
<1>1. UNCHANGED <<sessions, tree, checks, finished, transcripts, saved, read, notes, lost, forgot,
                  cut, used>>
  BY DEF work, capture
<1>2. Typed /\ OneOpen /\ SavedTells /\ Once(w)
  BY DEF IInv
<1>3. /\ pc' \in [Windows -> PCs]
      /\ DOMAIN mem' = Windows /\ \A v \in Windows : DOMAIN mem'[v] = DOMAIN Idle
      /\ pc'[w] = to /\ mem'[w] = IF to = "idle" THEN Idle ELSE m
      /\ \A v \in Windows \ {w} : pc'[v] = pc[v] /\ mem'[v] = mem[v]
  BY <1>2, GotoMoves
<1>4. Typed'
  <2>1. trail' \in Seq([type : Events, session : {0} \union DOMAIN sessions'])
    BY <1>1
  <2>2. QED
    BY <1>1, <1>2, <1>3, <2>1 DEF Typed, PCs
<1>5. KeepTelling /\ Lasting
  BY <1>1, <1>2, CaptureStays, UnchangedLast
<1>6. SavedTells' /\ OneOpen'
  BY <1>1, <1>2, <1>4, <1>5, SavedTellsStill DEF OneOpen
<1>7. Judged(w)'
  <2>1. CASE to = "idle"
    BY <1>3, <2>1 DEF Judged, JudgedAt, Stage, Judging
  <2>2. CASE to # "idle"
    <3>1. pc'[w] = to /\ mem'[w] = m
      BY <1>3, <2>2
    <3>2. JudgedAt(to, m)'
      BY <1>1 DEF JudgedAt, StillIn, ReadOnly, Allows, Stage
    <3>3. QED
      BY <3>1, <3>2 DEF Judged, JudgedAt, StillIn, ReadOnly, Allows, Stage
  <2>3. QED
    BY <2>1, <2>2
<1>8. InHand(w)' /\ Once(w)'
  BY <1>1, <1>2, <1>3 DEF InHand, Once, Forgotten
<1>9. \A v \in Windows \ {w} : Judged(v)' /\ InHand(v)' /\ Once(v)' /\ Held(v)'
  BY <1>1, <1>3, <1>4, <1>5, <1>6, OthersStay
<1>10. QED
  BY <1>4, <1>6, <1>7, <1>8, <1>9 DEF IInv

LEMMA TrailGrows ==
  ASSUME IInv, NEW type \in Events, NEW s \in {0} \union DOMAIN sessions,
         trail' = Logged(trail, type, s)
  PROVE  trail' \in Seq([type : Events, session : {0} \union DOMAIN sessions])
<1> DEFINE R == [type : Events, session : {0} \union DOMAIN sessions]
           e == [type |-> type, session |-> s]
<1>1. trail \in Seq(R) /\ e \in R /\ trail' = Append(trail, e)
  BY DEF IInv, Typed, Logged
<1> HIDE DEF R, e
<1>2. trail' \in Seq(R)
  BY <1>1
<1>3. QED
  BY <1>2 DEF R

\* The session a call was made in is the current one, if it is open.
LEMMA HereStill ==
  ASSUME IInv
  PROVE  /\ Current \in {0} \union DOMAIN sessions
         /\ \A w \in Windows :
              pc[w] \in Judging /\ StillIn(mem[w]) =>
                mem[w].since = Current /\ Current # 0
<1>1. /\ Current # 0 => Current \in OpenSessions(sessions)
      /\ \A i \in OpenSessions(sessions) : Current = i
  BY CurrentIs DEF IInv
<1>2. \A w \in Windows : pc[w] \in Judging =>
                           mem[w].since \in {0} \union DOMAIN sessions
  BY DEF IInv, Judged, JudgedAt, Stage, Judging
<1>3. ASSUME NEW w \in Windows, pc[w] \in Judging, StillIn(mem[w])
      PROVE  mem[w].since = Current /\ Current # 0
  <2>1. mem[w].since # 0 /\ mem[w].since \in OpenSessions(sessions)
    BY <1>2, <1>3 DEF OpenSessions, StillIn
  <2>2. QED
    BY <1>1, <2>1
<1>4. Current \in {0} \union DOMAIN sessions
  <2>1. OpenSessions(sessions) \subseteq DOMAIN sessions
    BY DEF OpenSessions
  <2>2. QED
    BY <1>1, <2>1
<1>5. QED
  BY <1>3, <1>4

\* A step of the guard or of a turn's end, which tells nothing or one event.
LEMMA TellingKeeps ==
  ASSUME IInv, NEW w \in Windows, pc[w] # "noting", NEW to \in PCs \ {"noting"},
         NEW m, DOMAIN m = DOMAIN Idle, Goto(w, to, m), JudgedAt(to, m), to \notin {"hash", "held"},
         UNCHANGED <<sessions, work, capture, continuing, used>>,
         trail' \in Seq([type : Events, session : {0} \union DOMAIN sessions])
  PROVE  IInv'
<1>1. pc'[w] = to
  BY GotoMoves DEF IInv
<1>2. Held(w)'
  BY <1>1 DEF Held
<1>3. continuing' \in [Windows -> BOOLEAN]
  BY DEF IInv, Typed
<1>4. QED
  BY <1>2, <1>3, AsideKeeps

\* One that reads the session an event is to be of.
LEMMA ToTellKeeps ==
  ASSUME IInv, NEW w \in Windows, NEW at \in PCs \ {"noting"}, NEW event \in Events,
         NEW then \in {"deny", "allowed", "idle"}, NEW m, DOMAIN m = DOMAIN Idle,
         ToTell(w, at, event, then, m), JudgedAt(then, m),
         UNCHANGED <<sessions, trail, work, capture, continuing>>
  PROVE  IInv'
<1>1. PICK k : k = [m EXCEPT !.event = event, !.on = Current, !.then = then]
  OBVIOUS
<1>2. pc[w] = at /\ Goto(w, "tell", k) /\ UNCHANGED used
  BY <1>1 DEF ToTell, Step
<1>3. /\ DOMAIN k = DOMAIN Idle /\ k.event = event /\ k.on = Current /\ k.then = then
      /\ k.call = m.call /\ k.since = m.since /\ k.why = m.why /\ k.unread = m.unread
  BY <1>1 DEF Idle
<1>4. k.on \in {0} \union DOMAIN sessions
  BY <1>3, HereStill
<1>5. Stage("tell", k) = Stage(then, m)
  BY <1>3 DEF Stage
<1>6. JudgedAt("tell", k)
  BY <1>3, <1>4, <1>5 DEF JudgedAt, StillIn, ReadOnly, Allows
<1>7. "tell" \in PCs \ {"noting"}
  BY DEF PCs
<1>8. trail' \in Seq([type : Events, session : {0} \union DOMAIN sessions])
  BY DEF IInv, Typed
<1>9. QED
  BY <1>2, <1>3, <1>6, <1>7, <1>8, TellingKeeps

\* The event is inserted, or is not.
LEMMA TellKeeps ==
  ASSUME IInv, NEW w \in Windows, Tell(w)
  PROVE  IInv'
<1>1. /\ pc[w] = "tell" /\ DOMAIN mem[w] = DOMAIN Idle /\ JudgedAt("tell", mem[w])
      /\ UNCHANGED <<sessions, work, capture, continuing, used>>
  BY DEF Tell, Step, IInv, Typed, Judged
<1>2. PICK m : m = mem[w]
  OBVIOUS
<1>3. \/ Goto(w, m.then, m)
      \/ Goto(w, "idle", m)
  BY <1>2 DEF Tell, Step
<1>4. trail' \in Seq([type : Events, session : {0} \union DOMAIN sessions])
  <2>1. mem[w].event \in Events /\ mem[w].on \in {0} \union DOMAIN sessions
    BY <1>1 DEF JudgedAt
  <2>2. trail' = Logged(trail, mem[w].event, mem[w].on) \/ trail' = trail
    BY DEF Tell
  <2>3. QED
    BY <2>1, <2>2, TrailGrows DEF IInv, Typed
<1>5. m.then \in PCs \ {"noting", "hash", "held"} /\ "idle" \in PCs \ {"noting", "hash", "held"}
  BY <1>1, <1>2 DEF JudgedAt, PCs
<1>6. JudgedAt(m.then, m)
  BY <1>1, <1>2 DEF JudgedAt, Stage, Judging
<1>7. JudgedAt("idle", m)
  BY DEF JudgedAt, Stage, Judging
<1>8. QED
  BY <1>1, <1>2, <1>3, <1>4, <1>5, <1>6, <1>7, TellingKeeps

LEMMA SubmitKeeps ==
  ASSUME IInv, NEW w \in Windows, Submit(w)
  PROVE  IInv'
<1>1. PICK c \in Families[used].calls : Goto(w, "policy", [Idle EXCEPT !.call = c, !.since = Current])
  BY DEF Submit
<1>2. c \in CallRows
  BY HooksAssumption DEF IInv, Typed
<1>3. PICK m : m = [Idle EXCEPT !.call = c, !.since = Current]
  OBVIOUS
<1>4. Goto(w, "policy", m)
  BY <1>1, <1>3
<1>5. DOMAIN m = DOMAIN Idle /\ m.call = c /\ m.since = Current
  BY <1>3 DEF Idle
<1>6. JudgedAt("policy", m)
  BY <1>2, <1>5, HereStill DEF JudgedAt, Stage
<1>7. UNCHANGED <<sessions, trail, work, capture, continuing, used>> /\ pc[w] = "idle"
  BY DEF Submit, Spend
<1>8. "policy" \in PCs \ {"noting"}
  BY DEF PCs
<1>9. trail' \in Seq([type : Events, session : {0} \union DOMAIN sessions])
  BY <1>7 DEF IInv, Typed
<1>10. QED
  BY <1>4, <1>5, <1>6, <1>7, <1>8, <1>9, TellingKeeps

LEMMA JudgePolicyKeeps ==
  ASSUME IInv, NEW w \in Windows, JudgePolicy(w)
  PROVE  IInv'
<1>1. /\ pc[w] = "policy" /\ DOMAIN mem[w] = DOMAIN Idle /\ Judged(w)
      /\ UNCHANGED <<sessions, trail, work, capture, continuing>>
      /\ trail' \in Seq([type : Events, session : {0} \union DOMAIN sessions])
  BY DEF JudgePolicy, IInv, Typed
<1>2. mem[w].call \in CallRows /\ mem[w].since \in {0} \union DOMAIN sessions
  BY <1>1 DEF Judged, JudgedAt, Stage, Judging
<1>3. "role" \in PCs \ {"noting"} /\ "policy" \in PCs \ {"noting"}
  BY DEF PCs
<1>4. CASE /\ (Current # 0 => Allows(Current, mem[w].call))
           /\ Step(w, "policy", "role", mem[w])
  <2>1. PICK m : m = mem[w]
    OBVIOUS
  <2>2. Goto(w, "role", m) /\ UNCHANGED used
    BY <1>4, <2>1 DEF Step
  <2>3. StillIn(mem[w]) => Allows(mem[w].since, mem[w].call)
    BY <1>1, <1>4, HereStill DEF Judging
  <2>4. JudgedAt("role", m)
    BY <1>2, <2>1, <2>3 DEF JudgedAt, Stage
  <2>5. QED
    BY <1>1, <1>3, <2>1, <2>2, <2>4, TellingKeeps
<1>5. CASE ToTell(w, "policy", "policy_violation", "deny", [mem[w] EXCEPT !.why = "policy"])
  <2>1. PICK m : m = [mem[w] EXCEPT !.why = "policy"]
    OBVIOUS
  <2>2. ToTell(w, "policy", "policy_violation", "deny", m)
    BY <1>5, <2>1
  <2>3. DOMAIN m = DOMAIN Idle /\ m.call = mem[w].call /\ m.since = mem[w].since /\ m.why = "policy"
    BY <1>1, <2>1 DEF Idle
  <2>4. JudgedAt("deny", m)
    BY <1>2, <2>3 DEF JudgedAt, Stage
  <2>5. "policy_violation" \in Events
    BY DEF Events
  <2>6. QED
    BY <1>1, <1>3, <2>2, <2>3, <2>4, <2>5, ToTellKeeps
<1>6. QED
  BY <1>4, <1>5 DEF JudgePolicy

LEMMA JudgeRoleKeeps ==
  ASSUME IInv, NEW w \in Windows, JudgeRole(w)
  PROVE  IInv'
<1>1. /\ pc[w] = "role" /\ DOMAIN mem[w] = DOMAIN Idle /\ Judged(w)
      /\ UNCHANGED <<sessions, trail, work, capture, continuing>>
      /\ trail' \in Seq([type : Events, session : {0} \union DOMAIN sessions])
  BY DEF JudgeRole, IInv, Typed
<1>2. /\ mem[w].call \in CallRows /\ mem[w].since \in {0} \union DOMAIN sessions
      /\ StillIn(mem[w]) => Allows(mem[w].since, mem[w].call)
  BY <1>1 DEF Judged, JudgedAt, Stage, Judging
<1>3. "rules" \in PCs \ {"noting"} /\ "deny" \in PCs \ {"noting"}
  BY DEF PCs
<1> DEFINE roles(unread) == {mem[w].call.subagent} \union
                              (IF unread THEN {} ELSE {RoleHere(mem[w].call)})
           barred(unread) == "read_only" \in roles(unread) /\ BlocksReadOnly(mem[w].call)
<1>4. PICK unread \in BOOLEAN :
        IF barred(unread) THEN Step(w, "role", "deny", [mem[w] EXCEPT !.why = "role"])
        ELSE Step(w, "role", "rules", [mem[w] EXCEPT !.unread = unread])
  BY DEF JudgeRole
<1>5. CASE barred(unread)
  <2>1. PICK m : m = [mem[w] EXCEPT !.why = "role"]
    OBVIOUS
  <2>2. Goto(w, "deny", m) /\ UNCHANGED used
    BY <1>4, <1>5, <2>1 DEF Step
  <2>3. DOMAIN m = DOMAIN Idle /\ m.call = mem[w].call /\ m.since = mem[w].since /\ m.why = "role"
    BY <1>1, <2>1 DEF Idle
  <2>4. JudgedAt("deny", m)
    BY <1>2, <2>3 DEF JudgedAt, Stage
  <2>5. QED
    BY <1>1, <1>3, <2>2, <2>3, <2>4, TellingKeeps
<1>6. CASE ~barred(unread)
  <2>1. PICK m : m = [mem[w] EXCEPT !.unread = unread]
    OBVIOUS
  <2>2. Goto(w, "rules", m) /\ UNCHANGED used
    BY <1>4, <1>6, <2>1 DEF Step
  <2>3. DOMAIN m = DOMAIN Idle /\ m.call = mem[w].call /\ m.since = mem[w].since /\ m.unread = unread
    BY <1>1, <2>1 DEF Idle
  <2>4. StillIn(m) => StillIn(mem[w])
    BY <2>3 DEF StillIn
  <2>5. ASSUME ReadOnly(m) PROVE ~BlocksReadOnly(m.call)
    <3>1. CASE m.call.subagent = "read_only"
      BY <1>6, <2>3, <3>1
    <3>2. CASE ~m.unread /\ m.call.named = "read_only"
      BY <1>6, <2>3, <3>2 DEF RoleHere
    <3>3. CASE ~m.unread /\ m.call.named = "none" /\ StillIn(m) /\ sessions[m.since].role = "read_only"
      <4>1. m.since = Current /\ Current # 0
        BY <1>1, <2>3, <2>4, <3>3, HereStill DEF Judging
      <4>2. RoleHere(m.call) = "read_only"
        BY <3>3, <4>1 DEF RoleHere
      <4>3. QED
        BY <1>6, <2>3, <3>3, <4>2
    <3>4. QED
      BY <2>5, <3>1, <3>2, <3>3 DEF ReadOnly
  <2>6. JudgedAt("rules", m)
    BY <1>2, <2>3, <2>4, <2>5 DEF JudgedAt, Allows, Stage
  <2>7. QED
    BY <1>1, <1>3, <2>2, <2>3, <2>6, TellingKeeps
<1>7. QED
  BY <1>5, <1>6

LEMMA JudgeRulesKeeps ==
  ASSUME IInv, NEW w \in Windows, JudgeRules(w)
  PROVE  IInv'
<1>1. /\ pc[w] = "rules" /\ DOMAIN mem[w] = DOMAIN Idle /\ Judged(w)
      /\ UNCHANGED <<sessions, trail, work, capture, continuing>>
      /\ trail' \in Seq([type : Events, session : {0} \union DOMAIN sessions])
  BY DEF JudgeRules, IInv, Typed
<1>2. /\ mem[w].call \in CallRows /\ mem[w].since \in {0} \union DOMAIN sessions
      /\ StillIn(mem[w]) => Allows(mem[w].since, mem[w].call)
      /\ ReadOnly(mem[w]) => ~BlocksReadOnly(mem[w].call)
  BY <1>1 DEF Judged, JudgedAt, Stage, Judging
<1>3. /\ "allowed" \in PCs \ {"noting"} /\ "deny" \in PCs \ {"noting"}
      /\ "rules" \in PCs \ {"noting"} /\ "guard_warned" \in Events
  BY DEF PCs, Events
<1>4. PICK k : k = mem[w]
  OBVIOUS
<1>5. CASE BlocksContent(mem[w].call) /\ Step(w, "rules", "deny", [mem[w] EXCEPT !.why = "rules"])
  <2>1. PICK m : m = [mem[w] EXCEPT !.why = "rules"]
    OBVIOUS
  <2>2. Goto(w, "deny", m) /\ UNCHANGED used
    BY <1>5, <2>1 DEF Step
  <2>3. DOMAIN m = DOMAIN Idle /\ m.call = mem[w].call /\ m.since = mem[w].since
    BY <1>1, <2>1 DEF Idle
  <2>4. JudgedAt("deny", m)
    BY <1>2, <1>5, <2>3 DEF JudgedAt, Stage
  <2>5. QED
    BY <1>1, <1>3, <2>2, <2>3, <2>4, TellingKeeps
<1>6. ASSUME ~BlocksContent(mem[w].call) PROVE JudgedAt("allowed", k)
  BY <1>2, <1>4, <1>6 DEF JudgedAt, Stage
<1>7. CASE ~BlocksContent(mem[w].call) /\ Step(w, "rules", "allowed", mem[w])
  <2>1. Goto(w, "allowed", k) /\ UNCHANGED used
    BY <1>4, <1>7 DEF Step
  <2>2. QED
    BY <1>1, <1>3, <1>4, <1>6, <1>7, <2>1, TellingKeeps
<1>8. CASE ~BlocksContent(mem[w].call) /\ ToTell(w, "rules", "guard_warned", "allowed", mem[w])
  <2>1. ToTell(w, "rules", "guard_warned", "allowed", k)
    BY <1>4, <1>8
  <2>2. QED
    BY <1>1, <1>3, <1>4, <1>6, <1>8, <2>1, ToTellKeeps
<1>9. QED
  BY <1>5, <1>7, <1>8 DEF JudgeRules

LEMMA OtherCallStepsKeep ==
  ASSUME IInv, NEW w \in Windows, Deny(w) \/ CannotDecide(w) \/ Run(w) \/ RecordToolUse(w)
  PROVE  IInv'
<1>1. /\ pc[w] # "noting" /\ DOMAIN mem[w] = DOMAIN Idle
      /\ UNCHANGED <<sessions, trail, work, capture, continuing>>
      /\ trail' \in Seq([type : Events, session : {0} \union DOMAIN sessions])
  BY DEF Deny, CannotDecide, Run, RecordToolUse, ToTell, Step, IInv, Typed
<1>2. PICK m : m = mem[w]
  OBVIOUS
<1>3. \/ (Goto(w, "idle", m) \/ Goto(w, "ran", m)) /\ UNCHANGED used
      \/ ToTell(w, "deny", "guard_denied", "idle", m)
      \/ ToTell(w, "ran", "tool_used", "idle", m)
  BY <1>2 DEF Deny, CannotDecide, Run, RecordToolUse, Step
<1>4. JudgedAt("idle", m) /\ JudgedAt("ran", m)
  BY DEF JudgedAt, Stage, Judging
<1>5. /\ "idle" \in PCs \ {"noting"} /\ "ran" \in PCs \ {"noting"} /\ "deny" \in PCs \ {"noting"}
      /\ "guard_denied" \in Events /\ "tool_used" \in Events
  BY DEF PCs, Events
<1>6. CASE (Goto(w, "idle", m) \/ Goto(w, "ran", m)) /\ UNCHANGED used
  BY <1>1, <1>2, <1>4, <1>5, <1>6, TellingKeeps
<1>7. CASE ToTell(w, "deny", "guard_denied", "idle", m) \/ ToTell(w, "ran", "tool_used", "idle", m)
  BY <1>1, <1>2, <1>4, <1>5, <1>7, ToTellKeeps
<1>8. QED
  BY <1>3, <1>6, <1>7

-----------------------------------------------------------------------------
(* The end of a turn.                                                      *)

\* What leaves the end of a turn: the turn ends, held or not.
LEMMA TurnEndKeeps ==
  ASSUME IInv, NEW w \in Windows, pc[w] # "noting", NEW more \in BOOLEAN, Goto(w, "idle", mem[w]),
         continuing' = [continuing EXCEPT ![w] = more],
         UNCHANGED <<sessions, trail, work, capture, used>>
  PROVE  IInv'
<1>1. PICK m : m = mem[w]
  OBVIOUS
<1>2. DOMAIN m = DOMAIN Idle /\ Goto(w, "idle", m)
  BY <1>1 DEF IInv, Typed
<1>3. "idle" \in PCs \ {"noting"}
  BY DEF PCs
<1>4. pc'[w] = "idle"
  BY <1>2, <1>3, GotoMoves DEF IInv
<1>5. JudgedAt("idle", m) /\ Held(w)'
  BY <1>4 DEF JudgedAt, Stage, Judging, Held
<1>6. /\ continuing' \in [Windows -> BOOLEAN]
      /\ \A v \in Windows \ {w} : continuing'[v] = continuing[v]
      /\ trail' \in Seq([type : Events, session : {0} \union DOMAIN sessions])
  BY DEF IInv, Typed
<1>7. QED
  BY <1>2, <1>3, <1>5, <1>6, AsideKeeps

\* What goes on to hold the turn knows why.
LEMMA HoldingKeeps ==
  ASSUME IInv, NEW w \in Windows, pc[w] # "noting", NEW to \in {"hash", "held"},
         NEW m, DOMAIN m = DOMAIN Idle, Goto(w, to, m), ~continuing[w], m.passes # {},
         to = "held" => m.now \notin m.passes,
         UNCHANGED <<sessions, trail, work, capture, continuing, used>>
  PROVE  IInv'
<1>1. to \in PCs \ {"noting"}
  BY DEF PCs
<1>2. pc'[w] = to /\ mem'[w] = m
  BY <1>1, GotoMoves DEF IInv
<1>3. JudgedAt(to, m)
  BY DEF JudgedAt, Stage, Judging
<1>4. Held(w)'
  BY <1>2 DEF Held
<1>5. /\ continuing' \in [Windows -> BOOLEAN]
      /\ trail' \in Seq([type : Events, session : {0} \union DOMAIN sessions])
  BY DEF IInv, Typed
<1>6. QED
  BY <1>1, <1>3, <1>4, <1>5, AsideKeeps

LEMMA StopReadsKeeps ==
  ASSUME IInv, NEW w \in Windows, StopReads(w)
  PROVE  IInv'
<1>1. pc[w] = "stop" /\ UNCHANGED <<sessions, trail, work, capture>>
  BY DEF StopReads
<1>2. CASE EndTurn(w)
  BY <1>1, <1>2, TurnEndKeeps DEF EndTurn, Step
<1>3. CASE /\ ~continuing[w] /\ RunnerPasses(checks) # {} /\ UNCHANGED continuing
           /\ Step(w, "stop", "hash", [mem[w] EXCEPT !.passes = RunnerPasses(checks)])
  <2>1. PICK m : m = [mem[w] EXCEPT !.passes = RunnerPasses(checks)]
    OBVIOUS
  <2>2. DOMAIN mem[w] = DOMAIN Idle
    BY DEF IInv, Typed
  <2>3. DOMAIN m = DOMAIN Idle /\ m.passes # {}
    BY <1>3, <2>1, <2>2 DEF Idle
  <2>4. Goto(w, "hash", m) /\ UNCHANGED used
    BY <1>3, <2>1 DEF Step
  <2>5. QED
    BY <1>1, <1>3, <2>3, <2>4, HoldingKeeps
<1>4. QED
  BY <1>2, <1>3 DEF StopReads

LEMMA StopHashesKeeps ==
  ASSUME IInv, NEW w \in Windows, StopHashes(w)
  PROVE  IInv'
<1>1. pc[w] = "hash" /\ UNCHANGED <<sessions, trail, work, capture>>
  BY DEF StopHashes
<1>2. CASE EndTurn(w)
  BY <1>1, <1>2, TurnEndKeeps DEF EndTurn, Step
<1>3. CASE /\ tree \notin mem[w].passes /\ UNCHANGED continuing
           /\ Step(w, "hash", "held", [mem[w] EXCEPT !.now = tree])
  <2>1. PICK m : m = [mem[w] EXCEPT !.now = tree]
    OBVIOUS
  <2>2. DOMAIN mem[w] = DOMAIN Idle /\ ~continuing[w] /\ mem[w].passes # {}
    BY <1>1 DEF IInv, Typed, Held
  <2>3. DOMAIN m = DOMAIN Idle /\ m.passes = mem[w].passes /\ m.now = tree
    BY <2>1, <2>2 DEF Idle
  <2>4. Goto(w, "held", m) /\ UNCHANGED used
    BY <1>3, <2>1 DEF Step
  <2>5. QED
    BY <1>1, <1>3, <2>2, <2>3, <2>4, HoldingKeeps
<1>4. QED
  BY <1>2, <1>3 DEF StopHashes

LEMMA ContinueKeeps ==
  ASSUME IInv, NEW w \in Windows, Continue(w)
  PROVE  IInv'
BY TurnEndKeeps DEF Continue, Step

-----------------------------------------------------------------------------
(* Transcripts, and what is captured of them.                              *)

\* What a transcript becomes when it is rewritten, resumed or deleted.
LEMMA AnotherEdition ==
  ASSUME NEW t \in Transcripts, NEW s \in Seq(Lines), NEW u,
         \/ u = [t EXCEPT !.lines = s, !.edition = @ + 1]
         \/ u = [t EXCEPT !.lines = s, !.edition = @ + 1, !.path = @ + 1]
         \/ u = [t EXCEPT !.there = FALSE, !.edition = @ + 1, !.lines = s]
  PROVE  u \in Transcripts /\ u.edition = t.edition + 1
<1>1. PICK p \in Nat, l \in Seq(Lines), h \in BOOLEAN, e \in Nat :
        t = [path |-> p, lines |-> l, there |-> h, edition |-> e]
  BY DEF Transcripts
<1>2. \/ u = [path |-> p, lines |-> s, there |-> h, edition |-> e + 1]
      \/ u = [path |-> p + 1, lines |-> s, there |-> h, edition |-> e + 1]
      \/ u = [path |-> p, lines |-> s, there |-> FALSE, edition |-> e + 1]
  BY <1>1
<1>3. p + 1 \in Nat /\ e + 1 \in Nat
  OBVIOUS
<1>4. u \in Transcripts
  <2>1. PICK a \in Nat, c \in BOOLEAN, d \in Nat : u = [path |-> a, lines |-> s, there |-> c, edition |-> d]
    BY <1>2, <1>3
  <2>2. [path |-> a, lines |-> s, there |-> c, edition |-> d] \in Transcripts
    BY DEF Transcripts
  <2>3. QED
    BY <2>1, <2>2
<1>5. u.edition = e + 1 /\ t.edition = e
  BY <1>1, <1>2
<1>6. QED
  BY <1>4, <1>5

LEMMA TranscriptKeeps ==
  ASSUME IInv, NEW w \in Windows, Transcript(w)
  PROVE  IInv'
<1> DEFINE t == transcripts[w]
<1>1. t \in Transcripts /\ t.lines \in Seq(Lines) /\ Len(t.lines) \in Nat /\ t.edition \in Nat
  BY TranscriptFits DEF IInv
<1>2. PICK k \in Transcripts : k = t
  BY <1>1
<1>3. /\ UNCHANGED <<sessions, trail, work, saved, read, notes, lost, forgot, cut, continuing,
                     used, pc, mem>>
      /\ \E u : transcripts' = [transcripts EXCEPT ![w] = u]
  BY DEF Transcript, Transcribe, Spend
<1>4. PICK u \in Transcripts :
        /\ transcripts' = [transcripts EXCEPT ![w] = u] /\ u.edition >= t.edition
        /\ u.edition = t.edition => /\ Len(t.lines) <= Len(u.lines)
                                    /\ \A i \in 1 .. Len(t.lines) : u.lines[i] = t.lines[i]
  <2>1. CASE \E l \in Lines : Transcribe(w, "say", [t EXCEPT !.lines = Append(@, l)])
    <3>1. PICK l \in Lines : Transcribe(w, "say", [t EXCEPT !.lines = Append(@, l)])
      BY <2>1
    <3> DEFINE s == Append(t.lines, l)
               u == [t EXCEPT !.lines = s]
    <3>2. /\ s \in Seq(Lines) /\ Len(s) = Len(t.lines) + 1
          /\ \A i \in 1 .. Len(t.lines) : s[i] = t.lines[i]
      BY <1>1
    <3>3. transcripts' = [transcripts EXCEPT ![w] = u]
      BY <3>1 DEF Transcribe
    <3> HIDE DEF s
    <3>4. u \in Transcripts /\ u.edition = t.edition /\ u.lines = s
      BY <1>1, <3>2 DEF Transcripts
    <3> HIDE DEF u
    <3>5. /\ u.edition >= t.edition /\ Len(t.lines) <= Len(u.lines)
          /\ \A i \in 1 .. Len(t.lines) : u.lines[i] = t.lines[i]
      BY <1>1, <3>2, <3>4
    <3>6. QED
      BY <3>3, <3>4, <3>5
  <2>2. CASE \E u \in Transcripts : u.edition = t.edition + 1 /\ transcripts' = [transcripts EXCEPT ![w] = u]
    <3>1. PICK u \in Transcripts : u.edition = t.edition + 1 /\ transcripts' = [transcripts EXCEPT ![w] = u]
      BY <2>2
    <3>2. u.edition >= t.edition /\ u.edition # t.edition
      BY <1>1, <3>1
    <3>3. QED
      BY <3>1, <3>2
  <2>3. ASSUME NEW n \in 0 .. Len(t.lines)
        PROVE  SubSeq(t.lines, n + 1, Len(t.lines)) \in Seq(Lines)
    BY <1>1
  <2>4. ASSUME NEW n \in 0 .. Len(t.lines),
               Transcribe(w, "rewrite", [t EXCEPT !.lines = SubSeq(t.lines, n + 1, Len(t.lines)),
                                                  !.edition = @ + 1])
        PROVE  \E u \in Transcripts :
                 u.edition = t.edition + 1 /\ transcripts' = [transcripts EXCEPT ![w] = u]
    <3>1. PICK s \in Seq(Lines) :
            transcripts' = [transcripts EXCEPT ![w] = [t EXCEPT !.lines = s, !.edition = @ + 1]]
      BY <2>3, <2>4 DEF Transcribe
    <3>2. PICK u : u = [k EXCEPT !.lines = s, !.edition = @ + 1]
      OBVIOUS
    <3>3. u \in Transcripts /\ u.edition = k.edition + 1
      BY <3>2, AnotherEdition
    <3>4. QED
      BY <1>2, <3>1, <3>2, <3>3
  <2>5. ASSUME NEW n \in 0 .. Len(t.lines),
               Transcribe(w, "resume", [t EXCEPT !.lines = SubSeq(t.lines, n + 1, Len(t.lines)),
                                                 !.edition = @ + 1, !.path = @ + 1])
        PROVE  \E u \in Transcripts :
                 u.edition = t.edition + 1 /\ transcripts' = [transcripts EXCEPT ![w] = u]
    <3>1. PICK s \in Seq(Lines) :
            transcripts' = [transcripts EXCEPT ![w] = [t EXCEPT !.lines = s, !.edition = @ + 1,
                                                                !.path = @ + 1]]
      BY <2>3, <2>5 DEF Transcribe
    <3>2. PICK u : u = [k EXCEPT !.lines = s, !.edition = @ + 1, !.path = @ + 1]
      OBVIOUS
    <3>3. u \in Transcripts /\ u.edition = k.edition + 1
      BY <3>2, AnotherEdition
    <3>4. QED
      BY <1>2, <3>1, <3>2, <3>3
  <2>6. ASSUME Transcribe(w, "delete", [t EXCEPT !.there = FALSE, !.edition = @ + 1, !.lines = <<>>])
        PROVE  \E u \in Transcripts :
                 u.edition = t.edition + 1 /\ transcripts' = [transcripts EXCEPT ![w] = u]
    <3>1. PICK s \in Seq(Lines) :
            transcripts' = [transcripts EXCEPT ![w] = [t EXCEPT !.there = FALSE, !.edition = @ + 1,
                                                                !.lines = s]]
      <4>1. <<>> \in Seq(Lines)
        OBVIOUS
      <4>2. transcripts' = [transcripts EXCEPT ![w] = [t EXCEPT !.there = FALSE, !.edition = @ + 1,
                                                                !.lines = <<>>]]
        BY <2>6 DEF Transcribe
      <4>3. QED
        BY <4>1, <4>2, Zenon
    <3>2. PICK u : u = [k EXCEPT !.there = FALSE, !.edition = @ + 1, !.lines = s]
      OBVIOUS
    <3>3. u \in Transcripts /\ u.edition = k.edition + 1
      BY <3>2, AnotherEdition
    <3>4. QED
      BY <1>2, <3>1, <3>2, <3>3
  <2>7. QED
    BY <2>1, <2>2, <2>4, <2>5, <2>6 DEF Transcript
<1>5. /\ transcripts' \in [Windows -> Transcripts] /\ transcripts'[w] = u
      /\ \A v \in Windows \ {w} : transcripts'[v] = transcripts[v]
  BY <1>4 DEF IInv, Typed
<1>6. UNCHANGED <<tree, checks, finished>>
  BY <1>3 DEF work
<1>7. Typed'
  BY <1>3, <1>5, <1>6 DEF IInv, Typed
<1>8. KeepTelling
  <2>1. \A v \in Windows : transcripts[v].edition \in Nat /\ Len(transcripts[v].lines) \in Nat
    BY TranscriptFits DEF IInv
  <2>2. QED
    BY <1>3, <1>4, <1>5, <2>1 DEF KeepTelling
<1>9. SavedTells' /\ OneOpen' /\ Lasting
  BY <1>3, <1>7, <1>8, SavedTellsStill, UnchangedLast DEF IInv, OneOpen
<1>10. \A v \in Windows : Judged(v)' /\ InHand(v)' /\ Once(v)' /\ Held(v)'
  BY <1>3, <1>7, <1>8, <1>9, OthersStay
<1>11. QED
  BY <1>7, <1>9, <1>10 DEF IInv

\* A step of a capture.
LEMMA CapturingKeeps ==
  ASSUME IInv, NEW w \in Windows, Typed', KeepTelling, SavedTells',
         UNCHANGED <<sessions, trail, continuing>>, forgot \subseteq forgot',
         \A v \in Windows \ {w} : /\ pc'[v] = pc[v] /\ mem'[v] = mem[v] /\ notes'[v] = notes[v]
                                  /\ saved'[v] = saved[v] \/ Forgotten(v)',
         pc'[w] \in {"noting", "stop", "idle"}, InHand(w)', Once(w)'
  PROVE  IInv'
<1>1. OneOpen' /\ Lasting
  BY UnchangedLast DEF IInv, OneOpen
<1>2. \A v \in Windows \ {w} : Judged(v)' /\ InHand(v)' /\ Once(v)' /\ Held(v)'
  BY <1>1, OthersStay
<1>3. Judged(w)' /\ Held(w)'
  BY DEF Judged, JudgedAt, Stage, Judging, Held
<1>4. QED
  BY <1>1, <1>2, <1>3 DEF IInv

\* What a step of a capture leaves of the types.
LEMMA CapturingFits ==
  ASSUME IInv, NEW w \in Windows, NEW to \in {"noting", "stop", "idle"},
         NEW m, DOMAIN m = DOMAIN Idle, Goto(w, to, m),
         UNCHANGED <<sessions, trail, work, transcripts, continuing, used>>,
         saved' \in [Windows -> Entries], read' \in [Windows -> Nat],
         notes' \in [Windows -> Seq(Lines)], lost' \in [Windows -> SUBSET Lines]
  PROVE  /\ Typed' /\ pc'[w] = to /\ mem'[w] = IF to = "idle" THEN Idle ELSE m
         /\ \A v \in Windows \ {w} : pc'[v] = pc[v] /\ mem'[v] = mem[v]
<1>1. to \in PCs /\ Typed
  BY DEF PCs, IInv
<1>2. /\ pc' \in [Windows -> PCs]
      /\ DOMAIN mem' = Windows /\ \A v \in Windows : DOMAIN mem'[v] = DOMAIN Idle
      /\ pc'[w] = to /\ mem'[w] = IF to = "idle" THEN Idle ELSE m
      /\ \A v \in Windows \ {w} : pc'[v] = pc[v] /\ mem'[v] = mem[v]
  BY <1>1, GotoMoves
<1>3. UNCHANGED <<tree, checks, finished>>
  BY DEF work
<1>4. QED
  BY <1>1, <1>2, <1>3 DEF Typed, PCs

\* What a capture takes in hand: an entry that tells of the transcript as it is
\* here, with the lines it has yet to note.
LEMMA CaptureKeeps ==
  ASSUME IInv, NEW w \in Windows, Capture(w)
  PROVE  IInv'
<1> DEFINE st    == saved[w]
           t     == transcripts[w]
           todo  == LinesToNote(st, t.path, t.lines)
           entry == CapturedTo(st, t.path, t.lines)
           state == [saved EXCEPT ![w] = entry]
           eds   == [read EXCEPT ![w] = t.edition]
<1>1. /\ pc[w] = "idle" /\ Typed /\ SavedTells /\ Once(w) /\ forgot' = forgot
      /\ UNCHANGED <<sessions, trail, work, transcripts, saved, read, notes, lost, continuing,
                     used>>
      /\ cut' = IF read[w] # t.edition /\ st.path = t.path /\ 0 < st.offset /\ st.offset <= Len(t.lines)
                THEN cut \union {w} ELSE cut
  BY DEF Capture, Spend, IInv
<1>2. /\ t.edition \in Nat /\ t.lines \in Seq(Lines) /\ Len(t.lines) \in Nat /\ t.path \in Nat
      /\ DOMAIN t.lines = 1 .. Len(t.lines)
  BY <1>1, TranscriptFits DEF Transcripts
<1>3. st \in Entries /\ st.seen \subseteq Lines /\ st.offset \in Nat
  BY <1>1 DEF Typed, Entries
<1>4. PICK m : m = [Idle EXCEPT !.state = state, !.read = eds, !.todo = todo, !.stop = m.stop]
                 /\ Goto(w, "noting", m)
  <2>1. PICK move \in {"capture", "stop"} :
           Goto(w, "noting", [Idle EXCEPT !.state = state, !.read = eds, !.todo = todo,
                                          !.stop = (move = "stop")])
    BY DEF Capture
  <2>2. PICK m : m = [Idle EXCEPT !.state = state, !.read = eds, !.todo = todo, !.stop = (move = "stop")]
    OBVIOUS
  <2> HIDE DEF state, eds, todo
  <2>3. m.stop = (move = "stop")
    BY <2>2 DEF Idle
  <2>4. QED
    BY <2>1, <2>2, <2>3
<1>5. m.state = state /\ m.read = eds /\ m.todo = todo /\ DOMAIN m = DOMAIN Idle
  <2> HIDE DEF state, eds, todo
  <2>1. QED
    BY <1>4 DEF Idle
<1>6. PICK from \in Nat :
        /\ from = 0 \/ (from = st.offset /\ st.offset <= Len(t.lines) /\ st.path = t.path)
        /\ todo \in Seq(Lines) /\ IsInjective(todo) /\ ToSet(todo) \intersect st.seen = {}
        /\ \A i \in DOMAIN t.lines : i > from => t.lines[i] \in st.seen \union ToSet(todo)
  <2>1. PICK e \in Entries, p \in Nat, l \in Seq(Lines) : e = st /\ p = t.path /\ l = t.lines
    BY <1>2, <1>3
  <2>2. LET from == ResumeAt(e, p, l)
            new  == LinesToNote(e, p, l)
        IN  /\ from = 0 \/ (from = e.offset /\ e.offset <= Len(l) /\ e.path = p)
            /\ new \in Seq(Lines) /\ IsInjective(new) /\ ToSet(new) \intersect e.seen = {}
            /\ \A i \in DOMAIN l : i > from => l[i] \in e.seen \union ToSet(new)
    BY NewLines
  <2>3. ResumeAt(e, p, l) \in Nat
    BY <1>3, <2>1, <2>2
  <2>4. QED
    BY <2>1, <2>2, <2>3
<1>7. entry = [path |-> t.path, offset |-> Len(t.lines), seen |-> st.seen \union ToSet(todo)]
  BY DEF CapturedTo
<1>8. entry \in Entries
  <2>1. ToSet(todo) \subseteq Lines
    BY <1>6 DEF ToSet
  <2> HIDE DEF todo
  <2>2. QED
    BY <1>2, <1>3, <1>7, <2>1 DEF Entries
<1> HIDE DEF todo, entry
<1>9. /\ state \in [Windows -> Entries] /\ eds \in [Windows -> Nat]
      /\ state[w] = entry /\ eds[w] = t.edition
      /\ \A v \in Windows \ {w} : state[v] = saved[v] /\ eds[v] = read[v]
  BY <1>1, <1>2, <1>8 DEF Typed
<1> HIDE DEF state, eds
<1>10. /\ Typed' /\ pc'[w] = "noting" /\ mem'[w] = m
       /\ \A v \in Windows \ {w} : pc'[v] = pc[v] /\ mem'[v] = mem[v]
  <2>1. /\ saved' \in [Windows -> Entries] /\ read' \in [Windows -> Nat]
        /\ notes' \in [Windows -> Seq(Lines)] /\ lost' \in [Windows -> SUBSET Lines]
    BY <1>1 DEF Typed
  <2>2. QED
    BY <1>1, <1>4, <1>5, <2>1, CapturingFits
<1>11. KeepTelling /\ SavedTells'
  <2>1. KeepTelling
    <3>1. \A v \in Windows : transcripts[v].edition \in Nat /\ Len(transcripts[v].lines) \in Nat
      BY <1>1, TranscriptFits
    <3>2. cut \subseteq cut'
      BY <1>1
    <3>3. QED
      BY <1>1, <3>1, <3>2 DEF KeepTelling
  <2>2. QED
    BY <1>1, <1>10, <2>1, SavedTellsStill
<1>12. Tells(entry, t.edition, w, ToSet(todo))'
  <2>1. /\ st.seen \subseteq ToSet(notes[w]) \union lost[w]
        /\ w \notin cut /\ read[w] = t.edition =>
             st.offset <= Len(t.lines) /\ \A i \in 1 .. st.offset : t.lines[i] \in st.seen
    BY <1>1 DEF SavedTells, Tells
  <2>2. entry.seen \subseteq ToSet(notes'[w]) \union lost'[w] \union ToSet(todo)
    BY <1>1, <1>7, <2>1
  <2>3. ASSUME w \notin cut', NEW i \in 1 .. Len(t.lines) PROVE t.lines[i] \in entry.seen
    <3>1. CASE i > from
      BY <1>2, <1>6, <1>7, <3>1
    <3>2. CASE i <= from
      <4>1. from = st.offset /\ st.offset <= Len(t.lines) /\ st.path = t.path /\ 0 < st.offset
        BY <1>2, <1>3, <1>6, <3>2
      <4>2. read[w] = t.edition /\ w \notin cut
        BY <1>1, <2>3, <4>1
      <4>3. i \in 1 .. st.offset
        BY <1>2, <1>3, <3>2, <4>1
      <4>4. t.lines[i] \in st.seen
        BY <2>1, <4>2, <4>3
      <4>5. QED
        BY <1>7, <4>4
    <3>3. QED
      BY <1>2, <3>1, <3>2
  <2>4. entry.offset = Len(t.lines) /\ Len(t.lines) <= Len(t.lines) /\ t.edition <= t.edition
    BY <1>2, <1>7
  <2>5. todo' = todo /\ entry' = entry /\ t' = t
    BY <1>1 DEF todo, entry
  <2>6. QED
    BY <1>1, <2>2, <2>3, <2>4, <2>5 DEF Tells
<1>13. InHand(w)'
  <2>1. todo' = todo /\ entry' = entry /\ t' = t
    BY <1>1 DEF todo, entry
  <2>2. ASSUME NEW v \in Windows
        PROVE  Tells(m.state[v], m.read[v], v, IF v = w THEN ToSet(m.todo) ELSE {})'
    <3>1. CASE v = w
      BY <1>5, <1>9, <1>12, <2>1, <3>1 DEF Tells
    <3>2. CASE v # w
      <4>1. Tells(saved[v], read[v], v, {})'
        BY <1>11 DEF SavedTells
      <4>2. QED
        BY <1>1, <1>5, <1>9, <3>2, <4>1 DEF Tells
    <3>3. QED
      BY <3>1, <3>2
  <2>3. /\ m.state \in [Windows -> Entries] /\ m.read \in [Windows -> Nat] /\ m.todo \in Seq(Lines)
    BY <1>5, <1>6, <1>9
  <2>4. QED
    BY <1>10, <2>2, <2>3 DEF InHand, Tells
<1>14. Once(w)'
  <2>1. ASSUME ~Forgotten(w)
        PROVE  IsInjective(notes[w]) /\ ToSet(notes[w]) \subseteq st.seen
    BY <1>1, <2>1 DEF Once
  <2>2. m.state[w].seen = st.seen \union ToSet(m.todo) /\ m.todo = todo
    BY <1>5, <1>7, <1>9
  <2>3. QED
    BY <1>1, <1>6, <1>10, <2>1, <2>2 DEF Once, Forgotten
<1>15. QED
  BY <1>1, <1>10, <1>11, <1>13, <1>14, CapturingKeeps

LEMMA NoteLineKeeps ==
  ASSUME IInv, NEW w \in Windows, NoteLine(w)
  PROVE  IInv'
<1>1. /\ pc[w] = "noting" /\ mem[w].todo # <<>> /\ Typed /\ SavedTells /\ Once(w) /\ InHand(w)
      /\ UNCHANGED <<sessions, trail, work, transcripts, saved, read, forgot, cut, continuing,
                     used>>
  BY DEF NoteLine, Step, IInv
<1> DEFINE old  == mem[w].todo
           line == Head(old)
<1>2. /\ old \in Seq(Lines) /\ line \in Lines /\ Tail(old) \in Seq(Lines)
      /\ ToSet(old) = {line} \union ToSet(Tail(old))
      /\ IsInjective(old) => IsInjective(Tail(old)) /\ line \notin ToSet(Tail(old))
  <2>1. old \in Seq(Lines) /\ old # <<>>
    BY <1>1 DEF InHand
  <2>2. PICK s \in Seq(Lines) : s = old
    BY <2>1
  <2>3. QED
    BY <2>1, <2>2, OneTaken
<1>3. PICK m : m = [mem[w] EXCEPT !.todo = Tail(old)]
  OBVIOUS
<1>4. Goto(w, "noting", m)
  BY <1>3 DEF NoteLine, Step
<1> HIDE DEF line
<1>5. DOMAIN mem[w] = DOMAIN Idle
  BY <1>1 DEF Typed
<1>6. DOMAIN m = DOMAIN Idle /\ m.todo = Tail(old) /\ m.state = mem[w].state /\ m.read = mem[w].read
  BY <1>3, <1>5 DEF Idle
<1>7. /\ notes' \in [Windows -> Seq(Lines)] /\ lost' \in [Windows -> SUBSET Lines]
      /\ \A v \in Windows \ {w} : notes'[v] = notes[v] /\ lost'[v] = lost[v]
      /\ \/ notes'[w] = Append(notes[w], line) /\ lost'[w] = lost[w]
         \/ notes'[w] = notes[w] /\ lost'[w] = lost[w] \union {line}
  <2>1. notes[w] \in Seq(Lines) /\ lost[w] \subseteq Lines
    BY <1>1 DEF Typed
  <2>2. Append(notes[w], line) \in Seq(Lines)
    BY <1>2, <2>1, Appended
  <2>3. CASE notes' = [notes EXCEPT ![w] = Append(notes[w], line)] /\ lost' = lost
    BY <1>1, <2>1, <2>2, <2>3 DEF Typed
  <2>4. CASE lost' = [lost EXCEPT ![w] = lost[w] \union {line}] /\ notes' = notes
    BY <1>1, <1>2, <2>1, <2>4 DEF Typed
  <2>5. QED
    BY <2>3, <2>4 DEF NoteLine, line
<1>8. /\ ToSet(notes[w]) \subseteq ToSet(notes'[w]) /\ lost[w] \subseteq lost'[w]
      /\ line \in ToSet(notes'[w]) \union lost'[w]
      /\ ToSet(notes'[w]) \subseteq ToSet(notes[w]) \union {line}
  <2>1. notes[w] \in Seq(Lines)
    BY <1>1 DEF Typed
  <2>2. ToSet(Append(notes[w], line)) = ToSet(notes[w]) \union {line}
    BY <1>2, <2>1, Appended
  <2>3. QED
    BY <1>7, <2>2
<1>9. /\ Typed' /\ pc'[w] = "noting" /\ mem'[w] = m
      /\ \A v \in Windows \ {w} : pc'[v] = pc[v] /\ mem'[v] = mem[v]
  <2>1. saved' \in [Windows -> Entries] /\ read' \in [Windows -> Nat]
    BY <1>1 DEF Typed
  <2>2. QED
    BY <1>1, <1>4, <1>6, <1>7, <2>1, CapturingFits
<1>10. KeepTelling
  <2>1. \A v \in Windows : transcripts[v].edition \in Nat /\ Len(transcripts[v].lines) \in Nat
    BY <1>1, TranscriptFits
  <2>2. \A v \in Windows : ToSet(notes[v]) \subseteq ToSet(notes'[v]) /\ lost[v] \subseteq lost'[v]
    BY <1>7, <1>8
  <2>3. QED
    BY <1>1, <2>1, <2>2 DEF KeepTelling
<1>11. SavedTells'
  BY <1>1, <1>9, <1>10, SavedTellsStill
<1>12. InHand(w)'
  <2>1. ASSUME NEW v \in Windows
        PROVE  Tells(m.state[v], m.read[v], v, IF v = w THEN ToSet(m.todo) ELSE {})'
    <3> DEFINE before == IF v = w THEN ToSet(old) ELSE {}
    <3>1. mem[w].state[v] \in Entries /\ mem[w].read[v] \in Nat /\ before \in SUBSET Lines
      BY <1>1, <1>2 DEF InHand, ToSet
    <3>2. Tells(mem[w].state[v], mem[w].read[v], v, before)
      BY <1>1 DEF InHand
    <3>3. PICK e \in Entries, ed \in Nat, S \in SUBSET Lines :
            e = mem[w].state[v] /\ ed = mem[w].read[v] /\ S = before
      BY <3>1
    <3> HIDE DEF before
    <3>4. Tells(e, ed, v, S)'
      BY <1>1, <1>9, <1>10, <3>2, <3>3, TellsStill
    <3>5. S \subseteq ToSet(notes'[v]) \union lost'[v] \union (IF v = w THEN ToSet(m.todo) ELSE {})
      BY <1>2, <1>6, <1>8, <3>3 DEF before
    <3>6. e = m.state[v] /\ ed = m.read[v]
      BY <1>6, <3>3
    <3>7. QED
      BY <1>6, <1>9, <3>4, <3>5, <3>6 DEF Tells
  <2>2. /\ m.state \in [Windows -> Entries] /\ m.read \in [Windows -> Nat] /\ m.todo \in Seq(Lines)
    BY <1>1, <1>2, <1>6 DEF InHand
  <2>3. QED
    BY <1>6, <1>9, <2>1, <2>2 DEF InHand, Tells
<1>13. Once(w)'
  <2>1. SUFFICES ASSUME ~Forgotten(w)
                 PROVE  /\ IsInjective(notes'[w]) /\ IsInjective(m.todo)
                        /\ ToSet(notes'[w]) \intersect ToSet(m.todo) = {}
                        /\ ToSet(notes'[w]) \union ToSet(m.todo) \subseteq m.state[w].seen
    BY <1>1, <1>9 DEF Once, Forgotten
  <2>2. /\ IsInjective(notes[w]) /\ IsInjective(old) /\ ToSet(notes[w]) \intersect ToSet(old) = {}
        /\ ToSet(notes[w]) \union ToSet(old) \subseteq mem[w].state[w].seen
    BY <1>1, <2>1 DEF Once
  <2>3. IsInjective(notes'[w])
    <3>1. notes[w] \in Seq(Lines) /\ line \notin ToSet(notes[w])
      BY <1>1, <1>2, <2>2 DEF Typed
    <3>2. IsInjective(Append(notes[w], line))
      BY <1>2, <2>2, <3>1, AppendedInjective
    <3>3. QED
      BY <1>7, <2>2, <3>2
  <2>4. QED
    BY <1>2, <1>6, <1>8, <2>2, <2>3
<1>14. QED
  BY <1>1, <1>7, <1>9, <1>10, <1>11, <1>12, <1>13, CapturingKeeps

LEMMA SaveLogKeeps ==
  ASSUME IInv, NEW w \in Windows, SaveLog(w)
  PROVE  IInv'
<1> DEFINE state   == mem[w].state
           there   == [v \in Windows |-> transcripts[v].there]
           written == Pruned(state, w, there)
<1>1. /\ pc[w] = "noting" /\ mem[w].todo = <<>> /\ Typed /\ SavedTells /\ Once(w) /\ InHand(w)
      /\ UNCHANGED <<sessions, trail, work, transcripts, notes, lost, cut, continuing, used>>
      /\ \/ /\ saved' = written /\ read' = mem[w].read
            /\ forgot' = forgot \union {<<v, "overwritten">> :
                                          v \in {u \in Windows \ {w} : written[u] # saved[u]}}
         \/ /\ UNCHANGED <<saved, read>> /\ forgot' = forgot \union {<<w, "unsaved">>}
  BY DEF SaveLog, Step, IInv
<1>2. /\ state \in [Windows -> Entries] /\ mem[w].read \in [Windows -> Nat]
      /\ \A v \in Windows : Tells(state[v], mem[w].read[v], v, {})
  <2>1. ToSet(mem[w].todo) = {}
    BY <1>1 DEF ToSet
  <2>2. QED
    BY <1>1, <2>1 DEF InHand
<1>3. /\ written \in [Windows -> Entries] /\ written[w] = state[w]
      /\ \A v \in Windows : written[v] = state[v] \/ written[v] = Nothing
  <2>1. written = [s \in Windows |-> IF s = w \/ (state[s].path # NoPath /\ there[s])
                                     THEN state[s] ELSE Nothing]
    BY <1>2 DEF Pruned
  <2>2. Nothing \in Entries
    BY DEF Nothing, Entries, NoPath
  <2> HIDE DEF written, there
  <2>3. QED
    BY <1>2, <2>1, <2>2
<1> HIDE DEF written
<1>4. PICK m : m = mem[w]
  OBVIOUS
<1>5. PICK to \in {"noting", "stop", "idle"} : Goto(w, to, m) /\ to # "noting"
  BY <1>4 DEF SaveLog, Step
<1>6. DOMAIN m = DOMAIN Idle
  BY <1>4, <1>1 DEF Typed
<1>7. saved' \in [Windows -> Entries] /\ read' \in [Windows -> Nat]
  BY <1>1, <1>2, <1>3 DEF Typed
<1>8. /\ Typed' /\ pc'[w] = to
      /\ \A v \in Windows \ {w} : pc'[v] = pc[v] /\ mem'[v] = mem[v]
  <2>1. notes' \in [Windows -> Seq(Lines)] /\ lost' \in [Windows -> SUBSET Lines]
    BY <1>1 DEF Typed
  <2>2. QED
    BY <1>1, <1>5, <1>6, <1>7, <2>1, CapturingFits
<1>9. KeepTelling
  <2>1. \A v \in Windows : transcripts[v].edition \in Nat /\ Len(transcripts[v].lines) \in Nat
    BY <1>1, TranscriptFits
  <2>2. QED
    BY <1>1, <2>1 DEF KeepTelling
<1>10. SavedTells'
  <2>1. CASE UNCHANGED <<saved, read>>
    BY <1>1, <1>8, <1>9, <2>1, SavedTellsStill
  <2>2. CASE saved' = written /\ read' = mem[w].read
    <3>1. ASSUME NEW v \in Windows PROVE Tells(written[v], mem[w].read[v], v, {})
      <4>1. CASE written[v] = state[v]
        BY <1>2, <4>1
      <4>2. CASE written[v] = Nothing
        <5>1. written[v].seen = {} /\ written[v].offset = 0
          BY <4>2 DEF Nothing
        <5>2. mem[w].read[v] <= transcripts[v].edition /\ Len(transcripts[v].lines) \in Nat
          BY <1>1, <1>2, TranscriptFits DEF Tells
        <5>3. QED
          BY <5>1, <5>2 DEF Tells
      <4>3. QED
        BY <1>3, <4>1, <4>2
    <3>2. QED
      BY <1>1, <2>2, <3>1 DEF SavedTells, Tells
  <2>3. QED
    BY <1>1, <2>1, <2>2
<1>11. ASSUME NEW v \in Windows \ {w} PROVE saved'[v] = saved[v] \/ Forgotten(v)'
  BY <1>1 DEF Forgotten
<1>12. InHand(w)'
  BY <1>5, <1>8 DEF InHand
<1>13. Once(w)'
  <2>1. CASE forgot' = forgot \union {<<w, "unsaved">>}
    BY <2>1 DEF Once, Forgotten
  <2>2. CASE saved' = written /\ forgot \subseteq forgot'
    <3>1. ~Forgotten(w)' => ~Forgotten(w)
      BY <2>2 DEF Forgotten
    <3>2. ~Forgotten(w) => IsInjective(notes[w]) /\ ToSet(notes[w]) \subseteq state[w].seen
      BY <1>1 DEF Once
    <3>3. saved'[w] = state[w] /\ notes' = notes
      BY <1>1, <1>3, <2>2
    <3>4. QED
      BY <1>5, <1>8, <3>1, <3>2, <3>3 DEF Once
  <2>3. QED
    BY <1>1, <2>1, <2>2
<1>14. QED
  BY <1>1, <1>5, <1>8, <1>9, <1>10, <1>11, <1>12, <1>13, CapturingKeeps

LEMMA KillKeeps ==
  ASSUME IInv, NEW w \in Windows, Kill(w)
  PROVE  IInv'
<1>1. /\ Typed /\ SavedTells /\ forgot' = forgot \union {<<w, "unsaved">>}
      /\ UNCHANGED <<sessions, trail, work, transcripts, saved, read, notes, lost, cut, continuing,
                     used>>
  BY DEF Kill, IInv
<1>2. PICK m : m = mem[w]
  OBVIOUS
<1>3. Goto(w, "idle", m) /\ DOMAIN m = DOMAIN Idle
  BY <1>1, <1>2 DEF Kill, Typed
<1>4. /\ Typed' /\ pc'[w] = "idle"
      /\ \A v \in Windows \ {w} : pc'[v] = pc[v] /\ mem'[v] = mem[v]
  <2>1. /\ notes' \in [Windows -> Seq(Lines)] /\ lost' \in [Windows -> SUBSET Lines]
        /\ saved' \in [Windows -> Entries] /\ read' \in [Windows -> Nat]
    BY <1>1 DEF Typed
  <2>2. QED
    BY <1>1, <1>3, <2>1, CapturingFits
<1>5. KeepTelling
  <2>1. \A v \in Windows : transcripts[v].edition \in Nat /\ Len(transcripts[v].lines) \in Nat
    BY <1>1, TranscriptFits
  <2>2. QED
    BY <1>1, <2>1 DEF KeepTelling
<1>6. SavedTells'
  BY <1>1, <1>4, <1>5, SavedTellsStill
<1>7. InHand(w)' /\ Once(w)'
  BY <1>1, <1>4 DEF InHand, Once, Forgotten
<1>8. QED
  BY <1>1, <1>4, <1>5, <1>6, <1>7, CapturingKeeps

LEMMA HooksStep == IInv /\ [Next]_vars => IInv'
<1> SUFFICES ASSUME IInv, [Next]_vars PROVE IInv'
  OBVIOUS
<1>1. CASE Begin \/ End \/ Work
  BY <1>1, BeginKeeps, EndKeeps, WorkKeeps
<1>2. ASSUME NEW w \in Windows,
             \/ Submit(w) \/ JudgePolicy(w) \/ JudgeRole(w) \/ JudgeRules(w) \/ Deny(w)
             \/ Tell(w) \/ CannotDecide(w) \/ Run(w) \/ RecordToolUse(w)
      PROVE  IInv'
  BY <1>2, SubmitKeeps, JudgePolicyKeeps, JudgeRoleKeeps, JudgeRulesKeeps, TellKeeps,
     OtherCallStepsKeep
<1>3. ASSUME NEW w \in Windows,
             Transcript(w) \/ Capture(w) \/ NoteLine(w) \/ SaveLog(w) \/ Kill(w)
      PROVE  IInv'
  BY <1>3, TranscriptKeeps, CaptureKeeps, NoteLineKeeps, SaveLogKeeps, KillKeeps
<1>4. ASSUME NEW w \in Windows, StopReads(w) \/ StopHashes(w) \/ Continue(w)
      PROVE  IInv'
  BY <1>4, StopReadsKeeps, StopHashesKeeps, ContinueKeeps
<1>5. CASE UNCHANGED vars
  <2>1. UNCHANGED <<sessions, trail, work, capture, continuing, used, pc, mem>>
    BY <1>5 DEF vars
  <2>2. sessions' \in Seq(SessionRecords) /\ OneOpen' /\ Lasting
    BY <2>1, UnchangedLast DEF IInv, Typed, OneOpen
  <2>3. QED
    BY <2>1, <2>2, SessionsKeep
<1>6. QED
  BY <1>1, <1>2, <1>3, <1>4, <1>5 DEF Next

LEMMA HooksAlways == Spec => []IInv
BY HooksInitially, HooksStep, PTL DEF Spec

-----------------------------------------------------------------------------
(* What holds of the hooks.                                                *)

LEMMA TypesHold == IInv => TypeOK
<1> SUFFICES ASSUME IInv PROVE TypeOK
  OBVIOUS
<1>1. \A i \in DOMAIN sessions : sessions[i] \in SessionRecords
  BY DEF IInv, Typed
<1>2. \A i \in DOMAIN sessions : sessions[i].role \in SessionRoles /\ sessions[i].open \in BOOLEAN
  BY <1>1 DEF SessionRecords
<1>3. Cardinality(OpenSessions(sessions)) <= 1
  <2>1. CASE OpenSessions(sessions) = {}
    BY <2>1, FS_EmptySet
  <2>2. CASE \E i \in OpenSessions(sessions) : TRUE
    <3>1. PICK i : OpenSessions(sessions) = {i}
      BY <2>2 DEF IInv, OneOpen
    <3>2. QED
      BY <3>1, FS_Singleton
  <2>3. QED
    BY <2>1, <2>2
<1>4. QED
  BY <1>2, <1>3 DEF IInv, Typed, TypeOK

LEMMA RunningCallsObey ==
  ASSUME IInv, NEW w \in Windows, pc[w] \in {"allowed"}
  PROVE  LET m == mem[w]  p == sessions[m.since].policy IN
         /\ ~Forbidden(m.call)
         /\ m.call.subagent = "read_only" \/ (m.call.named = "read_only" /\ ~m.unread)
              => ~ChangesFiles(m.call)
         /\ m.since # 0 /\ m.since = Current =>
              /\ m.call.tool \notin p.denyTools
              /\ {m.call.path.asked, m.call.path.real} \intersect p.denyPaths = {}
              /\ p.allowPaths # {} /\ m.call.path.real # "none" => m.call.path.real \in p.allowPaths
              /\ sessions[m.since].role = "read_only" /\ m.call.named = "none" /\ ~m.unread
                   => ~ChangesFiles(m.call)
<1> DEFINE m == mem[w]
           p == sessions[m.since].policy
<1>1. /\ m.call \in CallRows /\ ~BlocksContent(m.call)
      /\ StillIn(m) => Allows(m.since, m.call)
      /\ ReadOnly(m) => ~BlocksReadOnly(m.call)
  BY DEF IInv, Judged, JudgedAt, Stage, Judging
<1>2. ~Forbidden(m.call)
  BY <1>1, LetThroughIsAllowed
<1>3. ReadOnly(m) => ~ChangesFiles(m.call)
  BY <1>1, ReadOnlyChangesNothing
<1>4. m.call.subagent = "read_only" \/ (m.call.named = "read_only" /\ ~m.unread)
              => ~ChangesFiles(m.call)
  BY <1>3 DEF ReadOnly
<1>5. ASSUME m.since # 0, m.since = Current
      PROVE  /\ m.call.tool \notin p.denyTools
             /\ {m.call.path.asked, m.call.path.real} \intersect p.denyPaths = {}
             /\ p.allowPaths # {} /\ m.call.path.real # "none" => m.call.path.real \in p.allowPaths
             /\ sessions[m.since].role = "read_only" /\ m.call.named = "none" /\ ~m.unread
                  => ~ChangesFiles(m.call)
  <2>1. StillIn(m)
    BY <1>5, CurrentIs DEF IInv, StillIn, OpenSessions
  <2>2. PolicyAllows(p, m.call.tool, m.call.path)
    BY <1>1, <2>1 DEF Allows
  <2>3. m.call.path \in Paths /\ (m.call.path.asked = "none" <=> m.call.path.real = "none")
    BY <1>1, CallFits DEF CallRows
  <2>4. p \in Policies
    <3>1. m.since \in DOMAIN sessions
      BY <1>5, HereStill
    <3>2. sessions[m.since] \in SessionRecords
      BY <3>1 DEF IInv, Typed
    <3>3. QED
      BY <3>2 DEF SessionRecords
  <2>5. p.denyPaths \subseteq PathKinds \ {"none"}
    BY <2>4 DEF Policies
  <2>6. /\ m.call.tool \notin p.denyTools
        /\ {m.call.path.asked, m.call.path.real} \intersect p.denyPaths = {}
        /\ p.allowPaths # {} /\ m.call.path.real # "none" => m.call.path.real \in p.allowPaths
    BY <2>2, <2>3, <2>5 DEF PolicyAllows
  <2>7. sessions[m.since].role = "read_only" /\ m.call.named = "none" /\ ~m.unread => ~ChangesFiles(m.call)
    BY <1>3, <2>1 DEF ReadOnly
  <2>8. QED
    BY <2>6, <2>7
<1>6. QED
  BY <1>2, <1>4, <1>5

\* A call that runs does nothing the content rules name, within the reach of their
\* tables, and obeys the session it was made in; a refusal is for what a command
\* does, whatever calls, policies and roles there are and whoever begins and ends
\* sessions between the guard's reads (guard.go: guardCheckTool).
THEOREM CallsStayJudged == Spec => []CallsAreJudgedTruly
<1>1. IInv => CallsAreJudgedTruly
  <2> SUFFICES ASSUME IInv PROVE CallsAreJudgedTruly
    OBVIOUS
  <2>1. CallsObey
    BY RunningCallsObey DEF CallsObey
  <2>2. DataIsNotRefused
    <3> SUFFICES ASSUME NEW w \in Windows, pc[w] = "deny", mem[w].why = "rules",
                        mem[w].call.tool = "Bash"
                 PROVE  Executes(mem[w].call.command) \/ mem[w].call.command.at > MaxDepth
      BY DEF DataIsNotRefused
    <3>1. mem[w].call \in CallRows /\ BlocksContent(mem[w].call)
      BY DEF IInv, Judged, JudgedAt, Stage, Judging
    <3>2. QED
      BY <3>1, BlockedIsExecuted
  <2>3. QED
    BY <2>1, <2>2, TypesHold DEF CallsAreJudgedTruly
<1>2. QED
  BY <1>1, HooksAlways, PTL

\* A line of a transcript is noted once, and none before the saved offset is left
\* out, over compactions, resumed, rewritten and deleted transcripts, hooks
\* killed at any point and hooks of other windows that write the same state file
\* (hook.go: captureMemoryLog).
THEOREM CaptureStaysFaithful == Spec => []CaptureIsFaithful
<1>1. IInv => CaptureIsFaithful
  <2> SUFFICES ASSUME IInv PROVE CaptureIsFaithful
    OBVIOUS
  <2>1. NotedOnce
    BY DEF IInv, Once, Forgotten, NotedOnce
  <2>2. ASSUME NEW w \in Windows \ cut, read[w] = transcripts[w].edition
        PROVE  /\ saved[w].offset <= Len(transcripts[w].lines)
               /\ ToSet(SubSeq(transcripts[w].lines, 1, saved[w].offset))
                    \subseteq ToSet(notes[w]) \union lost[w]
    <3> DEFINE t == transcripts[w].lines
               n == saved[w].offset
    <3>1. /\ n <= Len(t) /\ \A i \in 1 .. n : t[i] \in saved[w].seen
          /\ saved[w].seen \subseteq ToSet(notes[w]) \union lost[w]
      BY <2>2 DEF IInv, SavedTells, Tells
    <3>2. t \in Seq(Lines) /\ Len(t) \in Nat /\ n \in Nat
      <4>1. saved[w] \in Entries
        BY DEF IInv, Typed
      <4>2. QED
        BY <4>1, TranscriptFits DEF IInv, Entries
    <3>3. \A i \in DOMAIN SubSeq(t, 1, n) : i \in 1 .. n /\ SubSeq(t, 1, n)[i] = t[i]
      <4> HIDE DEF t, n
      <4>1. PICK s \in Seq(Lines), k \in Nat : s = t /\ k = n
        BY <3>2
      <4>2. \A i \in DOMAIN SubSeq(s, 1, k) : i \in 1 .. k /\ SubSeq(s, 1, k)[i] = s[i]
        BY <3>1, <4>1
      <4>3. QED
        BY <4>1, <4>2
    <3>4. \A x \in ToSet(SubSeq(t, 1, n)) : x \in saved[w].seen
      <4> HIDE DEF t, n
      <4>1. QED
        BY <3>1, <3>3 DEF ToSet
    <3>5. QED
      BY <3>1, <3>4
  <2>3. QED
    BY <2>1, <2>2 DEF CaptureIsFaithful, NothingSkipped
<1>2. QED
  BY <1>1, HooksAlways, PTL

\* A turn is held at most once in a row, and only for evidence the completion
\* gate would refuse: whatever the checks, the trees, and whoever edits the one
\* or records the others while the hook reads (hook_stop.go: staleCheckReason).
THEOREM HoldingStaysFounded == Spec => []HeldForStaleEvidence
<1>1. IInv => HeldForStaleEvidence
  <2> SUFFICES ASSUME IInv, NEW w \in Windows, pc[w] = "held"
               PROVE  /\ ~continuing[w]
                      /\ mem[w].now = tree /\ mem[w].passes = RunnerPasses(checks) =>
                           "stale" \in ProvenanceBlockers("high", checks, tree)
    BY DEF HeldForStaleEvidence
  <2>1. ~continuing[w] /\ mem[w].passes # {} /\ mem[w].now \notin mem[w].passes
    BY DEF IInv, Held
  <2>2. ASSUME mem[w].now = tree, mem[w].passes = RunnerPasses(checks)
        PROVE  "stale" \in ProvenanceBlockers("high", checks, tree)
    <3>1. PICK p \in RunnerPasses(checks) : TRUE
      BY <2>1, <2>2
    <3>2. p # NoTree /\ p # tree
      BY <2>1, <2>2, <3>1 DEF RunnerPasses
    <3>3. PICK c \in LatestChecks(checks) : c.status = "pass" /\ c.source = "runner" /\ c.tree = p
      BY <3>1 DEF RunnerPasses
    <3>4. TreeKnown(tree)
      BY HooksAssumption DEF IInv, Typed, TreeKnown
    <3>5. QED
      BY <3>2, <3>3, <3>4 DEF ProvenanceBlockers, HighRisk
  <2>3. QED
    BY <2>1, <2>2
<1>2. QED
  BY <1>1, HooksAlways, PTL

-----------------------------------------------------------------------------
(* The rows of a screen.                                                   *)

ItemsSorted(S) ==
    \E rows \in [1..Cardinality(S) -> S] :
        \A r, s \in DOMAIN rows : r < s => rows[r] < rows[s]

LEMMA LastItem ==
  ASSUME NEW n \in Nat, NEW S \in SUBSET (1..n), S # {}
  PROVE  \E i \in S : \A j \in S : j <= i
<1> DEFINE T == {n - i : i \in S}
           R == {ss \in Nat \X Nat : ss[1] < ss[2]}
<1>1. T \subseteq Nat /\ T # {}
  <2>1. \A i \in S : n - i \in Nat
    OBVIOUS
  <2>2. PICK i \in S : TRUE
    OBVIOUS
  <2>3. n - i \in T
    BY <2>2
  <2>4. QED
    BY <2>1, <2>3
<1>2. IsWellFoundedOn(R, Nat)
  BY NatLessThanWellFounded DEF OpToRel
<1>3. PICK x \in T : \A y \in T : ~(<<y, x>> \in R)
  <2> HIDE DEF T, R
  <2>1. QED
    BY <1>1, <1>2, WFMin
<1>4. PICK i \in S : x = n - i
  BY <1>3
<1>5. \A j \in S : ~(n - j < n - i)
  BY <1>1, <1>3, <1>4
<1>6. QED
  BY <1>5

LEMMA ItemsAreFinite ==
  ASSUME NEW S \in SUBSET Items
  PROVE  IsFiniteSet(S) /\ Cardinality(S) \in Nat /\ Cardinality(S) <= ItemCount
<1>1. IsFiniteSet(Items) /\ Cardinality(Items) = ItemCount
  BY FS_Interval, ItemCountIsNat DEF Items
<1>2. IsFiniteSet(S) /\ Cardinality(S) <= Cardinality(Items)
  BY <1>1, FS_Subset
<1>3. Cardinality(S) \in Nat
  BY <1>2, FS_CardinalityType
<1>4. QED
  BY <1>1, <1>2, <1>3

\* The rows but the last, in order, and then the last.
LEMMA OneMoreSorted ==
  ASSUME NEW S \in SUBSET Items, NEW x \in S, \A j \in S : j <= x, ItemsSorted(S \ {x})
  PROVE  ItemsSorted(S)
<1> DEFINE n == Cardinality(S)
           R == S \ {x}
<1>1. IsFiniteSet(S) /\ n \in Nat /\ R \in SUBSET Items
  BY ItemsAreFinite
<1>2. Cardinality(R) = n - 1
  BY <1>1, FS_RemoveElement
<1>3. Cardinality(R) \in Nat
  BY <1>1, ItemsAreFinite
<1>4. PICK f \in [1..(n - 1) -> R] : \A r, s \in DOMAIN f : r < s => f[r] < f[s]
  BY <1>2 DEF ItemsSorted
<1> DEFINE g == [r \in 1..n |-> IF r = n THEN x ELSE f[r]]
<1> HIDE DEF n
<1>5. g \in [1..n -> S]
  <2>1. \A r \in 1..n : r # n => r \in 1..(n - 1)
    BY <1>1
  <2>2. \A r \in 1..n : (IF r = n THEN x ELSE f[r]) \in S
    BY <2>1
  <2>3. QED
    BY <2>2
<1>6. \A r, s \in 1..n : r < s => g[r] < g[s]
  <2> SUFFICES ASSUME NEW r \in 1..n, NEW s \in 1..n, r < s PROVE g[r] < g[s]
    OBVIOUS
  <2>1. r \in 1..(n - 1) /\ g[r] = f[r] /\ f[r] \in R
    BY <1>1
  <2>2. CASE s = n
    <3>1. g[s] = x /\ f[r] # x /\ f[r] <= x
      BY <2>1, <2>2
    <3>2. f[r] \in Items /\ x \in Items
      BY <2>1
    <3>3. f[r] \in Int /\ x \in Int
      BY <3>2, ItemCountIsNat DEF Items
    <3>4. QED
      BY <2>1, <3>1, <3>3
  <2>3. CASE s # n
    <3>1. s \in 1..(n - 1) /\ g[s] = f[s]
      BY <1>1, <2>3
    <3>2. QED
      BY <1>4, <2>1, <3>1
  <2>4. QED
    BY <2>2, <2>3
<1>7. DOMAIN g = 1..n
  OBVIOUS
<1>8. \E rows \in [1..n -> S] : \A r, s \in DOMAIN rows : r < s => rows[r] < rows[s]
  <2> HIDE DEF g
  <2>1. QED
    BY <1>5, <1>6, <1>7
<1>9. QED
  BY <1>8 DEF ItemsSorted, n

LEMMA EveryItemsSorted ==
  ASSUME NEW S \in SUBSET Items
  PROVE  ItemsSorted(S)
<1> DEFINE T == {n \in Nat : \E A \in SUBSET Items : Cardinality(A) = n /\ ~ItemsSorted(A)}
           R == {ss \in Nat \X Nat : ss[1] < ss[2]}
<1>1. SUFFICES ASSUME T # {} PROVE FALSE
  <2>1. Cardinality(S) \in Nat
    BY ItemsAreFinite
  <2>2. ~ItemsSorted(S) => Cardinality(S) \in T
    BY <2>1
  <2>3. QED
    BY <1>1, <2>2
<1>2. IsWellFoundedOn(R, Nat)
  BY NatLessThanWellFounded DEF OpToRel
<1>3. PICK n \in T : \A k \in T : ~(<<k, n>> \in R)
  <2>1. T \subseteq Nat
    OBVIOUS
  <2> HIDE DEF T, R
  <2>2. QED
    BY <1>1, <1>2, <2>1, WFMin
<1>4. PICK A \in SUBSET Items : Cardinality(A) = n /\ ~ItemsSorted(A)
  BY <1>3
<1>5. n \in Nat /\ IsFiniteSet(A)
  BY <1>3, ItemsAreFinite
<1>6. A # {}
  <2>1. SUFFICES ASSUME A = {} PROVE FALSE
    OBVIOUS
  <2>2. Cardinality(A) = 0
    BY <2>1, FS_EmptySet
  <2> DEFINE f == [r \in 1..0 |-> 0]
  <2>3. f \in [1..Cardinality(A) -> A] /\ DOMAIN f = {}
    BY <2>2
  <2>4. ItemsSorted(A)
    BY <2>3 DEF ItemsSorted
  <2>5. QED
    BY <1>4, <2>4
<1>7. PICK x \in A : \A j \in A : j <= x
  BY <1>6, ItemCountIsNat, LastItem DEF Items
<1>8. A \ {x} \in SUBSET Items /\ Cardinality(A \ {x}) = n - 1
  BY <1>4, <1>5, FS_RemoveElement
<1>9. n - 1 \in Nat
  BY <1>5, <1>8, ItemsAreFinite
<1>10. ItemsSorted(A \ {x})
  <2>1. SUFFICES ASSUME ~ItemsSorted(A \ {x}) PROVE FALSE
    OBVIOUS
  <2>2. n - 1 \in T
    BY <1>8, <1>9, <2>1
  <2>3. <<n - 1, n>> \in R
    BY <1>5, <1>9
  <2>4. QED
    BY <1>3, <2>2, <2>3
<1>11. QED
  BY <1>4, <1>7, <1>10, OneMoreSorted

\* A list of items, each at most once.
RowLists == {rows \in Seq(Items) : Len(rows) <= ItemCount}

LEMMA InOrderIsRows ==
  ASSUME NEW S \in SUBSET Items
  PROVE  InOrder(S) \in RowLists
<1> DEFINE n == Cardinality(S)
<1>1. n \in Nat /\ n <= ItemCount
  BY ItemsAreFinite
<1>2. \E rows \in [1..n -> S] : \A r, s \in DOMAIN rows : r < s => rows[r] < rows[s]
  BY EveryItemsSorted DEF ItemsSorted
<1>3. InOrder(S) \in [1..n -> S]
  BY <1>2 DEF InOrder
<1>4. InOrder(S) \in Seq(Items) /\ Len(InOrder(S)) = n
  <2> HIDE DEF n
  <2>1. InOrder(S) \in [1..n -> Items]
    BY <1>3
  <2>2. QED
    BY <1>1, <2>1
<1>5. QED
  BY <1>1, <1>4 DEF RowLists

LEMMA RowsAreLists ==
  ASSUME NEW t, NEW taken, NEW wide
  PROVE  Rows(t, taken, wide) \in RowLists
<1>1. << >> \in RowLists
  BY ItemCountIsNat DEF RowLists
<1>2. \A S \in SUBSET Items : InOrder(S) \in RowLists
  BY InOrderIsRows
<1>3. TaskRows(family.kinds, taken, t \in wide) \in RowLists
  BY <1>2 DEF TaskRows
<1>4. ReviewRows(family.kinds, taken) \in RowLists
  BY <1>2 DEF ReviewRows
<1>5. SpecTreeRows(family.kinds) \in RowLists
  BY <1>2 DEF SpecTreeRows
<1>6. MemoryRows(family.kinds, taken, t \in wide) \in RowLists
  BY <1>2 DEF MemoryRows
<1>7. QED
  BY <1>1, <1>3, <1>4, <1>5, <1>6 DEF Rows, OverviewRows, TrailRows

LEMMA ItemAtIsItem ==
  ASSUME NEW rows \in RowLists, NEW row
  PROVE  ItemAt(rows, row) \in 0..ItemCount
BY ItemCountIsNat DEF RowLists, ItemAt, Items

Cursors == 1..(ItemCount + 1)

LEMMA KeptIsCursor ==
  ASSUME NEW t, NEW old \in RowLists, NEW new \in RowLists, NEW row \in Cursors
  PROVE  Kept(t, old, new, row) \in Cursors
<1>1. Len(new) \in Nat /\ Len(new) <= ItemCount /\ DOMAIN new = 1..Len(new)
  BY DEF RowLists
<1>2. \A item \in Range(new) : IndexIn(new, item) \in Cursors
  <2>1. \A item \in Range(new) : IndexIn(new, item) \in DOMAIN new
    BY DEF IndexIn, Range
  <2>2. QED
    BY <1>1, <2>1, ItemCountIsNat DEF Cursors
<1>3. Lesser(row, LastRow(new)) \in Cursors
  <2>1. CASE new = <<>>
    BY <2>1, ItemCountIsNat DEF Lesser, LastRow, Cursors
  <2>2. CASE new # <<>>
    <3>1. Len(new) >= 1
      BY <1>1, <2>2 DEF RowLists
    <3>2. QED
      BY <1>1, <2>2, <3>1, ItemCountIsNat DEF Lesser, LastRow, Cursors
  <2>3. QED
    BY <2>1, <2>2
<1>4. 1 \in Cursors
  BY ItemCountIsNat DEF Cursors
<1>5. KeptOnReview(old, new, row) \in Cursors
  BY <1>2, <1>3 DEF KeptOnReview
<1>6. KeptOnTasks(old, new, row) \in Cursors
  BY <1>2, <1>4 DEF KeptOnTasks
<1>7. KeptInPlace(old, new, row) \in Cursors
  BY <1>3 DEF KeptInPlace
<1>8. QED
  BY <1>5, <1>6, <1>7 DEF Kept

-----------------------------------------------------------------------------
(* What the handlers make of the shell's record.                           *)

Readings == [kind : {"none", "tick", "reload"}, next : 1..(Len(family.tabs) + 1),
             version : 0..MaxCommits]

UIs == [phase : Phases, mode : Modes, active : Shown, version : 0..MaxCommits,
        stale : SUBSET Shown, blind : SUBSET Shown,
        read : [Shown -> [Items -> Statuses]], at : [Shown -> 0..MaxCommits],
        wide : SUBSET Shown, row : [Shown -> 1..(ItemCount + 1)],
        prompt : [Shown -> Prompts], searching : BOOLEAN, detail : 0..ItemCount,
        reading : Readings]

Stores == [status : [Items -> Statuses], commits : 0..MaxCommits]

\* Nothing a person sees of the shell, but rows and cursors, is other than it was.
SameFace(u, v) ==
    /\ v.phase = u.phase /\ v.mode = u.mode /\ v.active = u.active
    /\ v.prompt = u.prompt /\ v.searching = u.searching /\ v.detail = u.detail

\* A screen that counts as up to date is as it was or was just read.
Fresher(u, v) ==
    /\ v.version = u.version /\ v.reading = u.reading
    /\ \A t \in Shown : t \notin v.stale \union v.blind =>
         \/ t \notin u.stale \union u.blind /\ v.at[t] = u.at[t]
         \/ v.at[t] = store.commits

Reread(u, t, status, commits, r) ==
    [u EXCEPT !.read[t] = status, !.at[t] = commits, !.blind = @ \ {t}, !.row[t] = r]

LEMMA RereadIs ==
  ASSUME NEW u \in UIs, NEW t \in Shown, NEW status \in [Items -> Statuses],
         NEW commits \in 0..MaxCommits, NEW r \in 1..(ItemCount + 1)
  PROVE  LET v == Reread(u, t, status, commits, r) IN
         /\ v \in UIs /\ SameFace(u, v)
         /\ v.version = u.version /\ v.reading = u.reading
         /\ v.stale = u.stale /\ v.blind = u.blind \ {t} /\ v.wide = u.wide
         /\ v.at = [u.at EXCEPT ![t] = commits]
         /\ v.read = [u.read EXCEPT ![t] = status]
<1> DEFINE taken == [u.read EXCEPT ![t] = status]
           at == [u.at EXCEPT ![t] = commits]
           row == [u.row EXCEPT ![t] = r]
           v == Reread(u, t, status, commits, r)
<1>1. /\ u.read \in [Shown -> [Items -> Statuses]] /\ u.at \in [Shown -> 0..MaxCommits]
      /\ u.row \in [Shown -> 1..(ItemCount + 1)]
  BY DEF UIs
<1>2. /\ taken \in [Shown -> [Items -> Statuses]] /\ at \in [Shown -> 0..MaxCommits]
      /\ row \in [Shown -> 1..(ItemCount + 1)] /\ u.blind \ {t} \in SUBSET Shown
  BY <1>1 DEF UIs
<1>3. v = [u EXCEPT !.read = taken, !.at = at, !.blind = u.blind \ {t}, !.row = row]
  BY DEF UIs, Reread
<1> HIDE DEF taken, at, row, v
<1>4. v \in UIs
  BY <1>2, <1>3 DEF UIs
<1>5. SameFace(u, v)
  BY <1>3 DEF UIs, SameFace
<1>6. /\ v.version = u.version /\ v.reading = u.reading
      /\ v.stale = u.stale /\ v.blind = u.blind \ {t}
      /\ v.wide = u.wide /\ v.at = at /\ v.read = taken
  BY <1>3 DEF UIs
<1>7. QED
  BY <1>4, <1>5, <1>6 DEF at, taken, v

LEMMA LoadIs ==
  ASSUME store \in Stores, NEW u \in UIs, NEW t \in Shown
  PROVE  /\ Load(u, t) \in UIs
         /\ SameFace(u, Load(u, t))
         /\ Load(u, t).version = u.version /\ Load(u, t).reading = u.reading
         /\ Load(u, t).stale = u.stale /\ Load(u, t).blind = u.blind \ {t}
         /\ Load(u, t).wide = u.wide
         /\ Load(u, t).at = [u.at EXCEPT ![t] = store.commits]
         /\ Load(u, t).read = [u.read EXCEPT ![t] = store.status]
<1> DEFINE r == Kept(t, Rows(t, u.read[t], u.wide), Rows(t, store.status, u.wide), u.row[t])
<1>1. r \in 1..(ItemCount + 1)
  <2>1. u.row[t] \in Cursors
    BY DEF UIs, Cursors
  <2>2. Kept(t, Rows(t, u.read[t], u.wide), Rows(t, store.status, u.wide), u.row[t]) \in Cursors
    BY <2>1, RowsAreLists, KeptIsCursor
  <2>3. QED
    BY <2>2 DEF Cursors
<1>2. Load(u, t) = [u EXCEPT !.read[t] = store.status, !.at[t] = store.commits,
                             !.blind = @ \ {t}, !.row[t] = r]
  BY DEF Load
<1>3. store.status \in [Items -> Statuses] /\ store.commits \in 0..MaxCommits
  BY DEF Stores
<1> HIDE DEF r
<1> DEFINE v == Reread(u, t, store.status, store.commits, r)
<1>4. /\ v \in UIs /\ SameFace(u, v) /\ v.version = u.version /\ v.reading = u.reading
      /\ v.stale = u.stale /\ v.blind = u.blind \ {t} /\ v.wide = u.wide
      /\ v.at = [u.at EXCEPT ![t] = store.commits]
      /\ v.read = [u.read EXCEPT ![t] = store.status]
  BY <1>1, <1>3, RereadIs
<1>5. Load(u, t) = v
  BY <1>2 DEF Reread
<1> HIDE DEF v
<1>6. QED
  BY <1>4, <1>5

LEMMA LoadFresher ==
  ASSUME store \in Stores, NEW u \in UIs, NEW t \in Shown
  PROVE  Fresher(u, Load(u, t))
<1>1. u.at \in [Shown -> 0..MaxCommits]
  BY DEF UIs
<1> DEFINE v == Load(u, t)
<1>2. /\ v.version = u.version /\ v.reading = u.reading /\ v.stale = u.stale
      /\ v.blind = u.blind \ {t} /\ v.at = [u.at EXCEPT ![t] = store.commits]
  BY LoadIs
<1> HIDE DEF v
<1>3. \A s \in Shown : v.at[s] = IF s = t THEN store.commits ELSE u.at[s]
  BY <1>1, <1>2
<1>4. Fresher(u, v)
  BY <1>2, <1>3 DEF Fresher
<1>5. QED
  BY <1>4 DEF v

LEMMA FailedIs ==
  ASSUME NEW u \in UIs, NEW t \in Shown
  PROVE  /\ Failed(u, t) \in UIs /\ SameFace(u, Failed(u, t)) /\ Fresher(u, Failed(u, t))
         /\ Failed(u, t).read = u.read /\ t \in Failed(u, t).blind
         /\ Failed(u, t).stale = u.stale
<1> DEFINE v == Failed(u, t)
<1>1. v \in UIs /\ SameFace(u, v)
  BY DEF Failed, UIs, SameFace
<1>2. /\ v.version = u.version /\ v.reading = u.reading /\ v.at = u.at /\ v.read = u.read
      /\ v.stale = u.stale /\ v.blind = u.blind \union {t}
  BY DEF Failed, UIs
<1> HIDE DEF v
<1>3. Fresher(u, v)
  BY <1>2 DEF Fresher
<1>4. QED
  BY <1>1, <1>2, <1>3 DEF v

\* A screen a run has let go: read again, or not.
LEMMA EndedScreen ==
  ASSUME store \in Stores, NEW u \in UIs, NEW t, t = u.active,
         NEW v, v \in {Load(u, t), Failed(u, t)}
  PROVE  v \in UIs /\ SameFace(u, v) /\ Fresher(u, v)
<1>1. t \in Shown
  BY DEF UIs
<1>2. CASE v = Load(u, t)
  BY <1>1, <1>2, LoadIs, LoadFresher
<1>3. CASE v = Failed(u, t)
  BY <1>1, <1>3, FailedIs
<1>4. QED
  BY <1>2, <1>3

\* What rereading may come to.
LEMMA FreshIs ==
  ASSUME store \in Stores, NEW u \in UIs, NEW v \in Fresh(u)
  PROVE  /\ v \in UIs /\ SameFace(u, v) /\ Fresher(u, v)
         /\ Capturing(u, u.active) => v.read = u.read
<1>1. u.active \in Shown
  BY DEF UIs
<1>2. CASE ~MayReread(u)
  <2>1. v = u
    BY <1>2 DEF Fresh
  <2>2. QED
    BY <2>1 DEF SameFace, Fresher
<1>3. CASE MayReread(u)
  <2> DEFINE w == Load(u, u.active)
  <2>1. w \in UIs /\ SameFace(u, w) /\ Fresher(u, w) /\ w.stale = u.stale /\ w.at[u.active] = store.commits
    <3>1. u.at \in [Shown -> 0..MaxCommits]
      BY DEF UIs
    <3>2. QED
      BY <1>1, <3>1, LoadIs, LoadFresher
  <2>2. ~Capturing(u, u.active)
    BY <1>3 DEF MayReread
  <2>3. \/ v = [w EXCEPT !.stale = @ \ {u.active}]
        \/ v = [Failed(u, u.active) EXCEPT !.stale = @ \ {u.active}]
    BY <1>3 DEF Fresh
  <2> HIDE DEF w
  <2>4. CASE v = [w EXCEPT !.stale = @ \ {u.active}]
    <3>1. v \in UIs
      BY <2>1, <2>4 DEF UIs
    <3>2. SameFace(u, v)
      BY <2>1, <2>4 DEF UIs, SameFace
    <3>3. v.version = w.version /\ v.reading = w.reading /\ v.blind = w.blind /\ v.at = w.at
          /\ v.stale = w.stale \ {u.active}
      BY <2>1, <2>4 DEF UIs
    <3>4. Fresher(u, v)
      BY <2>1, <3>3 DEF Fresher
    <3>5. QED
      BY <2>2, <3>1, <3>2, <3>4
  <2>5. CASE v = [Failed(u, u.active) EXCEPT !.stale = @ \ {u.active}]
    <3>a. v = [u EXCEPT !.stale = @ \ {u.active}, !.blind = @ \union {u.active}]
      BY <2>5 DEF Failed, UIs
    <3>1. v \in UIs
      BY <1>1, <3>a DEF UIs
    <3>2. SameFace(u, v)
      BY <3>a DEF UIs, SameFace
    <3>3. v.version = u.version /\ v.reading = u.reading /\ v.at = u.at
          /\ v.stale = u.stale \ {u.active} /\ v.blind = u.blind \union {u.active}
      BY <3>a DEF UIs
    <3>4. Fresher(u, v)
      BY <3>3 DEF Fresher
    <3>5. QED
      BY <2>2, <3>1, <3>2, <3>4
  <2>6. QED
    BY <2>3, <2>4, <2>5
<1>4. QED
  BY <1>2, <1>3

LEMMA ShowIs ==
  ASSUME store \in Stores, NEW u \in UIs, NEW t \in Shown, NEW v \in Show(u, t)
  PROVE  /\ v \in UIs /\ Fresher(u, v)
         /\ v.phase = u.phase /\ v.prompt = u.prompt /\ v.searching = u.searching
         /\ v.detail = u.detail /\ v.mode = "normal" /\ v.active = t
<1> DEFINE w == [u EXCEPT !.active = t, !.mode = "normal"]
<1>1. w \in UIs
  BY DEF UIs, Modes
<1>2. /\ w.phase = u.phase /\ w.prompt = u.prompt /\ w.searching = u.searching
      /\ w.detail = u.detail /\ w.mode = "normal" /\ w.active = t
      /\ w.version = u.version /\ w.reading = u.reading /\ w.at = u.at
      /\ w.stale = u.stale /\ w.blind = u.blind
  BY DEF UIs
<1>3. v \in Fresh(w)
  BY DEF Show
<1> HIDE DEF w
<1>4. v \in UIs /\ SameFace(w, v) /\ Fresher(w, v)
  BY <1>1, <1>3, FreshIs
<1>5. Fresher(u, v)
  BY <1>2, <1>4 DEF Fresher
<1>6. QED
  BY <1>2, <1>4, <1>5 DEF SameFace

LEMMA ReloadIs ==
  ASSUME family \in Setups, store \in Stores, NEW u \in UIs
  PROVE  LET v == Reload(u) IN
         /\ v \in UIs
         /\ v.phase = u.phase /\ v.prompt = u.prompt /\ v.searching = u.searching
         /\ v.detail = u.detail /\ v.mode = "normal" /\ v.active = u.active
         /\ v.version = u.version /\ v.at = u.at /\ v.stale = u.stale /\ v.blind = u.blind
         /\ v.reading.next = 1 /\ v.reading.version = store.commits
<1> DEFINE n == [kind |-> "reload", next |-> 1, version |-> store.commits]
<1>1. family.tabs \in Seq(Tabs)
  BY SetupsAreSettings DEF Settings
<1>2. 1 \in 1..(Len(family.tabs) + 1)
  BY <1>1
<1>3. n \in Readings
  BY <1>2 DEF Readings, Stores
<1>4. n.next = 1 /\ n.version = store.commits
  OBVIOUS
<1>5. Reload(u) = [u EXCEPT !.mode = "normal", !.reading = n]
  BY DEF Reload
<1> HIDE DEF n
<1>6. Reload(u) \in UIs
  BY <1>3, <1>5 DEF UIs, Modes
<1>7. QED
  BY <1>4, <1>5, <1>6 DEF UIs

-----------------------------------------------------------------------------
(* The inductive invariant.                                                *)

Sent(k) == Message(k, "", 0) \in inbox

\* A reload has given every screen it passed at least the commits it will note.
Follows ==
    /\ ui.version <= store.commits /\ ui.reading.version <= store.commits
    /\ ui.reading.kind = "reload" =>
         \A k \in 1..(ui.reading.next - 1) : ui.at[family.tabs[k]] >= ui.reading.version

\* What can be asked on a screen, and what does not run while it is.
AskedHere(t, p) ==
    /\ p.act = "check" => t = "tasks"
    /\ p.act = "start" => t = "orchestrator"
    /\ p.act = "seal" => t = "audit"
    /\ p.act \in {"approve", "reject", "edit"} => t \in {"tasks", "review", "specs", "memory"}
    /\ t = "orchestrator" => ~orch.stream.on
    /\ t = "tasks" => ~check.on
    /\ (t = "tasks" /\ ~family.ahead) => p.item = ui.detail /\ p.item # 0

Prompted == \A t \in Shown : ui.prompt[t] # NoPrompt => AskedHere(t, ui.prompt[t])

\* t has the keyboard, and nothing is under way that would take it.
Alone(t) ==
    /\ ui.active = t /\ ui.mode = "normal" /\ ui.reading.kind # "reload"
    /\ NothingQuick

Holding ==
    ~family.ahead =>
      /\ \A t \in Shown : ui.prompt[t] # NoPrompt => Alone(t)
      /\ ui.searching \/ check.on => Alone("tasks")
      /\ orch.stream.on => Alone("orchestrator")
      /\ ui.searching => ui.detail = 0

OpensAreShown == \A m \in inbox : m.kind \in {"open", "row"} => "tasks" \in Shown

\* A run's message on its way is the one its chain has sent, and the lines are
\* shown, counted, held or on their way.
Flows(s, line, end) ==
    /\ s.on <=> s.chain # "none"
    /\ ~s.on => ~s.open
    /\ line \/ end => s.chain = "sent"
    /\ ~(line /\ end)
    /\ s.chain = "sent" => line \/ end
    /\ end => s.held = 0 /\ ~s.open
    /\ s.written >= s.shown + s.dropped + s.held
    /\ s.chain # "lost" =>
         s.written = s.shown + s.dropped + s.held + (IF line THEN 1 ELSE 0)

Flowing == Flows(check, Sent("line"), Sent("end")) /\ Flows(orch.stream, Sent("oline"), Sent("oend"))

SInv ==
    /\ ScreensAgree /\ RunsAreKept
    /\ Follows /\ Prompted /\ Holding /\ OpensAreShown /\ Flowing

LEMMA TypedParts ==
  ASSUME ShellTypeOK
  PROVE  /\ family \in Setups /\ store \in Stores /\ ui \in UIs
         /\ inbox \subseteq Messages /\ check \in Streams
         /\ orch \in [stream : Streams, proc : Procs]
         /\ ui.reading \in Readings /\ Len(family.tabs) \in Nat
<1>1. family \in Setups
  BY DEF ShellTypeOK
<1>2. family.tabs \in Seq(Tabs)
  BY <1>1, SetupsAreSettings DEF Settings
<1>3. ui \in UIs
  BY DEF ShellTypeOK, UIs, Readings
<1>4. ui.reading \in Readings
  BY <1>3 DEF UIs
<1>5. QED
  BY <1>1, <1>2, <1>3, <1>4 DEF ShellTypeOK, Stores

LEMMA TypeOfParts ==
  ASSUME family \in Setups, family' = family, store' \in Stores, ui' \in UIs,
         inbox' \subseteq Messages, check' \in Streams,
         orch' \in [stream : Streams, proc : Procs],
         asked' \in [act : Acts \union {"none"}, named : 0..ItemCount, on : 0..ItemCount]
  PROVE  ShellTypeOK'
<1>1. UIs' = UIs /\ Messages' = Messages
  <2>1. Shown' = Shown
    BY DEF Shown
  <2>2. Readings' = Readings
    BY DEF Readings
  <2>3. QED
    BY <2>1, <2>2 DEF UIs, Messages
<1>2. (ui \in UIs)' /\ (store \in Stores)' /\ (inbox \subseteq Messages)'
  BY <1>1
<1>3. QED
  BY <1>2 DEF ShellTypeOK, UIs, Readings, Stores

-----------------------------------------------------------------------------
(* What stays, by what an action leaves alone.                             *)

LEMMA FollowsKept ==
  ASSUME SInv, ui.reading = NoReading, Fresher(ui, ui'), family' = family,
         store'.commits = store.commits
  PROVE  FollowsTheStore' /\ Follows'
<1>1. /\ ui \in UIs /\ store \in Stores /\ FollowsTheStore /\ Follows /\ Shown' = Shown
  BY TypedParts DEF SInv, ScreensAgree, Shown
<1>2. /\ ui.version \in Int /\ store.commits \in Int /\ \A t \in Shown : ui.at[t] \in Int
      /\ store.commits >= ui.version /\ ui'.version = ui.version
  BY <1>1 DEF UIs, Stores, Follows, Fresher
<1>3. ASSUME NEW t \in Shown \ (ui'.stale \union ui'.blind)
      PROVE  ui'.at[t] >= ui'.version
  <2>1. \/ t \notin ui.stale \union ui.blind /\ ui'.at[t] = ui.at[t]
        \/ ui'.at[t] = store.commits
    BY <1>3 DEF Fresher
  <2>2. CASE t \notin ui.stale \union ui.blind /\ ui'.at[t] = ui.at[t]
    BY <1>1, <1>2, <2>2 DEF FollowsTheStore
  <2>3. CASE ui'.at[t] = store.commits
    BY <1>2, <2>3
  <2>4. QED
    BY <2>1, <2>2, <2>3
<1>4. FollowsTheStore'
  BY <1>1, <1>3 DEF FollowsTheStore
<1>5. ui'.reading = ui.reading
  BY DEF Fresher
<1>6. Follows'
  BY <1>1, <1>2, <1>5 DEF Follows, NoReading
<1>7. QED
  BY <1>4, <1>6

LEMMA FollowsStill ==
  ASSUME SInv, ui'.version = ui.version, ui'.stale = ui.stale, ui'.blind = ui.blind,
         ui'.at = ui.at, ui'.reading = ui.reading, family' = family,
         store' \in Stores, store'.commits >= store.commits
  PROVE  FollowsTheStore' /\ Follows'
<1>1. /\ ui \in UIs /\ store \in Stores /\ FollowsTheStore /\ Follows /\ Shown' = Shown
      /\ ui.reading \in Readings
  BY TypedParts DEF SInv, ScreensAgree, Shown
<1>2. /\ ui.version \in Int /\ store.commits \in Int /\ ui.reading.version \in Int /\ store'.commits \in Int
  BY <1>1 DEF UIs, Stores, Readings
<1>3. FollowsTheStore'
  BY <1>1 DEF FollowsTheStore
<1>4. Follows'
  BY <1>1, <1>2 DEF Follows
<1>5. QED
  BY <1>3, <1>4

LEMMA PromptedStill ==
  ASSUME Prompted, family' = family, ui'.prompt = ui.prompt, ui'.detail = ui.detail,
         check'.on => check.on, orch'.stream.on => orch.stream.on
  PROVE  Prompted'
BY DEF Prompted, AskedHere, Shown

LEMMA HoldingStill ==
  ASSUME Holding, family' = family, ui'.prompt = ui.prompt, ui'.detail = ui.detail,
         ui'.searching = ui.searching, ui'.active = ui.active, ui'.mode = ui.mode,
         ui'.reading.kind = "reload" => ui.reading.kind = "reload",
         NothingQuick => NothingQuick',
         check'.on => check.on, orch'.stream.on => orch.stream.on
  PROVE  Holding'
BY DEF Holding, Alone, Shown

\* Nothing has the keyboard but the shell.
Free ==
    /\ \A t \in Shown : ui.prompt[t] = NoPrompt
    /\ ~ui.searching /\ ~check.on /\ ~orch.stream.on

LEMMA FreeBy ==
  ASSUME SInv, ~family.ahead,
         ui.mode # "normal" \/ ~NothingQuick \/ ~Capturing(ui, ui.active)
  PROVE  Free
<1>1. Holding /\ ui.active \in Shown
  BY DEF SInv, ScreensAgree, ShellTypeOK
<1>2. CASE ui.mode # "normal" \/ ~NothingQuick
  BY <1>1, <1>2 DEF Holding, Alone, Free
<1>3. CASE ~Capturing(ui, ui.active)
  BY <1>1, <1>3 DEF Holding, Alone, Free, Capturing
<1>4. QED
  BY <1>2, <1>3

LEMMA HoldingFree ==
  ASSUME ~family.ahead => Free, family' = family, ui'.prompt = ui.prompt,
         ui'.searching = ui.searching, check'.on = check.on, orch'.stream.on = orch.stream.on
  PROVE  Holding'
BY DEF Holding, Free, Shown

LEMMA SentOrNot ==
  ASSUME NEW k
  PROVE  Sent(k) \in BOOLEAN
BY SMT DEF Sent

LEMMA FlowingStill ==
  ASSUME Flowing, check' = check, orch'.stream = orch.stream,
         \A k \in {"line", "end", "oline", "oend"} :
            Message(k, "", 0) \in inbox' <=> Message(k, "", 0) \in inbox
  PROVE  Flowing'
<1>1. /\ Sent("line")' <=> Sent("line")
      /\ Sent("end")' <=> Sent("end")
      /\ Sent("oline")' <=> Sent("oline")
      /\ Sent("oend")' <=> Sent("oend")
  BY DEF Sent
<1>2. QED
  BY <1>1 DEF Flowing, Flows

\* An action that only changes the shell's record.
LEMMA ShellOnly ==
  ASSUME SInv, UNCHANGED <<family, store, inbox, check, orch, asked>>, ui' \in UIs,
         ui'.phase = "left" =>
           ui.phase = "left" \/ orch.proc \notin {"running", "interrupted"},
         FollowsTheStore', Follows', Prompted', Holding'
  PROVE  SInv'
<1>1. /\ family \in Setups /\ store \in Stores
      /\ inbox \subseteq Messages /\ check \in Streams
      /\ orch \in [stream : Streams, proc : Procs]
      /\ asked \in [act : Acts \union {"none"}, named : 0..ItemCount, on : 0..ItemCount]
  BY TypedParts DEF SInv, ScreensAgree, ShellTypeOK
<1>2. ShellTypeOK'
  BY <1>1, TypeOfParts
<1>3. ActsAsNamed'
  BY DEF SInv, ScreensAgree, ActsAsNamed
<1>4. RunsAreKept'
  BY DEF SInv, RunsAreKept, RunsAreHeard, NoRunOutlivesTheScreen
<1>5. OpensAreShown'
  BY DEF SInv, OpensAreShown, Shown
<1>6. Flowing'
  BY FlowingStill DEF SInv
<1>7. QED
  BY <1>2, <1>3, <1>4, <1>5, <1>6 DEF SInv, ScreensAgree

-----------------------------------------------------------------------------
(* A run's output, step by step.                                           *)

LEMMA StreamFields ==
  ASSUME NEW s \in Streams
  PROVE  /\ s.on \in BOOLEAN /\ s.open \in BOOLEAN /\ s.chain \in Chains
         /\ s.held \in Nat /\ s.held <= LineCap
         /\ s.dropped \in Nat /\ s.dropped <= MaxLines
         /\ s.written \in Nat /\ s.written <= MaxLines
         /\ s.shown \in Nat /\ s.shown <= MaxLines
BY StreamBounds DEF Streams

LEMMA StartedFlows ==
  /\ Started \in Streams /\ Flows(Started, FALSE, FALSE) /\ Started.on
  /\ Started.chain # "lost"
<1>1. NoStream \in Streams
  BY StreamBounds DEF NoStream, Streams, Chains, Outcomes
<1>2. Started \in Streams
  BY <1>1 DEF Started, Streams, Chains
<1>3. /\ Started.on /\ Started.open /\ Started.chain = "waiting" /\ Started.held = 0
      /\ Started.dropped = 0 /\ Started.written = 0 /\ Started.shown = 0
  BY DEF Started, NoStream
<1>4. QED
  BY <1>2, <1>3 DEF Flows

LEMMA NoStreamFlows ==
  NoStream \in Streams /\ Flows(NoStream, FALSE, FALSE) /\ ~NoStream.on
BY StreamBounds DEF NoStream, Streams, Flows, Chains, Outcomes

LEMMA SendFlows ==
  ASSUME NEW s \in Streams, NEW line \in BOOLEAN, NEW end \in BOOLEAN,
         MayWrite(s), Flows(s, line, end)
  PROVE  /\ Send(s) \in Streams /\ Flows(Send(s), line, end)
         /\ Send(s).on = s.on /\ Send(s).chain = s.chain
<1>1. s.open /\ ~end /\ s.written + 1 \in 0..MaxLines
  BY StreamFields, StreamBounds DEF MayWrite, Flows
<1>2. CASE s.held < LineCap
  <2> DEFINE v == [s EXCEPT !.written = @ + 1, !.held = @ + 1]
  <2>1. s.held + 1 \in 0..LineCap
    BY <1>2, StreamFields, StreamBounds
  <2>2. v \in Streams
    BY <1>1, <2>1 DEF Streams
  <2>3. /\ v.written = s.written + 1 /\ v.held = s.held + 1 /\ v.on = s.on /\ v.open = s.open
        /\ v.chain = s.chain /\ v.dropped = s.dropped /\ v.shown = s.shown
    BY DEF Streams
  <2> HIDE DEF v
  <2>4. Flows(v, line, end)
    BY <1>1, <2>3, StreamFields DEF Flows
  <2>5. QED
    BY <1>2, <2>2, <2>3, <2>4 DEF Send, v
<1>3. CASE ~(s.held < LineCap)
  <2> DEFINE v == [s EXCEPT !.written = @ + 1, !.dropped = @ + 1]
  <2>1. s.dropped + 1 \in 0..MaxLines
    BY <1>1, StreamFields, StreamBounds DEF Flows
  <2>2. v \in Streams
    BY <1>1, <2>1 DEF Streams
  <2>3. /\ v.written = s.written + 1 /\ v.dropped = s.dropped + 1 /\ v.on = s.on /\ v.open = s.open
        /\ v.chain = s.chain /\ v.held = s.held /\ v.shown = s.shown
    BY DEF Streams
  <2> HIDE DEF v
  <2>4. Flows(v, line, end)
    BY <1>1, <2>3, StreamFields DEF Flows
  <2>5. QED
    BY <1>3, <2>2, <2>3, <2>4 DEF Send, v
<1>4. QED
  BY <1>2, <1>3

LEMMA CloseFlows ==
  ASSUME NEW s \in Streams, NEW line \in BOOLEAN, NEW end \in BOOLEAN, Flows(s, line, end),
         NEW o \in Outcomes
  PROVE  /\ Close(s, o) \in Streams /\ Flows(Close(s, o), line, end)
         /\ Close(s, o).on = s.on /\ Close(s, o).chain = s.chain
<1>1. Close(s, o) \in Streams
  BY DEF Close, Streams
<1>2. /\ Close(s, o).on = s.on /\ ~Close(s, o).open /\ Close(s, o).chain = s.chain /\ Close(s, o).held = s.held
      /\ Close(s, o).written = s.written /\ Close(s, o).shown = s.shown /\ Close(s, o).dropped = s.dropped
  BY DEF Close, Streams
<1>3. Flows(Close(s, o), line, end)
  BY <1>2 DEF Flows
<1>4. QED
  BY <1>1, <1>2, <1>3

LEMMA NextFlows ==
  ASSUME NEW s \in Streams, NEW line \in BOOLEAN, NEW end \in BOOLEAN, Flows(s, line, end)
  PROVE  /\ NextLine(s) =>
              /\ ~line /\ ~end /\ TakeLine(s) \in Streams /\ Flows(TakeLine(s), TRUE, FALSE)
              /\ TakeLine(s).on = s.on /\ TakeLine(s).chain # "lost"
         /\ NextEnd(s) =>
              /\ ~line /\ ~end /\ TakeEnd(s) \in Streams /\ Flows(TakeEnd(s), FALSE, TRUE)
              /\ TakeEnd(s).on = s.on /\ TakeEnd(s).chain # "lost"
<1>1. ASSUME NextLine(s)
      PROVE  /\ ~line /\ ~end /\ TakeLine(s) \in Streams /\ Flows(TakeLine(s), TRUE, FALSE)
             /\ TakeLine(s).on = s.on /\ TakeLine(s).chain # "lost"
  <2> DEFINE v == TakeLine(s)
  <2>1. ~line /\ ~end /\ s.chain = "waiting" /\ s.held > 0
    BY <1>1 DEF NextLine, Flows
  <2>2. s.held - 1 \in 0..LineCap
    BY <2>1, StreamFields, StreamBounds
  <2>3. v \in Streams
    BY <2>2 DEF TakeLine, Streams, Chains
  <2>4. /\ v.written = s.written /\ v.held = s.held - 1 /\ v.on = s.on /\ v.open = s.open
        /\ v.chain = "sent" /\ v.dropped = s.dropped /\ v.shown = s.shown
    BY DEF TakeLine, Streams
  <2> HIDE DEF v
  <2>5. Flows(v, TRUE, FALSE)
    BY <2>1, <2>4, StreamFields DEF Flows
  <2>6. QED
    BY <2>1, <2>3, <2>4, <2>5 DEF v
<1>2. ASSUME NextEnd(s)
      PROVE  /\ ~line /\ ~end /\ TakeEnd(s) \in Streams /\ Flows(TakeEnd(s), FALSE, TRUE)
             /\ TakeEnd(s).on = s.on /\ TakeEnd(s).chain # "lost"
  <2> DEFINE v == TakeEnd(s)
  <2>1. ~line /\ ~end /\ s.chain = "waiting" /\ s.held = 0 /\ ~s.open
    BY <1>2 DEF NextEnd, Flows
  <2>2. v \in Streams
    BY DEF TakeEnd, Streams, Chains
  <2>3. /\ v.written = s.written /\ v.held = s.held /\ v.on = s.on /\ v.open = s.open
        /\ v.chain = "sent" /\ v.dropped = s.dropped /\ v.shown = s.shown
    BY DEF TakeEnd, Streams
  <2> HIDE DEF v
  <2>4. Flows(v, FALSE, TRUE)
    BY <2>1, <2>3, StreamFields DEF Flows
  <2>5. QED
    BY <2>1, <2>2, <2>3, <2>4 DEF v
<1>3. QED
  BY <1>1, <1>2

LEMMA ShowLineFlows ==
  ASSUME NEW s \in Streams, Flows(s, TRUE, FALSE)
  PROVE  /\ ShowLine(s) \in Streams /\ Flows(ShowLine(s), FALSE, FALSE)
         /\ ShowLine(s).on = s.on /\ ShowLine(s).chain # "lost"
<1> DEFINE v == ShowLine(s)
<1>1. s.chain = "sent" /\ s.written = s.shown + s.dropped + s.held + 1
  BY DEF Flows
<1>2. s.shown + 1 \in 0..MaxLines
  BY <1>1, StreamFields, StreamBounds
<1>3. v \in Streams
  BY <1>2 DEF ShowLine, Streams, Chains
<1>4. /\ v.written = s.written /\ v.held = s.held /\ v.on = s.on /\ v.open = s.open
      /\ v.chain = "waiting" /\ v.dropped = s.dropped /\ v.shown = s.shown + 1
  BY DEF ShowLine, Streams
<1> HIDE DEF v
<1>5. Flows(v, FALSE, FALSE)
  BY <1>1, <1>4, StreamFields DEF Flows
<1>6. QED
  BY <1>3, <1>4, <1>5 DEF v

LEMMA UnheardFlows ==
  ASSUME NEW s \in Streams, NEW line \in BOOLEAN, NEW end \in BOOLEAN, Flows(s, line, end),
         line \/ end
  PROVE  /\ Unheard(s) \in Streams /\ Flows(Unheard(s), FALSE, FALSE)
         /\ Unheard(s).on = s.on
<1> DEFINE v == Unheard(s)
<1>1. s.chain = "sent"
  BY DEF Flows
<1>2. v \in Streams
  BY DEF Unheard, Streams, Chains
<1>3. /\ v.written = s.written /\ v.held = s.held /\ v.on = s.on /\ v.open = s.open
      /\ v.chain = "lost" /\ v.dropped = s.dropped /\ v.shown = s.shown
  BY DEF Unheard, Streams
<1> HIDE DEF v
<1>4. Flows(v, FALSE, FALSE)
  BY <1>1, <1>3, StreamFields DEF Flows
<1>5. QED
  BY <1>2, <1>3, <1>4 DEF v

\* The end comes after the last line: nothing is held or on its way.
LEMMA EndFlows ==
  ASSUME NEW s \in Streams, Flows(s, FALSE, TRUE), NEW told \in 0..MaxLines
  PROVE  /\ LetGo(s, told) \in Streams /\ Flows(LetGo(s, told), FALSE, FALSE)
         /\ ~LetGo(s, told).on /\ LetGo(s, told).chain # "lost"
         /\ LetGo(s, told).told = told /\ Accounted(s)
<1> DEFINE v == LetGo(s, told)
<1>1. s.chain = "sent" /\ s.held = 0 /\ ~s.open
  BY DEF Flows
<1>2. v \in Streams
  BY NoStreamFlows DEF LetGo, Streams
<1>3. /\ v.written = 0 /\ v.held = 0 /\ ~v.on /\ ~v.open /\ v.told = told
      /\ v.chain = "none" /\ v.dropped = 0 /\ v.shown = 0
  BY DEF LetGo, NoStream
<1> HIDE DEF v
<1>4. Flows(v, FALSE, FALSE)
  BY <1>3 DEF Flows
<1>5. Accounted(s)
  BY <1>1, StreamFields DEF Flows, Accounted
<1>6. QED
  BY <1>2, <1>3, <1>4, <1>5 DEF v

-----------------------------------------------------------------------------
(* The initial state, and what runs beside the loop.                       *)

LEMMA SInvInit ==
  ShellInit => SInv
<1> SUFFICES ASSUME ShellInit PROVE SInv
  OBVIOUS
<1>1. /\ family \in Setups /\ family.tabs \in Seq(Tabs) /\ family.tabs # <<>>
      /\ MaxCommits \in Nat
  BY SetupsAreSettings DEF ShellInit, Settings
<1>2. family.tabs[1] \in Shown /\ Len(family.tabs) \in Nat /\ 1 \in 1..(Len(family.tabs) + 1)
  BY <1>1 DEF Shown
<1>3. store \in Stores
  BY <1>1 DEF ShellInit, Stores, Statuses
<1>4. ui = [phase |-> "up", mode |-> "normal", active |-> family.tabs[1],
            version |-> 0, stale |-> {}, blind |-> {},
            read |-> [t \in Shown |-> store.status], at |-> [t \in Shown |-> 0],
            wide |-> {}, row |-> [t \in Shown |-> 1],
            prompt |-> [t \in Shown |-> NoPrompt],
            searching |-> FALSE, detail |-> 0, reading |-> NoReading]
  BY DEF ShellInit, Shown
<1>5. NoReading \in Readings
  BY <1>1, <1>2 DEF NoReading, Readings
<1>6. ui \in UIs
  <2>1. /\ [t \in Shown |-> store.status] \in [Shown -> [Items -> Statuses]]
        /\ [t \in Shown |-> 0] \in [Shown -> 0..MaxCommits]
        /\ [t \in Shown |-> 1] \in [Shown -> 1..(ItemCount + 1)]
        /\ [t \in Shown |-> NoPrompt] \in [Shown -> Prompts]
    BY <1>1, <1>3, ItemCountIsNat DEF Stores, Prompts
  <2>2. 0 \in 0..MaxCommits /\ 0 \in 0..ItemCount
    BY <1>1, ItemCountIsNat
  <2>3. QED
    BY <1>2, <1>4, <1>5, <2>1, <2>2 DEF UIs, Phases, Modes
<1>7. ShellTypeOK
  <2>1. /\ inbox \subseteq Messages /\ check \in Streams
        /\ orch \in [stream : Streams, proc : Procs]
        /\ asked \in [act : Acts \union {"none"}, named : 0..ItemCount, on : 0..ItemCount]
    BY NoStreamFlows, ItemCountIsNat DEF ShellInit, Procs
  <2>2. QED
    BY <1>1, <1>3, <1>6, <2>1 DEF ShellTypeOK, UIs, Readings, Stores
<1>8. ScreensAgree
  <2>1. ActsAsNamed
    BY DEF ShellInit, ActsAsNamed
  <2>2. FollowsTheStore
    BY <1>4 DEF FollowsTheStore
  <2>3. QED
    BY <1>7, <2>1, <2>2 DEF ScreensAgree
<1>9. RunsAreKept
  BY <1>4 DEF ShellInit, NoStream, RunsAreKept, RunsAreHeard, NoRunOutlivesTheScreen
<1>10. Follows
  BY <1>4 DEF Follows, NoReading, ShellInit
<1>11. Prompted
  BY <1>4 DEF Prompted
<1>12. Holding
  BY <1>4 DEF ShellInit, Holding, NoStream
<1>13. OpensAreShown
  BY DEF ShellInit, OpensAreShown
<1>14. Flowing
  BY NoStreamFlows DEF ShellInit, Flowing, Sent, Flows
<1>15. QED
  BY <1>8, <1>9, <1>10, <1>11, <1>12, <1>13, <1>14 DEF SInv

\* An action beside the loop: it leaves the screens alone, writes output, commits,
\* and may send a run's message.
LEMMA Beside ==
  ASSUME SInv, UNCHANGED <<family, ui, asked>>, store' \in Stores,
         store'.commits >= store.commits,
         inbox' \subseteq Messages, \A m \in inbox' \ inbox : m.kind \notin QuickKinds,
         check' \in Streams, orch' \in [stream : Streams, proc : Procs],
         check'.on = check.on, orch'.stream.on = orch.stream.on,
         check'.chain = "lost" => check.chain = "lost",
         orch'.stream.chain = "lost" => orch.stream.chain = "lost",
         orch'.proc \in {"running", "interrupted"} => orch.proc \in {"running", "interrupted"},
         Flowing'
  PROVE  SInv'
<1>1. /\ family \in Setups /\ ui \in UIs /\ ui' = ui
      /\ asked' \in [act : Acts \union {"none"}, named : 0..ItemCount, on : 0..ItemCount]
  BY TypedParts DEF SInv, ScreensAgree, ShellTypeOK
<1>2. ShellTypeOK'
  BY <1>1, TypeOfParts
<1>3. FollowsTheStore' /\ Follows'
  BY FollowsStill
<1>4. ActsAsNamed'
  BY DEF SInv, ScreensAgree, ActsAsNamed
<1>5. RunsAreKept'
  BY DEF SInv, RunsAreKept, RunsAreHeard, NoRunOutlivesTheScreen
<1>6. Prompted'
  BY PromptedStill DEF SInv
<1>7. NothingQuick => NothingQuick'
  BY DEF NothingQuick
<1>8. Holding'
  BY <1>7, HoldingStill DEF SInv
<1>9. OpensAreShown'
  BY DEF SInv, OpensAreShown, Shown, QuickKinds
<1>10. QED
  BY <1>2, <1>3, <1>4, <1>5, <1>6, <1>8, <1>9 DEF SInv, ScreensAgree

LEMMA CommitKeeps ==
  ASSUME SInv, Commit
  PROVE  SInv'
<1>1. /\ store \in Stores /\ family \in Setups /\ inbox \subseteq Messages
      /\ check \in Streams /\ orch \in [stream : Streams, proc : Procs]
  BY TypedParts DEF SInv, ScreensAgree
<1>2. family.commits \in 0..MaxCommits
  BY <1>1, SetupsAreSettings DEF Settings
<1>3. store.commits + 1 \in 0..MaxCommits /\ store.commits + 1 >= store.commits
  <2>1. store.commits \in Nat /\ store.commits < family.commits
    BY <1>1 DEF Commit, Stores
  <2>2. MaxCommits \in Nat
    BY SetupsAreSettings
  <2>3. QED
    BY <1>2, <2>1, <2>2
<1>4. PICK i \in Items, s \in Statuses :
        store' = [status |-> [store.status EXCEPT ![i] = s], commits |-> store.commits + 1]
  BY DEF Commit
<1>5. [store.status EXCEPT ![i] = s] \in [Items -> Statuses]
  BY <1>1 DEF Stores
<1>6. store' \in Stores /\ store'.commits >= store.commits
  BY <1>3, <1>4, <1>5 DEF Stores
<1>7. Flowing'
  BY FlowingStill DEF SInv, Commit
<1>8. QED
  BY <1>1, <1>6, <1>7, Beside DEF Commit

LEMMA CheckOutputKeeps ==
  ASSUME SInv, CheckWrites \/ CheckEnds \/ CheckReports
  PROVE  SInv'
<1> DEFINE line == Sent("line")
           end  == Sent("end")
<1>1. /\ store \in Stores /\ store.commits >= store.commits /\ inbox \subseteq Messages
      /\ check \in Streams /\ orch \in [stream : Streams, proc : Procs]
  BY TypedParts DEF SInv, ScreensAgree, Stores
<1>2. Flows(check, line, end) /\ Flows(orch.stream, Sent("oline"), Sent("oend"))
      /\ line \in BOOLEAN /\ end \in BOOLEAN
  BY SentOrNot DEF SInv, Flowing
<1>3. /\ UNCHANGED <<family, ui, asked, store, orch>>
  BY DEF CheckWrites, CheckEnds, CheckReports
<1>4. CASE CheckWrites \/ CheckEnds
  <2>1. /\ inbox' = inbox /\ Sent("line")' = line /\ Sent("end")' = end
        /\ Sent("oline")' = Sent("oline") /\ Sent("oend")' = Sent("oend")
    BY <1>4 DEF CheckWrites, CheckEnds, Sent
  <2>2. /\ check' \in Streams /\ check'.on = check.on /\ check'.chain = check.chain
        /\ Flows(check', line, end)
    <3>1. CASE CheckWrites
      BY <1>1, <1>2, <3>1, SendFlows DEF CheckWrites
    <3>2. CASE CheckEnds
      <4>1. PICK o \in Outcomes : check' = Close(check, o)
        BY <3>2 DEF CheckEnds
      <4>2. QED
        BY <1>1, <1>2, <4>1, CloseFlows
    <3>3. QED
      BY <1>4, <3>1, <3>2
  <2>3. Flowing'
    BY <1>2, <1>3, <2>1, <2>2 DEF Flowing
  <2>4. QED
    BY <1>1, <1>3, <2>1, <2>2, <2>3, Beside
<1>5. CASE CheckReports
  <2>1. PICK k \in {"line", "end"} :
          /\ inbox' = inbox \union {Message(k, "", 0)}
          /\ ~line /\ ~end /\ check' \in Streams /\ check'.on = check.on /\ check'.chain # "lost"
          /\ Flows(check', k = "line", k = "end")
    BY <1>1, <1>2, <1>5, NextFlows DEF CheckReports
  <2>2. /\ Sent("line")' <=> (k = "line")
        /\ Sent("end")' <=> (k = "end")
        /\ Sent("oline")' <=> Sent("oline")
        /\ Sent("oend")' <=> Sent("oend")
    BY <2>1 DEF Sent, Message
  <2>3. Flowing'
    BY <1>2, <1>3, <2>1, <2>2 DEF Flowing, Flows
  <2>4. inbox' \subseteq Messages /\ \A m \in inbox' \ inbox : m.kind \notin QuickKinds
    <3>1. Message(k, "", 0) \in Messages
      BY <2>1 DEF Messages
    <3>2. Message(k, "", 0).kind = k
      BY DEF Message
    <3>3. QED
      BY <1>1, <2>1, <3>1, <3>2 DEF QuickKinds
  <2>5. QED
    BY <1>1, <1>3, <2>1, <2>3, <2>4, Beside
<1>6. QED
  BY <1>4, <1>5

LEMMA OrchOutputKeeps ==
  ASSUME SInv, OrchWrites \/ OrchEnds \/ OrchReports
  PROVE  SInv'
<1> DEFINE line == Sent("oline")
           end  == Sent("oend")
           s == orch.stream
<1>1. /\ store \in Stores /\ store.commits >= store.commits /\ inbox \subseteq Messages
      /\ check \in Streams /\ orch \in [stream : Streams, proc : Procs] /\ s \in Streams
  BY TypedParts DEF SInv, ScreensAgree, Stores
<1>2. Flows(s, line, end) /\ Flows(check, Sent("line"), Sent("end"))
      /\ line \in BOOLEAN /\ end \in BOOLEAN
  BY SentOrNot DEF SInv, Flowing
<1>3. /\ UNCHANGED <<family, ui, asked, store, check>>
  BY DEF OrchWrites, OrchEnds, OrchReports
<1>4. CASE OrchWrites \/ OrchEnds
  <2>1. /\ inbox' = inbox /\ Sent("oline")' = line /\ Sent("oend")' = end
        /\ Sent("line")' = Sent("line") /\ Sent("end")' = Sent("end")
    BY <1>4 DEF OrchWrites, OrchEnds, Sent
  <2>2. \/ MayWrite(s) /\ orch' = [stream |-> Send(s), proc |-> orch.proc]
        \/ orch' = [stream |-> Close(s, "none"), proc |-> "ended"]
    BY <1>1, <1>4 DEF OrchWrites, OrchEnds
  <2>3. /\ orch' \in [stream : Streams, proc : Procs]
        /\ orch'.stream.on = s.on /\ orch'.stream.chain = s.chain
        /\ orch'.proc \in {"running", "interrupted"} => orch.proc \in {"running", "interrupted"}
        /\ Flows(orch'.stream, line, end)
    BY <1>1, <1>2, <2>2, SendFlows, CloseFlows DEF Procs, Outcomes
  <2>4. Flowing'
    BY <1>2, <1>3, <2>1, <2>3 DEF Flowing
  <2>5. QED
    BY <1>1, <1>3, <2>1, <2>3, <2>4, Beside
<1>5. CASE OrchReports
  <2>1. PICK k \in {"oline", "oend"} :
          /\ inbox' = inbox \union {Message(k, "", 0)}
          /\ \/ k = "oline" /\ NextLine(s) /\ orch' = [stream |-> TakeLine(s), proc |-> orch.proc]
             \/ k = "oend" /\ NextEnd(s) /\ orch' = [stream |-> TakeEnd(s), proc |-> orch.proc]
    BY <1>1, <1>5 DEF OrchReports
  <2>2. /\ ~line /\ ~end /\ orch' \in [stream : Streams, proc : Procs] /\ orch'.proc = orch.proc
        /\ orch'.stream.on = s.on /\ orch'.stream.chain # "lost"
        /\ Flows(orch'.stream, k = "oline", k = "oend")
    <3>1. CASE k = "oline" /\ NextLine(s) /\ orch' = [stream |-> TakeLine(s), proc |-> orch.proc]
      <4>1. /\ ~line /\ ~end /\ TakeLine(s) \in Streams /\ Flows(TakeLine(s), TRUE, FALSE)
            /\ TakeLine(s).on = s.on /\ TakeLine(s).chain # "lost"
        BY <1>1, <1>2, <3>1, NextFlows
      <4>2. orch'.stream = TakeLine(s) /\ orch'.proc = orch.proc
            /\ orch' \in [stream : Streams, proc : Procs]
        BY <1>1, <3>1, <4>1
      <4>3. QED
        BY <3>1, <4>1, <4>2 DEF Flows
    <3>2. CASE k = "oend" /\ NextEnd(s) /\ orch' = [stream |-> TakeEnd(s), proc |-> orch.proc]
      <4>1. /\ ~line /\ ~end /\ TakeEnd(s) \in Streams /\ Flows(TakeEnd(s), FALSE, TRUE)
            /\ TakeEnd(s).on = s.on /\ TakeEnd(s).chain # "lost"
        BY <1>1, <1>2, <3>2, NextFlows
      <4>2. orch'.stream = TakeEnd(s) /\ orch'.proc = orch.proc
            /\ orch' \in [stream : Streams, proc : Procs]
        BY <1>1, <3>2, <4>1
      <4>3. QED
        BY <3>2, <4>1, <4>2 DEF Flows
    <3>3. QED
      BY <2>1, <3>1, <3>2
  <2>3. /\ Sent("oline")' <=> (k = "oline")
        /\ Sent("oend")' <=> (k = "oend")
        /\ Sent("line")' <=> Sent("line")
        /\ Sent("end")' <=> Sent("end")
    BY <2>1, <2>2 DEF Sent, Message
  <2>4. Flowing'
    BY <1>2, <1>3, <2>2, <2>3 DEF Flowing, Flows
  <2>5. inbox' \subseteq Messages /\ \A m \in inbox' \ inbox : m.kind \notin QuickKinds
    <3>1. Message(k, "", 0) \in Messages
      BY <2>1 DEF Messages
    <3>2. Message(k, "", 0).kind = k
      BY DEF Message
    <3>3. QED
      BY <1>1, <2>1, <3>1, <3>2 DEF QuickKinds
  <2>6. QED
    BY <1>1, <1>3, <2>2, <2>4, <2>5, Beside
<1>6. QED
  BY <1>4, <1>5

-----------------------------------------------------------------------------
(* Reading again.                                                          *)

LEMMA ShowPart ==
  ASSUME SInv, ui.reading = NoReading, ~family.ahead => Free,
         UNCHANGED <<family, store, check, orch>>,
         NEW t \in Shown, ui' \in Show(ui, t)
  PROVE  /\ ui' \in UIs /\ ui'.phase = ui.phase
         /\ FollowsTheStore' /\ Follows' /\ Prompted' /\ Holding'
<1>1. store \in Stores /\ ui \in UIs
  BY TypedParts DEF SInv, ScreensAgree
<1>2. /\ ui' \in UIs /\ Fresher(ui, ui')
      /\ ui'.phase = ui.phase /\ ui'.prompt = ui.prompt /\ ui'.searching = ui.searching
      /\ ui'.detail = ui.detail
  BY <1>1, ShowIs
<1>3. FollowsTheStore' /\ Follows'
  BY <1>2, FollowsKept
<1>4. Prompted'
  BY <1>2, PromptedStill DEF SInv
<1>5. Holding'
  BY <1>2, HoldingFree
<1>6. QED
  BY <1>2, <1>3, <1>4, <1>5

LEMMA ReloadPart ==
  ASSUME SInv, ui.reading = NoReading, ~family.ahead => Free,
         UNCHANGED <<family, store, check, orch>>, ui' = Reload(ui)
  PROVE  /\ ui' \in UIs /\ ui'.phase = ui.phase
         /\ FollowsTheStore' /\ Follows' /\ Prompted' /\ Holding'
<1>1. store \in Stores /\ ui \in UIs /\ family \in Setups
  BY TypedParts DEF SInv, ScreensAgree
<1>2. /\ ui' \in UIs
      /\ ui'.phase = ui.phase /\ ui'.prompt = ui.prompt /\ ui'.searching = ui.searching
      /\ ui'.detail = ui.detail
      /\ ui'.version = ui.version /\ ui'.at = ui.at /\ ui'.stale = ui.stale /\ ui'.blind = ui.blind
      /\ ui'.reading.next = 1 /\ ui'.reading.version = store.commits
  BY <1>1, ReloadIs
<1>3. FollowsTheStore'
  BY <1>2 DEF SInv, ScreensAgree, FollowsTheStore, Shown
<1>4. Follows'
  <2>1. store.commits \in Int /\ ui.version <= store.commits
    BY <1>1 DEF Stores, SInv, Follows
  <2>2. \A k \in 1..(1 - 1) : FALSE
    OBVIOUS
  <2>3. QED
    BY <1>2, <2>1, <2>2 DEF Follows
<1>5. Prompted'
  BY <1>2, PromptedStill DEF SInv
<1>6. Holding'
  BY <1>2, HoldingFree
<1>7. QED
  BY <1>2, <1>3, <1>4, <1>5, <1>6

LEMMA TickKeeps ==
  ASSUME SInv, Tick
  PROVE  SInv'
<1>1. /\ store \in Stores /\ ui \in UIs /\ family \in Setups /\ Shown' = Shown
      /\ store.commits \in 0..MaxCommits /\ Len(family.tabs) \in Nat
      /\ UNCHANGED <<family, store, inbox, check, orch, asked>>
      /\ ui.reading = NoReading /\ ui.phase = "up"
  BY TypedParts DEF SInv, ScreensAgree, Stores, Tick, Resting, Shown
<1>2. CASE ui' \in Fresh(ui)
  <2>1. ui' \in UIs /\ SameFace(ui, ui') /\ Fresher(ui, ui')
    BY <1>1, <1>2, FreshIs
  <2>2. FollowsTheStore' /\ Follows'
    BY <1>1, <2>1, FollowsKept
  <2>3. /\ ui'.phase = ui.phase /\ ui'.prompt = ui.prompt /\ ui'.searching = ui.searching
        /\ ui'.detail = ui.detail /\ ui'.active = ui.active /\ ui'.mode = ui.mode
        /\ ui'.reading = ui.reading
    BY <2>1 DEF SameFace, Fresher
  <2>4. Prompted'
    BY <1>1, <2>3, PromptedStill DEF SInv
  <2>5. Holding'
    BY <1>1, <2>3, HoldingStill DEF SInv, NothingQuick
  <2>6. QED
    BY <1>1, <2>1, <2>2, <2>3, <2>4, <2>5, ShellOnly
<1>3. CASE \/ ui' = [ui EXCEPT !.version = store.commits, !.stale = Shown,
                               !.reading = [NoReading EXCEPT !.kind = "tick"]]
           \/ ui' = [ui EXCEPT !.version = store.commits,
                               !.blind = @ \union (Shown \ ui.stale)]
  <2> DEFINE n == [NoReading EXCEPT !.kind = "tick"]
  <2>1. n \in Readings /\ n.kind = "tick" /\ n.version = 0
    <3>1. 1 \in 1..(Len(family.tabs) + 1) /\ 0 \in 0..MaxCommits
      BY <1>1, SetupsAreSettings
    <3>2. n = [kind |-> "tick", next |-> 1, version |-> 0]
      BY DEF NoReading
    <3>3. QED
      BY <3>1, <3>2 DEF Readings
  <2> HIDE DEF n
  <2>2. \/ ui' = [ui EXCEPT !.version = store.commits, !.stale = Shown, !.reading = n]
        \/ ui' = [ui EXCEPT !.version = store.commits,
                            !.blind = @ \union (Shown \ ui.stale)]
    BY <1>3 DEF n
  <2>3. ui' \in UIs
    <3>1. CASE ui' = [ui EXCEPT !.version = store.commits, !.stale = Shown, !.reading = n]
      BY <1>1, <2>1, <3>1 DEF UIs
    <3>2. CASE ui' = [ui EXCEPT !.version = store.commits,
                                !.blind = @ \union (Shown \ ui.stale)]
      <4>1. ui.blind \union (Shown \ ui.stale) \in SUBSET Shown
        BY <1>1 DEF UIs
      <4>2. QED
        BY <1>1, <3>2, <4>1 DEF UIs
    <3>3. QED
      BY <2>2, <3>1, <3>2
  <2>4. /\ ui'.phase = ui.phase /\ ui'.prompt = ui.prompt /\ ui'.searching = ui.searching
        /\ ui'.detail = ui.detail /\ ui'.active = ui.active /\ ui'.mode = ui.mode
        /\ ui'.reading \in {ui.reading, n} /\ ui'.version = store.commits
    BY <1>1, <2>2 DEF UIs
  <2>5. Shown \subseteq ui'.stale \union ui'.blind
    BY <1>1, <2>2 DEF UIs
  <2>6. FollowsTheStore'
    BY <1>1, <2>5 DEF FollowsTheStore
  <2>7. Follows'
    <3>1. ui'.reading.kind # "reload" /\ ui'.reading.version = 0
      BY <1>1, <2>1, <2>4 DEF NoReading
    <3>2. QED
      BY <1>1, <2>4, <3>1 DEF Follows
  <2>8. Prompted'
    BY <1>1, <2>4, PromptedStill DEF SInv
  <2>9. Holding'
    <3>1. ui'.reading.kind # "reload"
      BY <1>1, <2>1, <2>4 DEF NoReading
    <3>2. QED
      BY <1>1, <2>4, <3>1, HoldingStill DEF SInv, NothingQuick
  <2>10. QED
    BY <1>1, <2>3, <2>4, <2>6, <2>7, <2>8, <2>9, ShellOnly
<1>4. QED
  BY <1>2, <1>3 DEF Tick

LEMMA ReadNextKeeps ==
  ASSUME SInv, ReadNext
  PROVE  SInv'
<1> DEFINE rd == ui.reading
<1>1. /\ store \in Stores /\ ui \in UIs /\ family \in Setups /\ Shown' = Shown
      /\ store.commits \in 0..MaxCommits /\ Len(family.tabs) \in Nat
      /\ DOMAIN family.tabs = 1..Len(family.tabs)
      /\ UNCHANGED <<family, store, inbox, check, orch, asked>>
      /\ ui.phase = "up" /\ rd \in Readings
      /\ FollowsTheStore /\ Follows /\ MaxCommits \in Nat
  <2>1. family.tabs \in Seq(Tabs)
    BY TypedParts, SetupsAreSettings DEF SInv, ScreensAgree, Settings
  <2>2. QED
    BY <2>1, TypedParts, SetupsAreSettings DEF SInv, ScreensAgree, Stores, ReadNext, Shown
<1>2. /\ NoReading \in Readings /\ NoReading.kind = "none" /\ NoReading.version = 0
  BY <1>1 DEF NoReading, Readings
<1>3. ui.version \in Nat /\ store.commits \in Nat /\ rd.version \in Nat /\ rd.next \in Nat
      /\ (\A t \in Shown : ui.at[t] \in Nat) /\ ui.version <= store.commits
      /\ rd.version <= store.commits
  BY <1>1 DEF UIs, Readings, Follows
<1>4. ASSUME ui' \in UIs, SameFace(ui, ui'), FollowsTheStore', Follows',
             ui'.reading.kind = "reload" => rd.kind = "reload"
      PROVE  SInv'
  <2>1. /\ ui'.phase = ui.phase /\ ui'.prompt = ui.prompt /\ ui'.searching = ui.searching
        /\ ui'.detail = ui.detail /\ ui'.active = ui.active /\ ui'.mode = ui.mode
    BY <1>4 DEF SameFace
  <2>2. Prompted'
    BY <1>1, <2>1, PromptedStill DEF SInv
  <2>3. Holding'
    BY <1>1, <1>4, <2>1, HoldingStill DEF SInv, NothingQuick
  <2>4. QED
    BY <1>1, <1>4, <2>1, <2>2, <2>3, ShellOnly
<1>5. ASSUME NEW u \in Fresh(ui), ui' = [u EXCEPT !.reading = NoReading]
      PROVE  SInv'
  <2>1. u \in UIs /\ SameFace(ui, u) /\ Fresher(ui, u)
    BY <1>1, FreshIs
  <2>2. ui' \in UIs /\ ui'.reading = NoReading
    BY <1>2, <1>5, <2>1 DEF UIs
  <2>3. SameFace(u, ui') /\ ui'.version = u.version /\ ui'.at = u.at /\ ui'.stale = u.stale
        /\ ui'.blind = u.blind
    BY <1>5, <2>1 DEF UIs, SameFace
  <2>4. SameFace(ui, ui')
    BY <2>1, <2>3 DEF SameFace
  <2>5. u.version = ui.version /\ \A t \in Shown : t \notin u.stale \union u.blind =>
           u.at[t] >= ui.version
    <3>1. ASSUME NEW t \in Shown, t \notin u.stale \union u.blind
          PROVE  u.at[t] >= ui.version
      <4>1. \/ t \notin ui.stale \union ui.blind /\ u.at[t] = ui.at[t]
            \/ u.at[t] = store.commits
        BY <2>1, <3>1 DEF Fresher
      <4>2. QED
        BY <1>1, <1>3, <4>1 DEF FollowsTheStore
    <3>2. QED
      BY <2>1, <3>1 DEF Fresher
  <2>6. FollowsTheStore'
    BY <1>1, <2>3, <2>5 DEF FollowsTheStore
  <2>7. Follows'
    BY <1>1, <1>2, <1>3, <2>2, <2>3, <2>5 DEF Follows
  <2>8. QED
    BY <1>2, <1>4, <2>2, <2>4, <2>6, <2>7
<1>6. ASSUME rd.kind = "reload", rd.next \in DOMAIN family.tabs,
             ui' = [Load(ui, family.tabs[rd.next]) EXCEPT !.reading.next = @ + 1]
      PROVE  SInv'
  <2> DEFINE t == family.tabs[rd.next]
             w == Load(ui, t)
             n == [rd EXCEPT !.next = @ + 1]
  <2>1. t \in Shown /\ rd.next + 1 \in 1..(Len(family.tabs) + 1)
    BY <1>1, <1>6 DEF Shown
  <2>2. /\ w \in UIs /\ SameFace(ui, w) /\ w.version = ui.version /\ w.reading = ui.reading
        /\ w.stale = ui.stale /\ w.blind = ui.blind \ {t}
        /\ w.at = [ui.at EXCEPT ![t] = store.commits]
    BY <1>1, <2>1, LoadIs
  <2>3. n \in Readings /\ n.kind = rd.kind /\ n.version = rd.version /\ n.next = rd.next + 1
    BY <1>1, <2>1 DEF Readings
  <2>4. ui' = [w EXCEPT !.reading = n]
    BY <1>6, <2>2 DEF UIs
  <2> HIDE DEF w, n
  <2>5. ui' \in UIs /\ ui'.reading = n
    BY <2>2, <2>3, <2>4 DEF UIs
  <2>6. SameFace(w, ui') /\ ui'.version = w.version /\ ui'.at = w.at /\ ui'.stale = w.stale
        /\ ui'.blind = w.blind
    BY <2>2, <2>4 DEF UIs, SameFace
  <2>7. SameFace(ui, ui')
    BY <2>2, <2>6 DEF SameFace
  <2>8. \A s \in Shown : ui'.at[s] = IF s = t THEN store.commits ELSE ui.at[s]
    <3>1. ui.at \in [Shown -> 0..MaxCommits]
      BY <1>1 DEF UIs
    <3>2. QED
      BY <2>2, <2>6, <3>1
  <2>9. FollowsTheStore'
    BY <1>1, <1>3, <2>2, <2>6, <2>8 DEF FollowsTheStore
  <2>10. Follows'
    <3>1. ASSUME NEW k \in 1..rd.next
          PROVE  ui'.at[family.tabs[k]] >= rd.version
      <4>1. family.tabs[k] \in Shown
        BY <1>1, <1>3, <1>6 DEF Shown
      <4>2. CASE family.tabs[k] = t
        BY <1>3, <2>8, <4>1, <4>2
      <4>3. CASE family.tabs[k] # t
        <5>1. k \in 1..(rd.next - 1)
          BY <1>3, <4>3
        <5>2. ui.at[family.tabs[k]] >= rd.version
          BY <1>1, <1>6, <5>1 DEF Follows
        <5>3. QED
          BY <2>8, <4>1, <4>3, <5>2
      <4>4. QED
        BY <4>2, <4>3
    <3>2. n.next - 1 = rd.next
      BY <1>3, <2>3
    <3>3. QED
      BY <1>1, <1>3, <2>2, <2>3, <2>5, <2>6, <3>1, <3>2 DEF Follows
  <2>11. QED
    BY <1>4, <1>6, <2>5, <2>7, <2>9, <2>10
<1>7. ASSUME ui' = [ui EXCEPT !.reading = NoReading]
      PROVE  SInv'
  <2>1. ui' \in UIs /\ ui'.reading = NoReading /\ SameFace(ui, ui') /\ ui'.version = ui.version
        /\ ui'.at = ui.at /\ ui'.stale = ui.stale /\ ui'.blind = ui.blind
    BY <1>1, <1>2, <1>7 DEF UIs, SameFace
  <2>2. FollowsTheStore'
    BY <1>1, <2>1 DEF FollowsTheStore
  <2>3. Follows'
    BY <1>1, <1>2, <1>3, <2>1 DEF Follows
  <2>4. QED
    BY <1>2, <1>4, <2>1, <2>2, <2>3
<1>8. ASSUME rd.kind = "reload", rd.next = Len(family.tabs) + 1,
             ui' = [ui EXCEPT !.version = NotedBy(rd), !.stale = {}, !.reading = NoReading]
      PROVE  SInv'
  <2>1. rd.version \in 0..MaxCommits
    BY <1>1 DEF Readings
  <2>2. ui' \in UIs
    BY <1>1, <1>2, <1>8, <2>1 DEF UIs, NotedBy
  <2>3. ui'.reading = NoReading /\ SameFace(ui, ui') /\ ui'.version = rd.version /\ ui'.at = ui.at
    BY <1>1, <1>8 DEF UIs, SameFace, NotedBy
  <2>4. \A s \in Shown : ui.at[s] >= rd.version
    <3>1. ASSUME NEW s \in Shown PROVE ui.at[s] >= rd.version
      <4>1. PICK k \in 1..Len(family.tabs) : s = family.tabs[k]
        BY <1>1 DEF Shown
      <4>2. k \in 1..(rd.next - 1)
        BY <1>1, <1>8
      <4>3. QED
        BY <1>1, <1>8, <4>1, <4>2 DEF Follows
    <3>2. QED
      BY <3>1
  <2>5. FollowsTheStore'
    BY <1>1, <2>3, <2>4 DEF FollowsTheStore
  <2>6. Follows'
    BY <1>1, <1>2, <1>3, <2>3 DEF Follows
  <2>7. QED
    BY <1>2, <1>4, <2>2, <2>3, <2>5, <2>6
<1>9. QED
  BY <1>5, <1>6, <1>7, <1>8 DEF ReadNext

-----------------------------------------------------------------------------
(* Keys.                                                                   *)

\* A key that leaves what a person faces as it is, and the version noted.
LEMMA FaceStays ==
  ASSUME SInv, Resting, UNCHANGED <<family, store, inbox, check, orch, asked>>,
         ui' \in UIs, SameFace(ui, ui'), Fresher(ui, ui')
  PROVE  SInv'
<1>1. ui.reading = NoReading
  BY DEF Resting
<1>2. FollowsTheStore' /\ Follows'
  BY <1>1, FollowsKept
<1>3. /\ ui'.phase = ui.phase /\ ui'.prompt = ui.prompt /\ ui'.searching = ui.searching
      /\ ui'.detail = ui.detail /\ ui'.active = ui.active /\ ui'.mode = ui.mode
      /\ ui'.reading = ui.reading
  BY DEF SameFace, Fresher
<1>4. Prompted'
  BY <1>3, PromptedStill DEF SInv
<1>5. Holding'
  BY <1>3, HoldingStill DEF SInv, NothingQuick
<1>6. QED
  BY <1>2, <1>3, <1>4, <1>5, ShellOnly

\* A key that sends a message and changes nothing, while nothing is held.
LEMMA Asks ==
  ASSUME SInv, ~family.ahead => Free, UNCHANGED <<family, store, ui, check, orch, asked>>,
         NEW m \in Messages, m.kind \in QuickKinds, inbox' = inbox \union {m},
         m.kind \in {"open", "row"} => "tasks" \in Shown
  PROVE  SInv'
<1>1. /\ family \in Setups /\ ui \in UIs /\ store \in Stores /\ ui' = ui
      /\ check \in Streams /\ orch \in [stream : Streams, proc : Procs]
      /\ inbox' \subseteq Messages /\ store.commits >= store.commits
      /\ asked' \in [act : Acts \union {"none"}, named : 0..ItemCount, on : 0..ItemCount]
  BY TypedParts DEF SInv, ScreensAgree, ShellTypeOK, Stores
<1>2. ShellTypeOK'
  BY <1>1, TypeOfParts
<1>3. FollowsTheStore' /\ Follows'
  BY <1>1, FollowsStill
<1>4. ActsAsNamed'
  BY DEF SInv, ScreensAgree, ActsAsNamed
<1>5. RunsAreKept'
  BY DEF SInv, RunsAreKept, RunsAreHeard, NoRunOutlivesTheScreen
<1>6. Prompted'
  BY PromptedStill DEF SInv
<1>7. Holding'
  BY HoldingFree
<1>8. OpensAreShown'
  BY DEF SInv, OpensAreShown, Shown
<1>9. \A k \in {"line", "end", "oline", "oend"} : Message(k, "", 0) # m
  <2>1. \A k : Message(k, "", 0).kind = k
    BY DEF Message
  <2>2. QED
    BY <2>1 DEF QuickKinds
<1>10. Flowing'
  BY <1>9, FlowingStill DEF SInv
<1>11. QED
  BY <1>2, <1>3, <1>4, <1>5, <1>6, <1>7, <1>8, <1>10 DEF SInv, ScreensAgree

LEMMA ShellKeysKeep ==
  ASSUME SInv, KeyShow \/ KeyRefresh \/ KeyOverlay \/ OverlayEsc
  PROVE  SInv'
<1>1. /\ Resting /\ ui.reading = NoReading /\ ui.phase = "up"
      /\ UNCHANGED <<family, store, inbox, check, orch, asked>>
  BY DEF KeyShow, KeyRefresh, KeyOverlay, OverlayEsc, Global, CanType, Resting
<1>2. ~family.ahead => Free
  BY FreeBy DEF KeyShow, KeyRefresh, KeyOverlay, OverlayEsc, Global
<1>3. ui \in UIs
  BY TypedParts DEF SInv, ScreensAgree
<1>4. CASE KeyShow
  <2>1. PICK t \in Shown : ui' \in Show(ui, t)
    BY <1>4 DEF KeyShow
  <2>2. /\ ui' \in UIs /\ ui'.phase = ui.phase
        /\ FollowsTheStore' /\ Follows' /\ Prompted' /\ Holding'
    BY <1>1, <1>2, <2>1, ShowPart
  <2>3. QED
    BY <1>1, <2>2, ShellOnly
<1>5. CASE KeyRefresh
  <2>1. ui' = Reload(ui)
    BY <1>5 DEF KeyRefresh
  <2>2. /\ ui' \in UIs /\ ui'.phase = ui.phase
        /\ FollowsTheStore' /\ Follows' /\ Prompted' /\ Holding'
    BY <1>1, <1>2, <2>1, ReloadPart
  <2>3. QED
    BY <1>1, <2>2, ShellOnly
<1>6. CASE KeyOverlay \/ OverlayEsc
  <2>1. PICK mode \in Modes : ui' = [ui EXCEPT !.mode = mode]
    BY <1>6 DEF KeyOverlay, OverlayEsc, Modes
  <2>2. /\ ui' \in UIs /\ Fresher(ui, ui') /\ ui'.phase = ui.phase /\ ui'.prompt = ui.prompt
        /\ ui'.searching = ui.searching /\ ui'.detail = ui.detail
    BY <1>3, <2>1 DEF UIs, Fresher
  <2>3. FollowsTheStore' /\ Follows'
    BY <1>1, <2>2, FollowsKept
  <2>4. Prompted'
    BY <1>1, <2>2, PromptedStill DEF SInv
  <2>5. Holding'
    BY <1>1, <1>2, <2>2, HoldingFree
  <2>6. QED
    BY <1>1, <2>2, <2>3, <2>4, <2>5, ShellOnly
<1>7. QED
  BY <1>4, <1>5, <1>6

LEMMA OverlayEnterKeeps ==
  ASSUME SInv, OverlayEnter
  PROVE  SInv'
<1>1. UNCHANGED <<family, store, ui, check, orch, asked>>
  BY DEF OverlayEnter
<1>2. ~family.ahead => Free
  BY FreeBy DEF OverlayEnter
<1>3. PICK m \in Messages : m.kind \in {"palette", "project"} /\ inbox' = inbox \union {m}
  <2>1. \A to \in Shown \union {"refresh", "projects"} :
          Message("palette", to, 0) \in Messages /\ Message("palette", to, 0).kind = "palette"
    BY DEF Messages, Message
  <2>2. Message("project", "", 0) \in Messages /\ Message("project", "", 0).kind = "project"
    BY DEF Messages, Message
  <2>3. QED
    BY <2>1, <2>2 DEF OverlayEnter
<1>4. QED
  BY <1>1, <1>2, <1>3, Asks DEF QuickKinds

\* A screen without a question, a search or a run does not hold the keyboard.
LEMMA TasksAtRest ==
  ASSUME SInv, OnScreen("tasks"), ~ui.searching, ui.detail = 0, ~check.on
  PROVE  ~family.ahead => Free
<1> SUFFICES ASSUME ~family.ahead PROVE Free
  OBVIOUS
<1>1. ui.active = "tasks" /\ ui.active \in Shown
  BY DEF OnScreen, SInv, ScreensAgree, ShellTypeOK
<1>2. ui.prompt["tasks"] = NoPrompt
  BY <1>1 DEF SInv, Prompted, AskedHere
<1>3. ~Capturing(ui, ui.active)
  BY <1>1, <1>2 DEF Capturing
<1>4. QED
  BY <1>3, FreeBy

LEMMA KeyEnterKeeps ==
  ASSUME SInv, KeyEnter
  PROVE  SInv'
<1>1. UNCHANGED <<family, store, ui, check, orch, asked>>
  BY DEF KeyEnter
<1>2. family \in Setups /\ family \in Settings /\ ui.active \in Shown /\ ItemCount \in Nat
  BY TypedParts, SetupsAreSettings, ItemCountIsNat DEF SInv, ScreensAgree, ShellTypeOK
<1>3. CASE /\ OnScreen("tasks") /\ ~ui.searching /\ ui.detail = 0 /\ ~check.on
           /\ ui.row["tasks"] \in DOMAIN RowsOf("tasks")
           /\ inbox' = inbox \union {Message("row", "", ui.row["tasks"])}
  <2> DEFINE m == Message("row", "", ui.row["tasks"])
  <2>1. ui.row["tasks"] \in 1..ItemCount
    <3>1. RowsOf("tasks") \in RowLists
      BY RowsAreLists DEF RowsOf
    <3>2. \A rows \in RowLists : DOMAIN rows \subseteq 1..ItemCount
      BY <1>2 DEF RowLists
    <3>3. QED
      BY <1>3, <3>1, <3>2
  <2>2. m \in Messages /\ m.kind = "row"
    BY <2>1 DEF Messages, Message
  <2>3. "tasks" \in Shown
    BY <1>2, <1>3 DEF OnScreen
  <2>4. ~family.ahead => Free
    BY <1>3, TasksAtRest
  <2> HIDE DEF m
  <2>5. inbox' = inbox \union {m}
    BY <1>3 DEF m
  <2>6. QED
    BY <1>1, <2>2, <2>3, <2>4, <2>5, Asks DEF QuickKinds
<1>4. CASE /\ OnScreen("review") /\ ui.prompt["review"] = NoPrompt
           /\ LET i == ItemAt(RowsOf("review"), ui.row["review"]) IN
              /\ i # 0
              /\ inbox' = inbox \union {Message("open", "", i)}
  <2> DEFINE i == ItemAt(RowsOf("review"), ui.row["review"])
             m == Message("open", "", i)
  <2>1. i \in Items
    <3>1. RowsOf("review") \in RowLists
      BY RowsAreLists DEF RowsOf
    <3>2. i \in 0..ItemCount /\ i # 0
      BY <1>4, <3>1, ItemAtIsItem
    <3>3. QED
      BY <1>2, <3>2 DEF Items
  <2> HIDE DEF i
  <2>2. m \in Messages /\ m.kind = "open"
    BY <2>1 DEF Messages, Message
  <2>3. "tasks" \in Shown
    BY <1>2, <1>4 DEF OnScreen, Settings, Shown, Range
  <2>4. ~family.ahead => Free
    BY <1>4, FreeBy DEF OnScreen, Capturing
  <2> HIDE DEF m
  <2>5. inbox' = inbox \union {m}
    BY <1>4 DEF i, m
  <2>6. QED
    BY <1>1, <2>2, <2>3, <2>4, <2>5, Asks DEF QuickKinds
<1>5. QED
  BY <1>3, <1>4 DEF KeyEnter

LEMMA ListKeysKeep ==
  ASSUME SInv, KeyMove \/ KeyFilter
  PROVE  SInv'
<1>1. /\ Resting /\ UNCHANGED <<family, store, inbox, check, orch, asked>>
      /\ ui \in UIs /\ store \in Stores /\ ui.active \in Shown /\ ItemCount \in Nat
  BY TypedParts, ItemCountIsNat DEF SInv, ScreensAgree, ShellTypeOK, KeyMove, KeyFilter,
     OnScreen, CanType
<1>2. CASE KeyMove
  <2>1. PICK t \in Shown : \E r \in DOMAIN RowsOf(t) : ui' = [ui EXCEPT !.row[t] = r]
    BY <1>2 DEF KeyMove
  <2>2. PICK r \in DOMAIN RowsOf(t) : ui' = [ui EXCEPT !.row[t] = r]
    BY <2>1
  <2>3. r \in 1..(ItemCount + 1)
    <3>1. RowsOf(t) \in RowLists
      BY RowsAreLists DEF RowsOf
    <3>2. QED
      BY <1>1, <2>2, <3>1 DEF RowLists
  <2>4. ui' \in UIs /\ SameFace(ui, ui') /\ Fresher(ui, ui')
    BY <1>1, <2>1, <2>2, <2>3 DEF UIs, SameFace, Fresher
  <2>5. QED
    BY <1>1, <2>4, FaceStays
<1>3. CASE KeyFilter
  <2>1. CASE /\ OnScreen("tasks")
             /\ LET wide == (ui.wide \ {"tasks"}) \union ({"tasks"} \ ui.wide)
                IN ui' = [ui EXCEPT !.wide = wide,
                              !.row["tasks"] = KeptOnTasks(RowsOf("tasks"),
                                  Rows("tasks", ui.read["tasks"], wide), @)]
    <3> DEFINE wide == (ui.wide \ {"tasks"}) \union ({"tasks"} \ ui.wide)
               r == KeptOnTasks(RowsOf("tasks"), Rows("tasks", ui.read["tasks"], wide), ui.row["tasks"])
    <3>1. "tasks" \in Shown /\ wide \in SUBSET Shown
      BY <1>1, <2>1 DEF OnScreen, UIs
    <3>2. r \in 1..(ItemCount + 1)
      <4>1. /\ RowsOf("tasks") \in RowLists /\ Rows("tasks", ui.read["tasks"], wide) \in RowLists
            /\ ui.row["tasks"] \in Cursors
        BY <1>1, <3>1, RowsAreLists DEF RowsOf, UIs, Cursors
      <4>2. Kept("tasks", RowsOf("tasks"), Rows("tasks", ui.read["tasks"], wide), ui.row["tasks"]) \in Cursors
        BY <4>1, KeptIsCursor
      <4>3. QED
        BY <4>2 DEF Kept, Cursors
    <3>3. ui' = [ui EXCEPT !.wide = wide, !.row["tasks"] = r]
      BY <2>1
    <3> HIDE DEF wide, r
    <3>4. ui' \in UIs /\ SameFace(ui, ui') /\ Fresher(ui, ui')
      BY <1>1, <3>1, <3>2, <3>3 DEF UIs, SameFace, Fresher
    <3>5. QED
      BY <1>1, <3>4, FaceStays
  <2>2. CASE /\ OnScreen("memory")
             /\ LET wide == (ui.wide \ {"memory"}) \union ({"memory"} \ ui.wide)
                IN ui' = [Load(ui, "memory") EXCEPT !.wide = wide, !.row["memory"] = 1]
    <3> DEFINE wide == (ui.wide \ {"memory"}) \union ({"memory"} \ ui.wide)
               w == Load(ui, "memory")
    <3>1. "memory" \in Shown /\ wide \in SUBSET Shown /\ 1 \in 1..(ItemCount + 1)
      BY <1>1, <2>2 DEF OnScreen, UIs
    <3>2. w \in UIs /\ SameFace(ui, w) /\ Fresher(ui, w)
      BY <1>1, <3>1, LoadIs, LoadFresher
    <3>3. ui' = [w EXCEPT !.wide = wide, !.row["memory"] = 1]
      BY <2>2
    <3> HIDE DEF wide, w
    <3>4. ui' \in UIs /\ SameFace(w, ui') /\ ui'.version = w.version /\ ui'.reading = w.reading
          /\ ui'.stale = w.stale /\ ui'.blind = w.blind /\ ui'.at = w.at
      BY <3>1, <3>2, <3>3 DEF UIs, SameFace
    <3>5. SameFace(ui, ui') /\ Fresher(ui, ui')
      BY <3>2, <3>4 DEF SameFace, Fresher
    <3>6. QED
      BY <1>1, <3>4, <3>5, FaceStays
  <2>3. CASE OnScreen("audit") /\ ui' = Load(ui, "audit")
    <3>1. "audit" \in Shown
      BY <1>1, <2>3 DEF OnScreen
    <3>2. ui' \in UIs /\ SameFace(ui, ui') /\ Fresher(ui, ui')
      BY <1>1, <2>3, <3>1, LoadIs, LoadFresher
    <3>3. QED
      BY <1>1, <3>2, FaceStays
  <2>4. QED
    BY <1>3, <2>1, <2>2, <2>3 DEF KeyFilter
<1>4. QED
  BY <1>2, <1>3

LEMMA TaskKeysKeep ==
  ASSUME SInv, KeySearch \/ KeyBack
  PROVE  SInv'
<1>1. /\ OnScreen("tasks") /\ ui.reading = NoReading /\ ui.phase = "up"
      /\ UNCHANGED <<family, store, inbox, check, orch, asked>>
      /\ ui \in UIs /\ store \in Stores /\ ui.active \in Shown /\ 0 \in 0..ItemCount
  BY TypedParts, ItemCountIsNat DEF SInv, ScreensAgree, ShellTypeOK, KeySearch, KeyBack,
     OnScreen, CanType, Resting
<1>2. \/ ui.detail = 0 /\ ui' = [ui EXCEPT !.searching = ~@]
      \/ ui.prompt["tasks"] = NoPrompt /\ ui' = [ui EXCEPT !.detail = 0]
  BY DEF KeySearch, KeyBack
<1>3. ui' \in UIs /\ Fresher(ui, ui')
  BY <1>1, <1>2 DEF UIs, Fresher
<1>4. /\ ui'.phase = ui.phase /\ ui'.prompt = ui.prompt
      /\ ui'.active = ui.active /\ ui'.mode = ui.mode /\ ui'.reading = ui.reading
      /\ ui'.detail = ui.detail \/ ui.prompt["tasks"] = NoPrompt
      /\ ui'.searching # ui.searching => ui.detail = 0
      /\ ui'.detail \in {ui.detail, 0}
  BY <1>1, <1>2 DEF UIs
<1>5. FollowsTheStore' /\ Follows'
  BY <1>1, <1>3, FollowsKept
<1>6. Prompted'
  BY <1>1, <1>4 DEF SInv, Prompted, AskedHere, Shown
<1>7. Holding'
  <2> SUFFICES ASSUME ~family.ahead PROVE Holding'
    BY <1>1 DEF Holding
  <2>1. Alone("tasks") /\ NothingQuick' /\ ui'.reading.kind # "reload"
    BY <1>1, <1>4 DEF OnScreen, CanType, Alone, NothingQuick, NoReading
  <2>2. \A t \in Tabs : Alone(t) => Alone(t)'
    BY <1>1, <1>4, <2>1 DEF Alone
  <2>3. Shown \subseteq Tabs
    BY TypedParts, SetupsAreSettings DEF Settings, Shown, SInv, ScreensAgree
  <2>4. ui'.searching => ui'.detail = 0
    BY <1>1, <1>4 DEF SInv, Holding
  <2>5. \A t \in Shown : ui'.prompt[t] # NoPrompt => Alone(t)'
    BY <1>4, <2>2, <2>3 DEF SInv, Holding
  <2>6. orch.stream.on => Alone("orchestrator")'
    BY <2>2 DEF SInv, Holding, Tabs
  <2>7. Alone("tasks")'
    BY <2>1, <2>2 DEF Tabs
  <2>8. QED
    BY <1>1, <2>4, <2>5, <2>6, <2>7 DEF Holding, Shown
<1>8. QED
  BY <1>1, <1>3, <1>4, <1>5, <1>6, <1>7, ShellOnly

-----------------------------------------------------------------------------
(* Asking, and acting.                                                     *)

LEMMA PromptFields ==
  ASSUME NEW p \in Prompts, p # NoPrompt
  PROVE  p.item \in 0..ItemCount /\ p.act \in Acts /\ p.stage \in Stages
BY DEF Prompts

\* A question opened, changed or closed on the screen that has the keyboard.
LEMMA PromptPart ==
  ASSUME SInv, CanType, ui.mode = "normal", UNCHANGED <<family, store, inbox, check, orch>>,
         NEW p \in Prompts, ui' = [ui EXCEPT !.prompt[ui.active] = p],
         p # NoPrompt => AskedHere(ui.active, p)
  PROVE  /\ ui' \in UIs /\ ui'.phase = ui.phase
         /\ FollowsTheStore' /\ Follows' /\ Prompted' /\ Holding'
<1>1. ui \in UIs /\ ui.active \in Shown /\ ui.prompt \in [Shown -> Prompts] /\ ui.reading = NoReading
      /\ store \in Stores /\ store.commits >= store.commits
  BY TypedParts DEF SInv, ScreensAgree, UIs, CanType, Resting, Stores
<1> DEFINE prompt == [ui.prompt EXCEPT ![ui.active] = p]
<1>2. prompt \in [Shown -> Prompts] /\ \A t \in Shown : prompt[t] = IF t = ui.active THEN p ELSE ui.prompt[t]
  BY <1>1
<1>3. ui' = [ui EXCEPT !.prompt = prompt]
  BY <1>1 DEF UIs
<1> HIDE DEF prompt
<1>4. ui' \in UIs /\ ui'.prompt = prompt
  BY <1>1, <1>2, <1>3 DEF UIs
<1>5. /\ ui'.phase = ui.phase /\ ui'.active = ui.active /\ ui'.mode = ui.mode
      /\ ui'.searching = ui.searching /\ ui'.detail = ui.detail /\ ui'.reading = ui.reading
      /\ ui'.version = ui.version /\ ui'.stale = ui.stale /\ ui'.blind = ui.blind /\ ui'.at = ui.at
  BY <1>1, <1>3 DEF UIs
<1>6. FollowsTheStore' /\ Follows'
  BY <1>1, <1>5, FollowsStill
<1>7. Prompted'
  <2>1. ASSUME NEW t \in Shown, prompt[t] # NoPrompt PROVE AskedHere(t, prompt[t])
    BY <1>2, <2>1 DEF SInv, Prompted
  <2>2. family' = family /\ check' = check /\ orch' = orch /\ Shown' = Shown
    BY DEF Shown
  <2>3. ASSUME NEW t \in Shown, NEW q, AskedHere(t, q)
        PROVE  /\ q.act = "check" => t = "tasks"
               /\ q.act = "start" => t = "orchestrator"
               /\ q.act = "seal" => t = "audit"
               /\ q.act \in {"approve", "reject", "edit"} => t \in {"tasks", "review", "specs", "memory"}
               /\ t = "orchestrator" => ~orch'.stream.on
               /\ t = "tasks" => ~check'.on
               /\ (t = "tasks" /\ ~family'.ahead) => q.item = ui'.detail /\ q.item # 0
    BY <1>5, <2>2, <2>3 DEF AskedHere
  <2>4. ASSUME NEW t \in Shown, ui'.prompt[t] # NoPrompt
        PROVE  AskedHere(t, ui.prompt[t])'
    <3>1. AskedHere(t, ui'.prompt[t])
      BY <1>4, <2>1, <2>4
    <3>2. QED
      BY <2>3, <3>1 DEF AskedHere
  <2>5. QED
    BY <2>2, <2>4 DEF Prompted
<1>8. Holding'
  <2> SUFFICES ASSUME ~family.ahead PROVE Holding'
    BY DEF Holding
  <2>1. Alone(ui.active)
    BY <1>1 DEF Alone, CanType, NoReading
  <2>2. \A t \in Shown : prompt[t] # NoPrompt => Alone(t)
    BY <1>2, <2>1 DEF SInv, Holding
  <2>3. QED
    BY <1>4, <1>5, <2>2 DEF SInv, Holding, Alone, NothingQuick, Shown
<1>9. QED
  BY <1>4, <1>5, <1>6, <1>7, <1>8

\* What may be asked of a row, or of the task in detail.
LEMMA OffersAre ==
  ASSUME ShellTypeOK, NEW t \in {"tasks", "review", "specs", "memory"}, NEW i \in Items
  PROVE  Offers(t, i) \subseteq {"approve", "reject", "edit", "check"}
         /\ (t # "tasks" => Offers(t, i) \subseteq {"approve", "reject", "edit"})
BY DEF Offers, TaskActs, ReviewActs, SpecTreeActs, MemoryActs

LEMMA SelectedIsItem ==
  ASSUME ShellTypeOK, NEW t
  PROVE  Selected(t) \in 0..ItemCount
<1>1. ui.detail \in 0..ItemCount
  BY DEF ShellTypeOK
<1>2. RowsOf(t) \in RowLists
  BY RowsAreLists DEF RowsOf
<1>3. ItemAt(RowsOf(t), ui.row[t]) \in 0..ItemCount
  BY <1>2, ItemAtIsItem
<1>4. QED
  BY <1>1, <1>3 DEF Selected

LEMMA AskKeysKeep ==
  ASSUME SInv, KeyAsk \/ KeyStart \/ KeySeal \/ AnswerNo
  PROVE  SInv'
<1>1. /\ CanType /\ ui.mode = "normal" /\ ShellTypeOK /\ ui.phase = "up" /\ ItemCount \in Nat
      /\ UNCHANGED <<family, store, inbox, check, orch, asked>>
  BY ItemCountIsNat DEF KeyAsk, KeyStart, KeySeal, AnswerNo, OnScreen, CanType, Resting,
     SInv, ScreensAgree
<1>2. \E p \in Prompts : /\ ui' = [ui EXCEPT !.prompt[ui.active] = p]
                         /\ p # NoPrompt => AskedHere(ui.active, p)
  <2>1. CASE KeyAsk
    <3>1. PICK t \in {"tasks", "review", "specs", "memory"} \intersect Shown :
            /\ OnScreen(t) /\ ui.prompt[t] = NoPrompt /\ ~(t = "tasks" /\ check.on)
            /\ Selected(t) # 0
            /\ \E act \in Offers(t, Selected(t)) \intersect family.acts :
                  ui' = [ui EXCEPT !.prompt[t] = Asking(Selected(t), act)]
      BY <2>1 DEF KeyAsk
    <3>2. PICK act \in Offers(t, Selected(t)) :
            ui' = [ui EXCEPT !.prompt[t] = Asking(Selected(t), act)]
      BY <3>1
    <3> DEFINE p == Asking(Selected(t), act)
    <3>3. Selected(t) \in 0..ItemCount /\ Selected(t) # 0
      BY <1>1, <3>1, SelectedIsItem
    <3>4. Selected(t) \in Items
      BY <1>1, <3>3 DEF Items
    <3>5. act \in {"approve", "reject", "edit", "check"} /\ (t # "tasks" => act # "check")
      BY <1>1, <3>2, <3>4, OffersAre
    <3>6. p \in Prompts /\ p.act = act /\ p.item = Selected(t)
      BY <3>3, <3>5 DEF Asking, Prompts, Acts, Stages
    <3>7. t = "tasks" => Selected(t) = ui.detail
      BY DEF Selected
    <3>8. AskedHere(t, p)
      BY <3>1, <3>3, <3>5, <3>6, <3>7 DEF AskedHere
    <3>9. t = ui.active
      BY <3>1 DEF OnScreen
    <3> HIDE DEF p
    <3>10. ui' = [ui EXCEPT !.prompt[ui.active] = p]
      BY <3>2, <3>9 DEF p
    <3>11. QED
      BY <3>6, <3>8, <3>9, <3>10
  <2>2. CASE KeyStart \/ KeySeal
    <3>1. PICK act \in {"start", "seal"} :
            /\ ui' = [ui EXCEPT !.prompt[ui.active] = Asking(0, act)]
            /\ act = "start" => ui.active = "orchestrator" /\ ~orch.stream.on
            /\ act = "seal" => ui.active = "audit"
      BY <2>2 DEF KeyStart, KeySeal, OnScreen
    <3> DEFINE p == Asking(0, act)
    <3>2. p \in Prompts /\ p.act = act
      BY <1>1, <3>1 DEF Asking, Prompts, Acts, Stages
    <3>3. AskedHere(ui.active, p)
      BY <3>1, <3>2 DEF AskedHere
    <3> HIDE DEF p
    <3>4. ui' = [ui EXCEPT !.prompt[ui.active] = p]
      BY <3>1 DEF p
    <3>5. QED
      BY <3>2, <3>3, <3>4
  <2>3. CASE AnswerNo
    BY <2>3 DEF AnswerNo, Prompts
  <2>4. QED
    BY <2>1, <2>2, <2>3
<1>3. PICK p \in Prompts : /\ ui' = [ui EXCEPT !.prompt[ui.active] = p]
                           /\ p # NoPrompt => AskedHere(ui.active, p)
  BY <1>2
<1>4. /\ ui' \in UIs /\ ui'.phase = ui.phase
      /\ FollowsTheStore' /\ Follows' /\ Prompted' /\ Holding'
  BY <1>1, <1>3, PromptPart
<1>5. QED
  BY <1>1, <1>4, ShellOnly

LEMMA QuitKeeps ==
  ASSUME SInv, Quit
  PROVE  SInv'
<1>1. /\ UNCHANGED <<family, store, inbox, check, orch, asked>> /\ ui.reading = NoReading
      /\ ui \in UIs /\ store \in Stores /\ store.commits >= store.commits
  BY TypedParts DEF Quit, Resting, SInv, ScreensAgree, Stores
<1>2. ui' = [ui EXCEPT !.phase = "leaving"]
  BY DEF Quit
<1>3. ui' \in UIs /\ ui'.phase = "leaving"
  BY <1>1, <1>2 DEF UIs, Phases
<1>4. /\ ui'.prompt = ui.prompt /\ ui'.active = ui.active /\ ui'.mode = ui.mode
      /\ ui'.searching = ui.searching /\ ui'.detail = ui.detail /\ ui'.reading = ui.reading
      /\ ui'.version = ui.version /\ ui'.stale = ui.stale /\ ui'.blind = ui.blind /\ ui'.at = ui.at
  BY <1>1, <1>2 DEF UIs
<1>5. FollowsTheStore' /\ Follows'
  BY <1>1, <1>4, FollowsStill
<1>6. Prompted'
  BY <1>1, <1>4, PromptedStill DEF SInv
<1>7. Holding'
  BY <1>1, <1>4, HoldingStill DEF SInv, NothingQuick
<1>8. QED
  BY <1>1, <1>3, <1>5, <1>6, <1>7, ShellOnly

\* What the answer leaves: the question is gone, and the screen was read again or not.
ClosedOn(t, u, v) ==
    /\ v \in UIs /\ v.prompt = [u.prompt EXCEPT ![t] = NoPrompt]
    /\ v.phase = u.phase /\ v.mode = u.mode /\ v.active = u.active
    /\ v.searching = u.searching /\ v.detail = u.detail

LEMMA ClosedIs ==
  ASSUME store \in Stores, NEW u \in UIs, NEW t \in Shown
  PROVE  LET v == [u EXCEPT !.prompt[t] = NoPrompt] IN
         /\ ClosedOn(t, u, v) /\ Fresher(u, v) /\ v.read = u.read /\ v.wide = u.wide
         /\ v.row = u.row
         /\ ClosedOn(t, u, Load(v, t)) /\ Fresher(u, Load(v, t))
<1> DEFINE prompt == [u.prompt EXCEPT ![t] = NoPrompt]
           v == [u EXCEPT !.prompt[t] = NoPrompt]
<1>1. u.prompt \in [Shown -> Prompts] /\ prompt \in [Shown -> Prompts]
  BY DEF UIs, Prompts
<1>2. v = [u EXCEPT !.prompt = prompt]
  BY DEF UIs
<1> HIDE DEF prompt, v
<1>3. v \in UIs /\ v.prompt = prompt
  BY <1>1, <1>2 DEF UIs
<1>4. /\ v.phase = u.phase /\ v.mode = u.mode /\ v.active = u.active
      /\ v.searching = u.searching /\ v.detail = u.detail
      /\ v.reading = u.reading /\ v.version = u.version /\ v.stale = u.stale
      /\ v.blind = u.blind /\ v.at = u.at /\ v.read = u.read /\ v.wide = u.wide /\ v.row = u.row
  BY <1>2 DEF UIs
<1>5. ClosedOn(t, u, v) /\ Fresher(u, v)
  BY <1>3, <1>4 DEF ClosedOn, Fresher, prompt
<1>6. Load(v, t) \in UIs /\ SameFace(v, Load(v, t)) /\ Fresher(v, Load(v, t))
  BY <1>3, LoadIs, LoadFresher
<1>7. ClosedOn(t, u, Load(v, t))
  BY <1>3, <1>4, <1>6 DEF ClosedOn, SameFace, prompt
<1>8. Fresher(u, Load(v, t))
  BY <1>4, <1>6 DEF Fresher
<1>9. QED
  BY <1>4, <1>5, <1>7, <1>8 DEF v

\* A run may start on the screen whose question was answered.
LEMMA ClosedPart ==
  ASSUME SInv, CanType, ui.mode = "normal", UNCHANGED <<family, inbox>>,
         store'.commits = store.commits,
         ClosedOn(ui.active, ui, ui'), Fresher(ui, ui'),
         check'.on => check.on \/ ui.active = "tasks",
         orch'.stream.on => orch.stream.on \/ ui.active = "orchestrator"
  PROVE  FollowsTheStore' /\ Follows' /\ Prompted' /\ Holding'
<1>1. ui \in UIs /\ ui.active \in Shown /\ ui.prompt \in [Shown -> Prompts] /\ ui.reading = NoReading
      /\ Shown' = Shown
  BY TypedParts DEF SInv, ScreensAgree, UIs, CanType, Resting, Shown
<1>2. FollowsTheStore' /\ Follows'
  BY <1>1, FollowsKept
<1>3. /\ \A t \in Shown : ui'.prompt[t] = IF t = ui.active THEN NoPrompt ELSE ui.prompt[t]
      /\ ui'.active = ui.active /\ ui'.mode = ui.mode /\ ui'.searching = ui.searching
      /\ ui'.detail = ui.detail /\ ui'.reading = ui.reading
  BY <1>1 DEF ClosedOn, Fresher
<1>4. Prompted'
  <2>1. ASSUME NEW t \in Shown, ui'.prompt[t] # NoPrompt
        PROVE  AskedHere(t, ui.prompt[t])'
    <3>1. ui'.prompt[t] = ui.prompt[t] /\ t # ui.active
      BY <1>3, <2>1
    <3>2. AskedHere(t, ui.prompt[t])
      BY <2>1, <3>1 DEF SInv, Prompted
    <3>3. (t = "tasks" => ~check'.on) /\ (t = "orchestrator" => ~orch'.stream.on)
      BY <3>1, <3>2 DEF AskedHere
    <3>4. QED
      BY <1>3, <3>1, <3>2, <3>3 DEF AskedHere
  <2>2. QED
    BY <1>1, <2>1 DEF Prompted
<1>5. Holding'
  <2> SUFFICES ASSUME ~family.ahead PROVE Holding'
    BY DEF Holding
  <2>1. Alone(ui.active)
    BY <1>1 DEF Alone, CanType, NoReading
  <2>2. \A t : Alone(t) => Alone(t)'
    BY <1>3 DEF Alone, NothingQuick
  <2>3. \A t \in Shown : ui'.prompt[t] # NoPrompt => Alone(t)'
    BY <1>3, <2>2 DEF SInv, Holding
  <2>4. ui'.searching \/ check'.on => Alone("tasks")'
    BY <1>3, <2>1, <2>2 DEF SInv, Holding
  <2>5. orch'.stream.on => Alone("orchestrator")'
    BY <2>1, <2>2 DEF SInv, Holding
  <2>6. ui'.searching => ui'.detail = 0
    BY <1>3 DEF SInv, Holding
  <2>7. QED
    BY <1>1, <2>3, <2>4, <2>5, <2>6 DEF Holding
<1>6. QED
  BY <1>2, <1>4, <1>5

\* A run that starts where none was: none of its messages is on its way yet.
LEMMA StartFlows ==
  ASSUME NEW s \in Streams, NEW line \in BOOLEAN, NEW end \in BOOLEAN,
         Flows(s, line, end), ~s.on
  PROVE  Flows(Started, line, end)
<1>1. ~line /\ ~end
  BY DEF Flows
<1>2. QED
  BY <1>1, StartedFlows DEF Flows

LEMMA AnswerKeeps ==
  ASSUME SInv, Answer
  PROVE  SInv'
<1> DEFINE t == ui.active
           p == ui.prompt[t]
<1>1. /\ CanType /\ ui.mode = "normal" /\ ui.phase = "up" /\ UNCHANGED <<family, inbox>>
      /\ p # NoPrompt
  BY DEF Answer, CanType, Resting
<1>2. /\ ui \in UIs /\ store \in Stores /\ family \in Setups /\ t \in Shown /\ p \in Prompts
      /\ inbox \subseteq Messages /\ check \in Streams /\ orch \in [stream : Streams, proc : Procs]
      /\ asked \in [act : Acts \union {"none"}, named : 0..ItemCount, on : 0..ItemCount]
      /\ ui.detail \in 0..ItemCount
  BY TypedParts DEF SInv, ScreensAgree, ShellTypeOK, UIs
<1>3. p.item \in 0..ItemCount /\ p.act \in Acts /\ p.stage \in Stages /\ AskedHere(t, p)
  BY <1>1, <1>2, PromptFields DEF SInv, Prompted
<1>4. \* the parts that the ways to act have in common
      ASSUME store' \in Stores, store'.commits = store.commits,
             ClosedOn(t, ui, ui'), Fresher(ui, ui'),
             check' \in Streams, orch' \in [stream : Streams, proc : Procs],
             check'.on => check.on \/ t = "tasks",
             orch'.stream.on => orch.stream.on \/ t = "orchestrator",
             check'.chain = "lost" => check.chain = "lost",
             orch'.stream.chain = "lost" => orch.stream.chain = "lost",
             Flowing', ActsAsNamed',
             asked' \in [act : Acts \union {"none"}, named : 0..ItemCount, on : 0..ItemCount]
      PROVE  SInv'
  <2>1. FollowsTheStore' /\ Follows' /\ Prompted' /\ Holding'
    BY <1>1, <1>4, ClosedPart
  <2>2. ui' \in UIs /\ ui'.phase = "up"
    BY <1>1, <1>4 DEF ClosedOn
  <2>3. ShellTypeOK'
    BY <1>1, <1>2, <1>4, <2>2, TypeOfParts
  <2>4. RunsAreKept'
    BY <1>1, <1>4, <2>2 DEF SInv, RunsAreKept, RunsAreHeard, NoRunOutlivesTheScreen
  <2>5. OpensAreShown'
    BY <1>1 DEF SInv, OpensAreShown, Shown
  <2>6. QED
    BY <1>4, <2>1, <2>3, <2>4, <2>5 DEF SInv, ScreensAgree
<1>5. CASE More(t, p) \/ AskToken(t, p)
  <2>1. PICK stage \in Stages : ui' = [ui EXCEPT !.prompt[t].stage = stage]
    BY <1>5 DEF More, AskToken, Stages
  <2> DEFINE q == [p EXCEPT !.stage = stage]
  <2>2. p = [item |-> p.item, act |-> p.act, stage |-> p.stage]
    BY <1>1, <1>2 DEF Prompts
  <2>3. q \in Prompts /\ q.item = p.item /\ q.act = p.act
    BY <1>3, <2>2 DEF Prompts
  <2>4. AskedHere(t, q)
    BY <1>3, <2>3 DEF AskedHere
  <2>5. ui' = [ui EXCEPT !.prompt[t] = q]
    BY <2>1
  <2>6. UNCHANGED <<family, store, inbox, check, orch, asked>>
    BY <1>1, <1>5 DEF More, AskToken, Answer
  <2> HIDE DEF q
  <2>7. /\ ui' \in UIs /\ ui'.phase = ui.phase
        /\ FollowsTheStore' /\ Follows' /\ Prompted' /\ Holding'
    BY <1>1, <2>3, <2>4, <2>5, <2>6, PromptPart
  <2>8. QED
    BY <1>1, <2>6, <2>7, ShellOnly
<1>6. CASE Act(t, p)
  <2> DEFINE i == p.item
             closed == [ui EXCEPT !.prompt[t] = NoPrompt]
             status == [store.status EXCEPT ![i] = After(family.kinds[i], p.act, @)]
  <2>1. UNCHANGED <<check, orch>> /\ p.act \in {"approve", "reject", "edit"}
    BY <1>6 DEF Act
  <2>2. Flowing'
    BY <1>1, <2>1, FlowingStill DEF SInv
  <2>3. CASE /\ asked' = [act |-> p.act, named |-> p.item, on |-> i]
             /\ store' = [store EXCEPT !.status = status]
             /\ ui' = [closed EXCEPT !.read[t] = status, !.at[t] = store.commits,
                          !.blind = @ \ {t},
                          !.row[t] = Kept(t, RowsOf(t), Rows(t, status, ui.wide), @)]
    <3>1. status \in [Items -> Statuses]
      BY <1>2 DEF Stores, After, Statuses
    <3> DEFINE r == Kept(t, RowsOf(t), Rows(t, status, ui.wide), closed.row[t])
    <3>2. /\ ClosedOn(t, ui, closed) /\ Fresher(ui, closed) /\ closed \in UIs
      BY <1>2, ClosedIs DEF ClosedOn
    <3> HIDE DEF status, closed
    <3>3. r \in 1..(ItemCount + 1)
      <4>1. RowsOf(t) \in RowLists /\ Rows(t, status, ui.wide) \in RowLists
        BY RowsAreLists DEF RowsOf
      <4>2. closed.row[t] \in Cursors
        BY <1>2, <3>2 DEF UIs, Cursors
      <4>3. QED
        BY <4>1, <4>2, KeptIsCursor DEF Cursors
    <3>4. ui' = [closed EXCEPT !.read[t] = status, !.at[t] = store.commits,
                               !.blind = @ \ {t}, !.row[t] = r]
      BY <1>2, <2>3, <3>2 DEF UIs
    <3> HIDE DEF r
    <3>5. store.commits \in 0..MaxCommits
      BY <1>2 DEF Stores
    <3> DEFINE v == Reread(closed, t, status, store.commits, r)
    <3>v. /\ v \in UIs /\ SameFace(closed, v)
          /\ v.version = closed.version /\ v.reading = closed.reading
          /\ v.stale = closed.stale /\ v.blind = closed.blind \ {t} /\ v.wide = closed.wide
          /\ v.at = [closed.at EXCEPT ![t] = store.commits]
          /\ v.read = [closed.read EXCEPT ![t] = status]
      BY <1>2, <3>1, <3>2, <3>3, <3>5, RereadIs
    <3>6. /\ ui' \in UIs /\ SameFace(closed, ui')
          /\ ui'.version = closed.version /\ ui'.reading = closed.reading
          /\ ui'.stale = closed.stale /\ ui'.blind = closed.blind \ {t}
          /\ ui'.at = [closed.at EXCEPT ![t] = store.commits]
      <4> HIDE DEF v
      <4>1. ui' = v
        BY <3>4 DEF v, Reread
      <4>2. QED
        BY <3>v, <4>1
    <3>7. ClosedOn(t, ui, ui')
      BY <3>2, <3>6 DEF ClosedOn, SameFace
    <3>8. Fresher(ui, ui')
      <4>1. closed.at \in [Shown -> 0..MaxCommits]
        BY <3>2 DEF UIs
      <4>2. \A s \in Shown : ui'.at[s] = IF s = t THEN store.commits ELSE closed.at[s]
        BY <3>6, <4>1
      <4>3. QED
        BY <3>2, <3>6, <4>2 DEF Fresher
    <3>9. store' \in Stores /\ store'.commits = store.commits
      BY <1>2, <2>3, <3>1 DEF Stores
    <3>10. asked' \in [act : Acts \union {"none"}, named : 0..ItemCount, on : 0..ItemCount]
      BY <1>3, <2>3
    <3>11. ActsAsNamed'
      BY <2>3 DEF ActsAsNamed
    <3>12. QED
      BY <1>2, <1>4, <2>1, <2>2, <3>7, <3>8, <3>9, <3>10, <3>11
  <2>4. CASE ui' = Load(closed, t) /\ UNCHANGED <<store, asked>>
    <3>1. ClosedOn(t, ui, ui') /\ Fresher(ui, ui')
      BY <1>2, <2>4, ClosedIs
    <3>2. ActsAsNamed'
      BY <1>1, <2>4 DEF SInv, ScreensAgree, ActsAsNamed
    <3>3. QED
      BY <1>2, <1>4, <2>1, <2>2, <2>4, <3>1, <3>2
  <2>5. QED
    BY <1>6, <2>3, <2>4 DEF Act, Target
<1>7. CASE Seal(t, p)
  <2>1. ui' = Load([ui EXCEPT !.prompt[t] = NoPrompt], t) /\ UNCHANGED <<store, check, orch, asked>>
    BY <1>7 DEF Seal
  <2>2. ClosedOn(t, ui, ui') /\ Fresher(ui, ui')
    BY <1>2, <2>1, ClosedIs
  <2>3. ActsAsNamed'
    BY <1>1, <2>1 DEF SInv, ScreensAgree, ActsAsNamed
  <2>4. Flowing'
    BY <1>1, <2>1, FlowingStill DEF SInv
  <2>5. QED
    BY <1>2, <1>4, <2>1, <2>2, <2>3, <2>4
<1>8. CASE StartCheck(t, p)
  <2>1. /\ ui' = Load([ui EXCEPT !.prompt[t] = NoPrompt], t) /\ UNCHANGED <<store, orch>>
        /\ p.act = "check" /\ check' = Started
        /\ asked' = [act |-> "check", named |-> p.item, on |-> ui.detail]
    BY <1>8 DEF StartCheck
  <2>2. ClosedOn(t, ui, ui') /\ Fresher(ui, ui')
    BY <1>2, <2>1, ClosedIs
  <2>3. t = "tasks" /\ ~check.on /\ (~family.ahead => p.item = ui.detail)
    BY <1>3, <2>1 DEF AskedHere
  <2>4. ActsAsNamed'
    BY <1>1, <2>1, <2>3 DEF ActsAsNamed
  <2>5. Flowing'
    <3>1. Flows(check', Sent("line"), Sent("end")) /\ Flows(orch'.stream, Sent("oline"), Sent("oend"))
      BY <1>2, <2>1, <2>3, StartFlows, SentOrNot DEF SInv, Flowing
    <3>2. QED
      BY <1>1, <3>1 DEF Flowing, Sent
  <2>6. asked' \in [act : Acts \union {"none"}, named : 0..ItemCount, on : 0..ItemCount]
    BY <1>2, <1>3, <2>1 DEF Acts
  <2>7. QED
    BY <1>2, <1>4, <2>1, <2>2, <2>3, <2>4, <2>5, <2>6, StartedFlows
<1>9. CASE StartOrch(t, p)
  <2>1. /\ ui' = [ui EXCEPT !.prompt[t] = NoPrompt] /\ UNCHANGED <<store, check, asked>>
        /\ p.act = "start"
        /\ orch' = [stream |-> Started, proc |-> "running"] \/ orch' = orch
    BY <1>9 DEF StartOrch
  <2>2. ClosedOn(t, ui, ui') /\ Fresher(ui, ui')
    BY <1>2, <2>1, ClosedIs
  <2>3. t = "orchestrator" /\ ~orch.stream.on
    BY <1>3, <2>1 DEF AskedHere
  <2>4. ActsAsNamed'
    BY <1>1, <2>1 DEF SInv, ScreensAgree, ActsAsNamed
  <2>5. orch' \in [stream : Streams, proc : Procs] /\ orch'.stream \in {Started, orch.stream}
    BY <1>2, <2>1, StartedFlows DEF Procs
  <2>6. Flowing'
    <3>1. Flows(check', Sent("line"), Sent("end")) /\ Flows(orch'.stream, Sent("oline"), Sent("oend"))
      BY <1>2, <2>1, <2>3, <2>5, StartFlows, SentOrNot DEF SInv, Flowing
    <3>2. QED
      BY <1>1, <3>1 DEF Flowing, Sent
  <2>7. QED
    BY <1>2, <1>4, <2>1, <2>2, <2>3, <2>4, <2>5, <2>6, StartedFlows
<1>10. QED
  BY <1>5, <1>6, <1>7, <1>8, <1>9 DEF Answer

-----------------------------------------------------------------------------
(* Interrupting, leaving, and messages.                                    *)

LEMMA KeyInterruptKeeps ==
  ASSUME SInv, KeyInterrupt
  PROVE  SInv'
<1>1. /\ store \in Stores /\ store.commits >= store.commits /\ inbox \subseteq Messages
      /\ check \in Streams /\ orch \in [stream : Streams, proc : Procs]
  BY TypedParts DEF SInv, ScreensAgree, Stores
<1>2. UNCHANGED <<family, store, ui, inbox, check, asked>> /\ orch.proc = "running"
      /\ orch' = [stream |-> orch.stream, proc |-> "interrupted"]
  BY <1>1 DEF KeyInterrupt
<1>3. orch' \in [stream : Streams, proc : Procs] /\ orch'.stream = orch.stream
  BY <1>1, <1>2 DEF Procs
<1>4. Flowing'
  BY <1>2, <1>3, FlowingStill DEF SInv
<1>5. QED
  BY <1>1, <1>2, <1>3, <1>4, Beside

LEMMA LeaveKeeps ==
  ASSUME SInv, Leave
  PROVE  SInv'
<1>1. /\ store \in Stores /\ store.commits >= store.commits /\ inbox \subseteq Messages
      /\ check \in Streams /\ orch \in [stream : Streams, proc : Procs] /\ ui \in UIs
      /\ UNCHANGED <<family, store, inbox, check, asked>>
  BY TypedParts DEF SInv, ScreensAgree, Stores, Leave
<1>2. CASE orch.proc = "running"
  <2>1. ui' = ui /\ orch' = [stream |-> orch.stream, proc |-> "interrupted"]
    BY <1>1, <1>2 DEF Leave
  <2>2. orch' \in [stream : Streams, proc : Procs] /\ orch'.stream = orch.stream
    BY <1>1, <2>1 DEF Procs
  <2>3. Flowing'
    BY <1>1, <2>2, FlowingStill DEF SInv
  <2>4. QED
    BY <1>1, <1>2, <2>1, <2>2, <2>3, Beside
<1>3. CASE orch.proc # "running"
  <2>1. ui' = [ui EXCEPT !.phase = "left"] /\ orch' = orch
        /\ orch.proc \notin {"running", "interrupted"}
    BY <1>3 DEF Leave
  <2>2. ui' \in UIs
    BY <1>1, <2>1 DEF UIs, Phases
  <2>3. /\ ui'.prompt = ui.prompt /\ ui'.active = ui.active /\ ui'.mode = ui.mode
        /\ ui'.searching = ui.searching /\ ui'.detail = ui.detail /\ ui'.reading = ui.reading
        /\ ui'.version = ui.version /\ ui'.stale = ui.stale /\ ui'.blind = ui.blind /\ ui'.at = ui.at
    BY <1>1, <2>1 DEF UIs
  <2>4. FollowsTheStore' /\ Follows'
    BY <1>1, <2>3, FollowsStill
  <2>5. Prompted'
    BY <1>1, <2>1, <2>3, PromptedStill DEF SInv
  <2>6. Holding'
    BY <1>1, <2>1, <2>3, HoldingStill DEF SInv, NothingQuick
  <2>7. QED
    BY <1>1, <2>1, <2>2, <2>4, <2>5, <2>6, ShellOnly
<1>4. QED
  BY <1>2, <1>3

\* What the messages the loop takes have in common: one leaves the inbox, and at
\* most a task to open enters it.
LEMMA Delivered ==
  ASSUME SInv, UNCHANGED <<family, store, asked>>, NEW m \in inbox,
         NEW more \in SUBSET Messages, inbox' = (inbox \ {m}) \union more,
         \A o \in more : o.kind = "open" /\ "tasks" \in Shown,
         ui' \in UIs, ui'.phase = ui.phase, ui.phase = "up",
         check' \in Streams, orch' \in [stream : Streams, proc : Procs],
         FollowsTheStore', Follows', Prompted', Holding', RunsAreHeard', Flowing'
  PROVE  SInv'
<1>1. /\ family \in Setups /\ store' \in Stores /\ inbox' \subseteq Messages
      /\ asked' \in [act : Acts \union {"none"}, named : 0..ItemCount, on : 0..ItemCount]
  BY TypedParts DEF SInv, ScreensAgree, ShellTypeOK
<1>2. ShellTypeOK'
  BY <1>1, TypeOfParts
<1>3. ActsAsNamed'
  BY DEF SInv, ScreensAgree, ActsAsNamed
<1>4. RunsAreKept'
  BY DEF RunsAreKept, NoRunOutlivesTheScreen
<1>5. OpensAreShown'
  BY DEF SInv, OpensAreShown, Shown
<1>6. QED
  BY <1>2, <1>3, <1>4, <1>5 DEF SInv, ScreensAgree

\* What the messages of each kind carry.
LEMMA MessageShapes ==
  ASSUME NEW m \in Messages
  PROVE  \/ m.kind \in {"palette", "row", "project"}
         \/ m.kind = "open" /\ m.at \in Items
         \/ m.kind \in {"line", "end", "oline", "oend"} /\ m = Message(m.kind, "", 0)
<1>1. \A to : Message("palette", to, 0).kind = "palette"
  BY DEF Message
<1>2. \A r : Message("row", "", r).kind = "row"
  BY DEF Message
<1>3. \A i : Message("open", "", i).kind = "open" /\ Message("open", "", i).at = i
  BY DEF Message
<1>4. \A k : Message(k, "", 0).kind = k
  BY DEF Message
<1>5. CASE m \in {Message("palette", to, 0) : to \in Shown \union {"refresh", "projects"}}
  BY <1>1, <1>5
<1>6. CASE m \in {Message("row", "", r) : r \in 1..ItemCount}
  BY <1>2, <1>6
<1>7. CASE m \in {Message("open", "", i) : i \in Items}
  BY <1>3, <1>7
<1>8. CASE m \in {Message(k, "", 0) : k \in {"project", "line", "end", "oline", "oend"}}
  BY <1>4, <1>8
<1>9. QED
  BY <1>5, <1>6, <1>7, <1>8 DEF Messages

\* A message of a widget, which no run awaits.
LEMMA QuickFlows ==
  ASSUME SInv, UNCHANGED <<check, orch>>, NEW m \in inbox, m.kind \in QuickKinds,
         NEW more, inbox' = (inbox \ {m}) \union more, \A o \in more : o.kind = "open"
  PROVE  Flowing' /\ (UNCHANGED family => RunsAreHeard')
<1>1. \A k : Message(k, "", 0).kind = k
  BY DEF Message
<1>2. \A k \in {"line", "end", "oline", "oend"} :
        Message(k, "", 0) \in inbox' <=> Message(k, "", 0) \in inbox
  BY <1>1 DEF QuickKinds
<1>3. Flowing'
  BY <1>2, FlowingStill DEF SInv
<1>4. QED
  BY <1>3 DEF SInv, RunsAreKept, RunsAreHeard

LEMMA TakeWidgetsKeep ==
  ASSUME SInv, Resting, UNCHANGED family, NEW m \in inbox,
         TakePalette(m) \/ TakeProject(m) \/ TakeRow(m) \/ TakeOpen(m),
         NEW more \in SUBSET Messages, inbox' = (inbox \ {m}) \union more,
         \A o \in more : o.kind = "open" /\ "tasks" \in Shown
  PROVE  SInv'
<1>1. /\ ui.reading = NoReading /\ ui.phase = "up" /\ ui \in UIs /\ store \in Stores
      /\ UNCHANGED <<family, store, check, orch, asked>>
      /\ m \in Messages /\ m.kind \in QuickKinds
      /\ check \in Streams /\ orch \in [stream : Streams, proc : Procs]
  BY TypedParts DEF SInv, ScreensAgree, Resting, TakePalette, TakeProject, TakeRow,
     TakeOpen, QuickKinds
<1>2. ~NothingQuick
  BY <1>1 DEF NothingQuick
<1>3. ~family.ahead => Free
  BY <1>2, FreeBy
<1>4. Flowing' /\ RunsAreHeard'
  BY <1>1, QuickFlows
<1>5. ASSUME ui' \in UIs, Fresher(ui, ui'), ui'.phase = ui.phase, ui'.prompt = ui.prompt,
             ui'.searching = ui.searching, ui'.detail = ui.detail \/ m.kind = "open"
      PROVE  SInv'
  <2>1. FollowsTheStore' /\ Follows'
    BY <1>1, <1>5, FollowsKept
  <2>2. Holding'
    BY <1>1, <1>3, <1>5, HoldingFree
  <2>3. Prompted'
    <3>1. CASE family.ahead
      BY <1>1, <1>5, <3>1 DEF SInv, Prompted, AskedHere, Shown
    <3>2. CASE ~family.ahead
      BY <1>1, <1>3, <1>5, <3>2 DEF Free, Prompted, Shown
    <3>3. QED
      BY <3>1, <3>2
  <2>4. QED
    BY <1>1, <1>4, <1>5, <2>1, <2>2, <2>3, Delivered
<1>6. ASSUME ui' = Reload(ui) PROVE SInv'
  <2>1. /\ ui' \in UIs /\ ui'.phase = ui.phase
        /\ FollowsTheStore' /\ Follows' /\ Prompted' /\ Holding'
    BY <1>1, <1>3, <1>6, ReloadPart
  <2>2. QED
    BY <1>1, <1>4, <2>1, Delivered
<1>7. ASSUME NEW t \in Shown, ui' \in Show(ui, t) PROVE SInv'
  <2>1. /\ ui' \in UIs /\ ui'.phase = ui.phase
        /\ FollowsTheStore' /\ Follows' /\ Prompted' /\ Holding'
    BY <1>1, <1>3, <1>7, ShowPart
  <2>2. QED
    BY <1>1, <1>4, <2>1, Delivered
<1>8. ASSUME ui' = ui PROVE SInv'
  <2>1. Fresher(ui, ui')
    BY <1>8 DEF Fresher
  <2>2. QED
    BY <1>1, <1>5, <1>8, <2>1
<1>9. CASE TakePalette(m)
  <2>1. CASE ui' = [ui EXCEPT !.mode = "projects"]
    <3>1. /\ ui' \in UIs /\ Fresher(ui, ui') /\ ui'.phase = ui.phase /\ ui'.prompt = ui.prompt
          /\ ui'.searching = ui.searching /\ ui'.detail = ui.detail
      BY <1>1, <2>1 DEF UIs, Fresher, Modes
    <3>2. QED
      BY <1>5, <3>1
  <2>2. QED
    BY <1>6, <1>7, <1>9, <2>1 DEF TakePalette
<1>10. CASE TakeProject(m)
  BY <1>6, <1>8, <1>10 DEF TakeProject
<1>11. CASE TakeRow(m)
  BY <1>8, <1>11 DEF TakeRow
<1>12. CASE TakeOpen(m)
  <2>1. PICK u \in Show(ui, "tasks") : ui' \in {u, OpenDetail(u, m.at)}
    BY <1>12 DEF TakeOpen
  <2>2. "tasks" \in Shown /\ m.at \in 0..ItemCount /\ m.kind = "open"
    <3>1. m.kind = "open"
      BY <1>12 DEF TakeOpen
    <3>2. m.at \in Items
      BY <1>1, <3>1, MessageShapes
    <3>3. QED
      BY <3>1, <3>2, ItemCountIsNat DEF SInv, OpensAreShown, Items
  <2>3. /\ u \in UIs /\ Fresher(ui, u) /\ u.phase = ui.phase /\ u.prompt = ui.prompt
        /\ u.searching = ui.searching /\ u.detail = ui.detail
    BY <1>1, <2>1, <2>2, ShowIs
  <2>4. CASE ui' = u
    BY <1>5, <2>3, <2>4
  <2>5. CASE ui' = OpenDetail(u, m.at)
    <3>1. /\ ui' \in UIs /\ ui'.phase = u.phase /\ ui'.prompt = u.prompt
          /\ ui'.searching = u.searching /\ ui'.version = u.version /\ ui'.reading = u.reading
          /\ ui'.stale = u.stale /\ ui'.blind = u.blind /\ ui'.at = u.at
      BY <2>2, <2>3, <2>5 DEF UIs, OpenDetail
    <3>2. Fresher(ui, ui')
      BY <2>3, <3>1 DEF Fresher
    <3>3. QED
      BY <1>5, <2>2, <2>3, <3>1, <3>2
  <2>6. QED
    BY <2>1, <2>4, <2>5
<1>13. QED
  BY <1>9, <1>10, <1>11, <1>12

LEMMA TakeRunsKeep ==
  ASSUME SInv, Resting, UNCHANGED family, NEW m \in inbox, TakeCheck(m) \/ TakeOrch(m),
         inbox' = inbox \ {m}
  PROVE  SInv'
<1> DEFINE s == orch.stream
<1>1. /\ ui.reading = NoReading /\ ui.phase = "up" /\ ui \in UIs /\ store \in Stores
      /\ UNCHANGED <<family, store, asked>> /\ store.commits >= store.commits
      /\ m \in Messages /\ m.kind \in {"line", "end", "oline", "oend"}
      /\ check \in Streams /\ orch \in [stream : Streams, proc : Procs] /\ s \in Streams
      /\ ui.active \in Shown
  BY TypedParts DEF SInv, ScreensAgree, Resting, TakeCheck, TakeOrch, Stores, UIs
<1>2. m = Message(m.kind, "", 0) /\ \A k : Message(k, "", 0).kind = k
  BY <1>1, MessageShapes DEF Message
<1>3. /\ \A k : Sent(k)' <=> Sent(k) /\ k # m.kind
      /\ Sent(m.kind)
  BY <1>2 DEF Sent
<1>4. /\ Flows(check, Sent("line"), Sent("end")) /\ Flows(s, Sent("oline"), Sent("oend"))
      /\ ~family.ahead => check.chain # "lost" /\ s.chain # "lost"
  BY DEF SInv, Flowing, RunsAreKept, RunsAreHeard
<1>5. ASSUME ui' \in UIs, SameFace(ui, ui'), Fresher(ui, ui'),
             check' \in Streams, orch' \in [stream : Streams, proc : Procs],
             check'.on => check.on, orch'.stream.on => s.on,
             ~family.ahead => check'.chain # "lost" /\ orch'.stream.chain # "lost",
             Flowing'
      PROVE  SInv'
  <2>1. FollowsTheStore' /\ Follows'
    BY <1>1, <1>5, FollowsKept
  <2>2. /\ ui'.phase = ui.phase /\ ui'.prompt = ui.prompt /\ ui'.searching = ui.searching
        /\ ui'.detail = ui.detail /\ ui'.active = ui.active /\ ui'.mode = ui.mode
        /\ ui'.reading = ui.reading
    BY <1>5 DEF SameFace, Fresher
  <2>3. Prompted'
    BY <1>1, <1>5, <2>2, PromptedStill DEF SInv
  <2>4. Holding'
    BY <1>1, <1>5, <2>2, HoldingStill DEF SInv, NothingQuick
  <2>5. RunsAreHeard'
    BY <1>1, <1>5 DEF RunsAreHeard
  <2>6. inbox' = (inbox \ {m}) \union {} /\ {} \in SUBSET Messages
    OBVIOUS
  <2>7. QED
    BY <1>1, <1>5, <2>1, <2>2, <2>3, <2>4, <2>5, <2>6, Delivered
<1>6. SameFace(ui, ui) /\ Fresher(ui, ui)
  BY DEF SameFace, Fresher
<1>7. CASE TakeCheck(m)
  <2>1. /\ orch' = orch /\ m.kind \in {"line", "end"}
        /\ (Sent("oline")' <=> Sent("oline")) /\ (Sent("oend")' <=> Sent("oend"))
    BY <1>3, <1>7 DEF TakeCheck
  <2>2. m.kind = "line" => Flows(check, TRUE, FALSE) /\ ~Sent("line")' /\ ~Sent("end")'
    BY <1>3, <1>4 DEF Flows
  <2>3. m.kind = "end" => Flows(check, FALSE, TRUE) /\ ~Sent("line")' /\ ~Sent("end")'
    BY <1>3, <1>4 DEF Flows
  <2>4. ASSUME Flows(check', FALSE, FALSE) PROVE Flowing'
    BY <1>4, <2>1, <2>2, <2>3, <2>4 DEF Flowing, Flows
  <2>5. CASE ui.active # "tasks" /\ check' = Unheard(check) /\ ui' = ui
    <3>1. check' \in Streams /\ Flows(check', FALSE, FALSE) /\ check'.on = check.on
      BY <1>1, <2>1, <2>2, <2>3, <2>5, UnheardFlows
    <3>2. family.ahead
      <4>1. check.on
        BY <2>1, <2>2, <2>3 DEF Flows
      <4>2. QED
        BY <2>5, <4>1 DEF SInv, Holding, Alone
    <3>3. QED
      BY <1>1, <1>5, <1>6, <2>1, <2>4, <2>5, <3>1, <3>2
  <2>6. CASE m.kind = "line" /\ check' = ShowLine(check) /\ ui' = ui
    <3>1. /\ check' \in Streams /\ Flows(check', FALSE, FALSE) /\ check'.on = check.on
          /\ check'.chain # "lost"
      BY <1>1, <2>2, <2>6, ShowLineFlows
    <3>2. QED
      BY <1>1, <1>4, <1>5, <1>6, <2>1, <2>4, <2>6, <3>1
  <2>7. CASE /\ m.kind = "end" /\ ui.active = "tasks"
             /\ check' \in {LetGo(check, ToldAtEnd(check)), LetGo(check, 0)}
             /\ ui' \in {Load(ui, "tasks"), Failed(ui, "tasks")}
    <3>1. check' \in Streams /\ Flows(check', FALSE, FALSE) /\ ~check'.on /\ check'.chain # "lost"
      <4>1. ToldAtEnd(check) \in 0..MaxLines /\ 0 \in 0..MaxLines
        BY <1>1, StreamFields, StreamBounds DEF ToldAtEnd
      <4>2. PICK told \in 0..MaxLines : check' = LetGo(check, told)
        BY <2>7, <4>1
      <4>3. Flows(check, FALSE, TRUE)
        BY <2>3, <2>7
      <4>4. QED
        BY <1>1, <4>2, <4>3, EndFlows
    <3>2. ui' \in UIs /\ SameFace(ui, ui') /\ Fresher(ui, ui')
      BY <1>1, <2>7, EndedScreen
    <3>3. QED
      BY <1>1, <1>4, <1>5, <2>1, <2>4, <3>1, <3>2
  <2>8. QED
    BY <1>7, <2>5, <2>6, <2>7 DEF TakeCheck
<1>8. CASE TakeOrch(m)
  <2>1. /\ check' = check /\ m.kind \in {"oline", "oend"}
        /\ (Sent("line")' <=> Sent("line")) /\ (Sent("end")' <=> Sent("end"))
    BY <1>3, <1>8 DEF TakeOrch
  <2>2. m.kind = "oline" => Flows(s, TRUE, FALSE) /\ ~Sent("oline")' /\ ~Sent("oend")'
    BY <1>3, <1>4 DEF Flows
  <2>3. m.kind = "oend" => Flows(s, FALSE, TRUE) /\ ~Sent("oline")' /\ ~Sent("oend")'
    BY <1>3, <1>4 DEF Flows
  <2>4. ASSUME Flows(orch'.stream, FALSE, FALSE) PROVE Flowing'
    BY <1>4, <2>1, <2>2, <2>3, <2>4 DEF Flowing, Flows
  <2>5. CASE /\ ui.active # "orchestrator" /\ ui' = ui
             /\ orch' = [stream |-> Unheard(s), proc |-> orch.proc]
    <3>1. /\ orch' \in [stream : Streams, proc : Procs] /\ Flows(orch'.stream, FALSE, FALSE)
          /\ orch'.stream.on = s.on
      BY <1>1, <2>1, <2>2, <2>3, <2>5, UnheardFlows
    <3>2. family.ahead
      <4>1. s.on
        BY <2>1, <2>2, <2>3 DEF Flows
      <4>2. QED
        BY <2>5, <4>1 DEF SInv, Holding, Alone
    <3>3. QED
      BY <1>1, <1>5, <1>6, <2>1, <2>4, <2>5, <3>1, <3>2
  <2>6. CASE m.kind = "oline" /\ ui' = ui /\ orch' = [stream |-> ShowLine(s), proc |-> orch.proc]
    <3>1. /\ orch' \in [stream : Streams, proc : Procs] /\ Flows(orch'.stream, FALSE, FALSE)
          /\ orch'.stream.on = s.on /\ orch'.stream.chain # "lost"
      BY <1>1, <2>2, <2>6, ShowLineFlows
    <3>2. QED
      BY <1>1, <1>4, <1>5, <1>6, <2>1, <2>4, <2>6, <3>1
  <2>7. CASE /\ m.kind = "oend" /\ ui.active = "orchestrator"
             /\ orch' = [stream |-> LetGo(s, 0), proc |-> orch.proc]
             /\ ui' \in {Load(ui, "orchestrator"), Failed(ui, "orchestrator")}
    <3>1. /\ LetGo(s, 0) \in Streams /\ Flows(LetGo(s, 0), FALSE, FALSE)
          /\ ~LetGo(s, 0).on /\ LetGo(s, 0).chain # "lost"
      <4>1. 0 \in 0..MaxLines
        BY StreamBounds
      <4>2. QED
        BY <1>1, <2>3, <2>7, <4>1, EndFlows
    <3>2. /\ orch' \in [stream : Streams, proc : Procs] /\ orch'.stream = LetGo(s, 0)
      BY <1>1, <2>7, <3>1
    <3>3. ui' \in UIs /\ SameFace(ui, ui') /\ Fresher(ui, ui')
      BY <1>1, <2>7, EndedScreen
    <3>4. QED
      BY <1>1, <1>4, <1>5, <2>1, <2>4, <3>1, <3>2, <3>3
  <2>8. QED
    <3>1. \/ /\ ui.active # "orchestrator" /\ ui' = ui
             /\ orch' = [orch EXCEPT !.stream = Unheard(@)]
          \/ m.kind = "oline" /\ ui' = ui /\ orch' = [orch EXCEPT !.stream = ShowLine(@)]
          \/ /\ m.kind = "oend" /\ ui.active = "orchestrator"
             /\ orch' = [orch EXCEPT !.stream = LetGo(@, 0)]
             /\ ui' \in {Load(ui, "orchestrator"), Failed(ui, "orchestrator")}
      BY <1>8 DEF TakeOrch
    <3>2. /\ [orch EXCEPT !.stream = Unheard(@)] = [stream |-> Unheard(s), proc |-> orch.proc]
          /\ [orch EXCEPT !.stream = ShowLine(@)] = [stream |-> ShowLine(s), proc |-> orch.proc]
          /\ [orch EXCEPT !.stream = LetGo(@, 0)] = [stream |-> LetGo(s, 0), proc |-> orch.proc]
      <4>1. orch = [stream |-> s, proc |-> orch.proc]
        BY <1>1
      <4> HIDE DEF s
      <4>2. [orch EXCEPT !.stream = Unheard(@)] = [stream |-> Unheard(s), proc |-> orch.proc]
        BY <4>1
      <4>3. [orch EXCEPT !.stream = ShowLine(@)] = [stream |-> ShowLine(s), proc |-> orch.proc]
        BY <4>1
      <4>4. [orch EXCEPT !.stream = LetGo(@, 0)] = [stream |-> LetGo(s, 0), proc |-> orch.proc]
        BY <4>1
      <4>5. QED
        BY <4>2, <4>3, <4>4
    <3>3. QED
      BY <2>5, <2>6, <2>7, <3>1, <3>2
<1>9. QED
  BY <1>7, <1>8

LEMMA DeliverKeeps ==
  ASSUME SInv, Deliver
  PROVE  SInv'
<1>1. PICK m \in inbox :
        /\ \/ TakePalette(m) \/ TakeProject(m) \/ TakeRow(m) \/ TakeOpen(m)
           \/ TakeCheck(m) \/ TakeOrch(m)
        /\ inbox' = (inbox \ {m}) \union
              (IF RowOpens(m) THEN {Message("open", "", RowsOf("tasks")[m.at])} ELSE {})
  BY DEF Deliver
<1>2. Resting /\ UNCHANGED family
  BY DEF Deliver
<1>3. CASE RowOpens(m)
  <2> DEFINE i == RowsOf("tasks")[m.at]
             o == Message("open", "", i)
  <2>1. i \in Items
    <3>1. RowsOf("tasks") \in RowLists
      BY RowsAreLists DEF RowsOf
    <3>2. QED
      BY <1>3, <3>1 DEF RowOpens, RowLists
  <2>2. o \in Messages /\ o.kind = "open"
    <3> HIDE DEF i
    <3>1. QED
      BY <2>1 DEF Messages, Message
  <2>3. "tasks" \in Shown
    BY <1>3 DEF RowOpens, SInv, ScreensAgree, ShellTypeOK
  <2>4. TakeRow(m)
    BY <1>1, <1>3 DEF RowOpens, TakePalette, TakeProject, TakeRow, TakeOpen, TakeCheck, TakeOrch
  <2> HIDE DEF o
  <2>5. inbox' = (inbox \ {m}) \union {o}
    BY <1>1, <1>3 DEF o
  <2>6. {o} \in SUBSET Messages /\ \A x \in {o} : x.kind = "open" /\ "tasks" \in Shown
    BY <2>2, <2>3
  <2>7. QED
    BY <1>2, <2>4, <2>5, <2>6, TakeWidgetsKeep
<1>4. CASE ~RowOpens(m)
  <2>1. inbox' = (inbox \ {m}) \union {} /\ inbox' = inbox \ {m}
    BY <1>1, <1>4
  <2>2. QED
    BY <1>1, <1>2, <2>1, TakeWidgetsKeep, TakeRunsKeep
<1>5. QED
  BY <1>3, <1>4

-----------------------------------------------------------------------------
(* The theorems.                                                           *)

LEMMA StepKeeps ==
  ASSUME SInv, [ShellNext]_shellVars
  PROVE  SInv'
<1>1. CASE UNCHANGED shellVars
  <2>1. /\ store \in Stores /\ store.commits >= store.commits /\ inbox \subseteq Messages
        /\ check \in Streams /\ orch \in [stream : Streams, proc : Procs]
    BY TypedParts DEF SInv, ScreensAgree, Stores
  <2>2. UNCHANGED <<family, store, ui, inbox, check, orch, asked>>
    BY <1>1 DEF shellVars
  <2>3. Flowing'
    BY <2>2, FlowingStill DEF SInv
  <2>4. FollowsTheStore' /\ ActsAsNamed' /\ RunsAreKept'
    BY <2>2 DEF SInv, ScreensAgree, RunsAreKept, RunsAreHeard, NoRunOutlivesTheScreen,
                ActsAsNamed, FollowsTheStore, Shown
  <2>t. ShellTypeOK'
    <3>1. /\ family \in Setups /\ ui \in UIs
          /\ asked \in [act : Acts \union {"none"}, named : 0..ItemCount, on : 0..ItemCount]
      BY TypedParts DEF SInv, ScreensAgree, ShellTypeOK
    <3>2. QED
      BY <2>1, <2>2, <3>1, TypeOfParts
  <2>5. Follows' /\ Prompted' /\ Holding' /\ OpensAreShown'
    BY <2>2 DEF SInv, Follows, Prompted, AskedHere, Holding, Alone, NothingQuick,
       OpensAreShown, Shown
  <2>6. QED
    BY <2>3, <2>4, <2>t, <2>5 DEF SInv, ScreensAgree
<1>2. CASE Commit \/ CheckWrites \/ CheckEnds \/ OrchWrites \/ OrchEnds \/ CheckReports \/ OrchReports
  BY <1>2, CommitKeeps, CheckOutputKeeps, OrchOutputKeeps
<1>3. CASE Tick \/ ReadNext
  BY <1>3, TickKeeps, ReadNextKeeps
<1>4. CASE KeyShow \/ KeyRefresh \/ KeyOverlay \/ OverlayEsc \/ OverlayEnter
  BY <1>4, ShellKeysKeep, OverlayEnterKeeps
<1>5. CASE KeyMove \/ KeySearch \/ KeyFilter \/ KeyEnter \/ KeyBack
  BY <1>5, ListKeysKeep, TaskKeysKeep, KeyEnterKeeps
<1>6. CASE KeyAsk \/ KeyStart \/ KeySeal \/ AnswerNo \/ Answer \/ KeyInterrupt
  BY <1>6, AskKeysKeep, AnswerKeeps, KeyInterruptKeeps
<1>7. CASE Deliver \/ Quit \/ Leave
  BY <1>7, DeliverKeeps, QuitKeeps, LeaveKeeps
<1>8. QED
  BY <1>1, <1>2, <1>3, <1>4, <1>5, <1>6, <1>7 DEF ShellNext

LEMMA SInvAlways ==
  ShellSpec => []SInv
BY SInvInit, StepKeeps, PTL DEF ShellSpec

\* What an action ran on is what its question named, and a screen that does not
\* count as stale is not behind what the shell has noted (actions.go, shell.go).
THEOREM ScreensAgreeAlways ==
  ShellSpec => []ScreensAgree
<1>1. SInv => ScreensAgree
  BY DEF SInv
<1>2. QED
  BY <1>1, SInvAlways, PTL

\* A run's messages reach the screen it belongs to, and no orchestrator outlives
\* the terminal UI (checkrun.go, orchestrator.go).
THEOREM RunsAreKeptAlways ==
  ShellSpec => []RunsAreKept
<1>1. SInv => RunsAreKept
  BY DEF SInv
<1>2. QED
  BY <1>1, SInvAlways, PTL

\* What none of these reads again: they leave every screen's rows.
LEMMA RowsStay ==
  ASSUME SInv,
         \/ Commit \/ CheckWrites \/ CheckEnds \/ OrchWrites \/ OrchEnds
         \/ CheckReports \/ OrchReports \/ KeyRefresh \/ KeyOverlay \/ OverlayEsc
         \/ OverlayEnter \/ KeyMove \/ KeySearch \/ KeyEnter \/ KeyBack
         \/ KeyAsk \/ KeyStart \/ KeySeal \/ AnswerNo \/ KeyInterrupt \/ Quit \/ Leave
  PROVE  ui'.read = ui.read
<1>1. ui \in UIs
  BY TypedParts DEF SInv, ScreensAgree
<1>2. CASE \/ Commit \/ CheckWrites \/ CheckEnds \/ OrchWrites \/ OrchEnds
           \/ CheckReports \/ OrchReports \/ OverlayEnter \/ KeyEnter \/ KeyInterrupt
  BY <1>2 DEF Commit, CheckWrites, CheckEnds, OrchWrites, OrchEnds, CheckReports, OrchReports,
              OverlayEnter, KeyEnter, KeyInterrupt
<1>3. CASE KeyRefresh \/ KeyOverlay \/ OverlayEsc \/ Quit
  BY <1>1, <1>3 DEF KeyRefresh, Reload, KeyOverlay, OverlayEsc, Quit, UIs
<1>4. CASE KeyMove \/ KeySearch \/ KeyBack
  BY <1>1, <1>4 DEF KeyMove, KeySearch, KeyBack, UIs
<1>5. CASE KeyAsk \/ KeyStart \/ KeySeal \/ AnswerNo
  BY <1>1, <1>5 DEF KeyAsk, KeyStart, KeySeal, AnswerNo, UIs
<1>6. CASE Leave
  BY <1>1, <1>6 DEF Leave, UIs
<1>7. QED
  BY <1>2, <1>3, <1>4, <1>5, <1>6

\* Who holds the keyboard is alone with it, unless a person types ahead.
LEMMA WhoHolds ==
  ASSUME SInv, ~family.ahead, Capturing(ui, ui.active)
  PROVE  Alone(ui.active) /\ ~Free
<1>1. ui.active \in Shown
  BY DEF SInv, ScreensAgree, ShellTypeOK
<1>2. QED
  BY <1>1 DEF SInv, Holding, Alone, Free, Capturing

\* Once a question about an item is answered, nobody holds the screen.
LEMMA AnsweredLetsGo ==
  ASSUME SInv, ~family.ahead, ui.prompt[ui.active] # NoPrompt,
         ui.prompt[ui.active].act # "start", UNCHANGED orch, check'.on = check.on,
         ui'.active = ui.active, ui'.prompt[ui.active] = NoPrompt,
         ui'.searching = ui.searching
  PROVE  ~Capturing(ui, ui.active)'
<1> DEFINE t == ui.active
<1>1. ui \in UIs /\ t \in Shown /\ ui.prompt \in [Shown -> Prompts]
  BY TypedParts DEF SInv, ScreensAgree, UIs
<1>2. AskedHere(t, ui.prompt[t])
  BY <1>1 DEF SInv, Prompted
<1>3. ui'.prompt[t] = NoPrompt /\ ui'.active = t /\ ui'.searching = ui.searching
  OBVIOUS
<1>4. t = "tasks" => ~ui.searching /\ ~check.on
  BY <1>2 DEF AskedHere, SInv, Holding
<1>5. t = "orchestrator" => ~orch.stream.on
  BY <1>2 DEF AskedHere
<1>6. QED
  BY <1>3, <1>4, <1>5 DEF Capturing

LEMMA AnswerHolds ==
  ASSUME SInv, Answer
  PROVE  RowsHoldStill /\ OutputAccountedFor
<1> DEFINE t == ui.active
           p == ui.prompt[t]
<1>1. ui \in UIs /\ store \in Stores /\ t \in Shown /\ p # NoPrompt /\ p \in Prompts
  BY TypedParts DEF SInv, ScreensAgree, UIs, Answer
<1>2. AskedHere(t, p)
  BY <1>1 DEF SInv, Prompted
<1>3. CASE More(t, p) \/ AskToken(t, p)
  <2>1. ui'.read = ui.read /\ check' = check
    BY <1>1, <1>3 DEF More, AskToken, UIs
  <2>2. QED
    BY <2>1 DEF RowsHoldStill, OutputAccountedFor
<1>4. CASE Act(t, p) \/ Seal(t, p)
  <2>1. check' = check /\ orch' = orch /\ p.act # "start"
    BY <1>4 DEF Act, Seal
  <2> DEFINE closed == [ui EXCEPT !.prompt[t] = NoPrompt]
  <2>2. ui'.active = t /\ ui'.prompt[t] = NoPrompt /\ ui'.searching = ui.searching
    <3>1. ClosedOn(t, ui, closed) /\ ClosedOn(t, ui, Load(closed, t))
      BY <1>1, ClosedIs
    <3>a. ui.prompt \in [Shown -> Prompts] /\ closed \in UIs
      BY <1>1, <3>1 DEF ClosedOn, UIs
    <3>2. \/ ui' = Load(closed, t)
          \/ \E taken, at, blind, row :
               ui' = [closed EXCEPT !.read[t] = taken, !.at[t] = at, !.blind = blind, !.row[t] = row]
      <4>1. CASE Seal(t, p)
        BY <4>1 DEF Seal
      <4>2. CASE Act(t, p)
        <5> DEFINE status == [store.status EXCEPT ![p.item] = After(family.kinds[p.item], p.act, @)]
                   row == Kept(t, RowsOf(t), Rows(t, status, ui.wide), closed.row[t])
        <5>1. \/ ui' = Load(closed, t)
              \/ ui' = [closed EXCEPT !.read[t] = status, !.at[t] = store.commits,
                          !.blind = @ \ {t},
                          !.row[t] = Kept(t, RowsOf(t), Rows(t, status, ui.wide), @)]
          BY <4>2 DEF Act, Target
        <5> HIDE DEF status
        <5>2. [closed EXCEPT !.read[t] = status, !.at[t] = store.commits, !.blind = @ \ {t},
                          !.row[t] = Kept(t, RowsOf(t), Rows(t, status, ui.wide), @)]
              = [closed EXCEPT !.read[t] = status, !.at[t] = store.commits,
                          !.blind = closed.blind \ {t}, !.row[t] = row]
          BY <1>1, <3>a DEF UIs
        <5> HIDE DEF row, closed
        <5>3. CASE ui' = Load(closed, t)
          BY <5>3
        <5>4. CASE ui' # Load(closed, t)
          <6> SUFFICES \E taken, at, blind, r :
                 ui' = [closed EXCEPT !.read[t] = taken, !.at[t] = at, !.blind = blind, !.row[t] = r]
            OBVIOUS
          <6> WITNESS status, store.commits, closed.blind \ {t}, row
          <6> QED
            BY <5>1, <5>2, <5>4
        <5>5. QED
          BY <5>3, <5>4
      <4>3. QED
        BY <1>4, <4>1, <4>2
    <3> HIDE DEF closed
    <3>3. CASE ui' = Load(closed, t)
      BY <1>1, <3>1, <3>a, <3>3 DEF ClosedOn
    <3>4. CASE \E taken, at, blind, row :
               ui' = [closed EXCEPT !.read[t] = taken, !.at[t] = at, !.blind = blind, !.row[t] = row]
      <4>1. ui'.active = closed.active /\ ui'.prompt = closed.prompt /\ ui'.searching = closed.searching
        BY <3>a, <3>4 DEF UIs
      <4>2. QED
        BY <1>1, <3>1, <3>a, <4>1 DEF ClosedOn
    <3>5. QED
      BY <3>2, <3>3, <3>4
  <2>3. ~family.ahead => ~Capturing(ui, ui.active)'
    BY <1>1, <2>1, <2>2, AnsweredLetsGo
  <2>4. QED
    BY <2>1, <2>3 DEF RowsHoldStill, OutputAccountedFor
<1>5. CASE StartCheck(t, p)
  <2>1. check' = Started /\ ~check.on
    BY <1>2, <1>5 DEF StartCheck, AskedHere
  <2>2. QED
    BY <2>1, StartedFlows DEF RowsHoldStill, OutputAccountedFor
<1>6. CASE StartOrch(t, p)
  <2>1. ui'.read = ui.read /\ check' = check
    BY <1>1, <1>6 DEF StartOrch, UIs
  <2>2. QED
    BY <2>1 DEF RowsHoldStill, OutputAccountedFor
<1>7. QED
  BY <1>3, <1>4, <1>5, <1>6 DEF Answer

LEMMA DeliverHolds ==
  ASSUME SInv, Deliver
  PROVE  RowsHoldStill /\ OutputAccountedFor
<1>1. PICK m \in inbox :
        \/ TakePalette(m) \/ TakeProject(m) \/ TakeRow(m) \/ TakeOpen(m)
        \/ TakeCheck(m) \/ TakeOrch(m)
  BY DEF Deliver
<1>2. /\ m \in Messages /\ check \in Streams /\ orch.stream \in Streams
      /\ ui.active \in Shown /\ UNCHANGED family
      /\ Flows(check, Sent("line"), Sent("end")) /\ Flows(orch.stream, Sent("oline"), Sent("oend"))
  BY TypedParts DEF SInv, ScreensAgree, ShellTypeOK, UIs, Flowing, Deliver
<1>3. CASE TakePalette(m) \/ TakeProject(m) \/ TakeRow(m) \/ TakeOpen(m)
  <2>1. check' = check /\ m.kind \in QuickKinds
    BY <1>3 DEF TakePalette, TakeProject, TakeRow, TakeOpen, QuickKinds
  <2>2. ~NothingQuick
    BY <2>1 DEF NothingQuick
  <2>3. ~family.ahead => ~Capturing(ui, ui.active)
    BY <2>2, FreeBy, WhoHolds
  <2>4. QED
    BY <2>1, <2>3 DEF RowsHoldStill, OutputAccountedFor
<1>4. CASE TakeCheck(m)
  <2>1. CASE ui' = ui /\ check' \in {Unheard(check), ShowLine(check)}
    <3>1. check'.on = check.on
      BY <1>2, <2>1 DEF Unheard, ShowLine, Streams
    <3>2. QED
      BY <2>1, <3>1 DEF RowsHoldStill, OutputAccountedFor
  <2>2. CASE /\ m.kind = "end"
             /\ \/ check' = LetGo(check, ToldAtEnd(check)) /\ ui' = Load(ui, "tasks")
                \/ check' = LetGo(check, 0) /\ ui' = Failed(ui, "tasks")
             /\ ui.active = "tasks"
    <3>1. Sent("end")
      BY <1>2, <2>2, MessageShapes DEF Sent
    <3>2. ~Sent("line") /\ check.on
      BY <1>2, <3>1 DEF Flows
    <3>3. Flows(check, FALSE, TRUE)
      BY <1>2, <3>1, <3>2 DEF Flows
    <3>4. /\ Accounted(check) /\ ~check'.on
          /\ ui' # Failed(ui, "tasks") => check'.told = ToldAtEnd(check)
      <4>1. ToldAtEnd(check) \in 0..MaxLines /\ 0 \in 0..MaxLines
        BY <1>2, StreamFields, StreamBounds DEF ToldAtEnd
      <4>2. QED
        BY <1>2, <2>2, <3>3, <4>1, EndFlows
    <3>5. ui' = Failed(ui, "tasks") => "tasks" \in ui'.blind
      BY <1>2, <2>2, TypedParts, FailedIs DEF SInv, ScreensAgree
    <3>6. QED
      BY <3>2, <3>4, <3>5 DEF RowsHoldStill, OutputAccountedFor, Accounted, ToldAtEnd
  <2>3. QED
    BY <1>4, <2>1, <2>2 DEF TakeCheck
<1>5. CASE TakeOrch(m)
  <2>1. check' = check
    BY <1>5 DEF TakeOrch
  <2>2. CASE ui' = ui
    BY <2>1, <2>2 DEF RowsHoldStill, OutputAccountedFor
  <2>3. CASE /\ m.kind = "oend" /\ ui.active = "orchestrator"
             /\ orch' = [orch EXCEPT !.stream = LetGo(@, 0)]
             /\ ui' \in {Load(ui, "orchestrator"), Failed(ui, "orchestrator")}
    <3>1. Sent("oend")
      BY <1>2, <2>3, MessageShapes DEF Sent
    <3>2. orch.stream.on
      BY <1>2, <3>1 DEF Flows
    <3>3. ui.prompt["orchestrator"] = NoPrompt
      BY <1>2, <2>3, <3>2 DEF SInv, Prompted, AskedHere
    <3>4. SameFace(ui, ui') /\ ui \in UIs
      <4>1. ui \in UIs /\ store \in Stores
        BY TypedParts DEF SInv, ScreensAgree
      <4>2. QED
        BY <2>3, <4>1, EndedScreen
    <3>5. ~orch'.stream.on
      <4>1. orch \in [stream : Streams, proc : Procs]
        BY TypedParts DEF SInv, ScreensAgree
      <4>2. orch' = [stream |-> LetGo(orch.stream, 0), proc |-> orch.proc]
        BY <2>3, <4>1
      <4>3. QED
        BY <4>2 DEF LetGo, NoStream
    <3>6. ~Capturing(ui, ui.active)'
      BY <2>3, <3>3, <3>4, <3>5 DEF Capturing, SameFace
    <3>7. QED
      BY <2>1, <3>6 DEF RowsHoldStill, OutputAccountedFor
  <2>4. QED
    BY <1>5, <2>2, <2>3 DEF TakeOrch
<1>6. QED
  BY <1>1, <1>3, <1>4, <1>5

\* The rows of the screen that holds the keyboard stay as they are but for acting
\* and for a run's end, and a check's end finds no line on its way and, of a
\* recorded check on a screen that could be read again, says how many were not
\* shown (fresh, shell.go; runUpdate, checkrun.go).
THEOREM NothingMovesUnseenEver ==
  ShellSpec => NothingMovesUnseen
<1>1. ASSUME SInv, ShellNext PROVE RowsHoldStill /\ OutputAccountedFor
  <2>1. /\ ui \in UIs /\ store \in Stores /\ ui.active \in Shown
        /\ check \in Streams
    BY <1>1, TypedParts DEF SInv, ScreensAgree, UIs
  <2>2. CASE \/ Commit \/ CheckWrites \/ CheckEnds \/ OrchWrites \/ OrchEnds
             \/ CheckReports \/ OrchReports \/ KeyRefresh \/ KeyOverlay \/ OverlayEsc
             \/ OverlayEnter \/ KeyMove \/ KeySearch \/ KeyEnter \/ KeyBack
             \/ KeyAsk \/ KeyStart \/ KeySeal \/ AnswerNo \/ KeyInterrupt \/ Quit \/ Leave
    <3>1. ui'.read = ui.read
      BY <1>1, <2>2, RowsStay
    <3>2. check' \in {check, Send(check), TakeLine(check), TakeEnd(check)}
            \union {Close(check, o) : o \in Outcomes}
      BY <2>2 DEF Commit, CheckWrites, CheckEnds, OrchWrites, OrchEnds, CheckReports,
         OrchReports,
                  KeyRefresh, KeyOverlay, OverlayEsc, OverlayEnter, KeyMove, KeySearch, KeyEnter,
                  KeyBack, KeyAsk, KeyStart, KeySeal, AnswerNo, KeyInterrupt, Quit, Leave
    <3>3. check'.on = check.on
      BY <2>1, <3>2 DEF Send, Close, TakeLine, TakeEnd, Streams
    <3>4. QED
      BY <3>1, <3>3 DEF RowsHoldStill, OutputAccountedFor
  <2>3. CASE Tick
    <3>1. Capturing(ui, ui.active) => ui'.read = ui.read
      <4>1. CASE ui' \in Fresh(ui)
        BY <2>1, <4>1, FreshIs
      <4>2. CASE ui' \notin Fresh(ui)
        BY <2>1, <2>3, <4>2 DEF Tick, UIs
      <4>3. QED
        BY <4>1, <4>2
    <3>2. check' = check
      BY <2>3 DEF Tick
    <3>3. QED
      BY <3>1, <3>2 DEF RowsHoldStill, OutputAccountedFor
  <2>4. CASE ReadNext
    <3>1. check' = check
      BY <2>4 DEF ReadNext
    <3>2. CASE ui.reading.kind = "reload"
      <4>1. ~family.ahead => ~Capturing(ui, ui.active)
        BY <1>1, <3>2, WhoHolds DEF Alone
      <4>2. QED
        BY <3>1, <4>1 DEF RowsHoldStill, OutputAccountedFor
    <3>3. CASE ui.reading.kind # "reload"
      <4>1. PICK u \in Fresh(ui) : ui' = [u EXCEPT !.reading = NoReading]
        BY <2>4, <3>3 DEF ReadNext
      <4>2. u \in UIs /\ (Capturing(ui, ui.active) => u.read = ui.read)
        BY <2>1, FreshIs
      <4>3. ui'.read = u.read
        BY <4>1, <4>2 DEF UIs
      <4>4. QED
        BY <3>1, <4>2, <4>3 DEF RowsHoldStill, OutputAccountedFor
    <3>4. QED
      BY <3>2, <3>3
  <2>5. CASE KeyShow
    <3>1. check' = check
      BY <2>5 DEF KeyShow
    <3>2. ui'.active # ui.active
      <4>1. PICK t \in Shown \ {ui.active} : ui' \in Show(ui, t)
        BY <2>5 DEF KeyShow
      <4>2. QED
        BY <2>1, <4>1, ShowIs
    <3>3. QED
      BY <3>1, <3>2 DEF RowsHoldStill, OutputAccountedFor
  <2>6. CASE KeyFilter
    <3>1. check' = check
      BY <2>6 DEF KeyFilter
    <3>2. CASE OnScreen("tasks")
      <4>1. ui'.read = ui.read
        BY <2>1, <2>6, <3>2 DEF KeyFilter, OnScreen, UIs
      <4>2. QED
        BY <3>1, <4>1 DEF RowsHoldStill, OutputAccountedFor
    <3>3. CASE ~OnScreen("tasks")
      <4>1. ~Capturing(ui, ui.active)
        BY <2>6, <3>3 DEF KeyFilter, OnScreen, Capturing
      <4>2. QED
        BY <3>1, <4>1 DEF RowsHoldStill, OutputAccountedFor
    <3>4. QED
      BY <3>2, <3>3
  <2>7. CASE Answer
    BY <1>1, <2>7, AnswerHolds
  <2>8. CASE Deliver
    BY <1>1, <2>8, DeliverHolds
  <2>9. QED
    BY <1>1, <2>2, <2>3, <2>4, <2>5, <2>6, <2>7, <2>8 DEF ShellNext
<1>2. SInv /\ [ShellNext]_shellVars => [RowsHoldStill /\ OutputAccountedFor]_shellVars
  BY <1>1
<1>3. QED
  BY <1>2, SInvAlways, PTL DEF ShellSpec, NothingMovesUnseen

=============================================================================
