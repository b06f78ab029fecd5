----------------------------- MODULE SpecProofs -----------------------------
(***************************************************************************)
(* Theorems of Specs: operations that read before their transaction still  *)
(* commit one step of SpecRows each, so they keep what it keeps.           *)
(***************************************************************************)
EXTENDS Specs, TLAPS

-----------------------------------------------------------------------------
(* The rows, whoever writes them.                                          *)

LEMMA RowsInitially == SpecInit => RowsInv
<1> SUFFICES ASSUME SpecInit PROVE RowsInv
  OBVIOUS
<1>1. Unwritten \in Rows
  BY DEF Unwritten, Rows
<1>2. RowsTypeOK
  BY <1>1 DEF SpecInit, RowsTypeOK
<1>3. Numbered
  BY DEF SpecInit, Numbered, Exists, Unwritten
<1>4. HistoryIsWhole
  <2>1. \A s \in Specs : row[s].version = 0
    BY DEF SpecInit, Unwritten
  <2>2. 1..0 - 1 = {}
    OBVIOUS
  <2>3. history = {}
    BY DEF SpecInit
  <2>4. QED
    BY <2>1, <2>2, <2>3 DEF HistoryIsWhole
<1>5. ApprovedTextIsVouched
  BY DEF SpecInit, ApprovedTextIsVouched, Unwritten
<1>6. QED
  BY <1>2, <1>3, <1>4, <1>5 DEF RowsInv

\* Numbers never go back, the text of a version never changes, and what a person
\* approved stays approved of.
LEMMA RowsGrow ==
  ASSUME RowsInv, [SpecNext]_specVars
  PROVE  /\ \A s \in Specs : Exists(s) => Later(row[s], row'[s])
         /\ vouched \subseteq vouched'
<1>0. \A s \in Specs : row[s] \in Rows /\ row[s].version \in Nat
  BY DEF RowsInv, RowsTypeOK, Rows
<1>1. CASE UNCHANGED specVars
  BY <1>0, <1>1 DEF specVars, Exists, Later
<1>2. CASE SpecNext
  <2>1. PICK s \in Specs :
          \/ \E text \in Texts : Add(s, text) \/ Revise(s, text)
          \/ Approve(s)
          \/ \E other \in Specs : Supersede(s, other)
    BY <1>2 DEF SpecNext
  <2>2. vouched \subseteq vouched'
    BY <2>1 DEF Add, Revise, Approve, Supersede
  <2>3. ASSUME NEW t \in Specs, Exists(t), t # s
        PROVE  Later(row[t], row'[t])
    <3>1. row'[t] = row[t]
      BY <2>1, <2>3 DEF RowsInv, RowsTypeOK, Add, Revise, Approve, Supersede
    <3>2. QED
      BY <1>0, <2>3, <3>1 DEF Exists, Later
  <2>4. ASSUME Exists(s) PROVE Later(row[s], row'[s])
    <3>1. CASE \E text \in Texts : Revise(s, text)
      <4>1. PICK text \in Texts : Revise(s, text)
        BY <3>1
      <4>2. row'[s] = [row[s] EXCEPT !.status = "draft", !.text = text, !.version = @ + 1]
        BY <4>1 DEF Revise, RowsInv, RowsTypeOK
      <4>3. row'[s].status = "draft" /\ row'[s].version = row[s].version + 1
        BY <1>0, <4>2 DEF Rows
      <4>4. QED
        BY <1>0, <4>3 DEF Exists, Later
    <3>2. CASE Approve(s)
      <4>1. row'[s] = [row[s] EXCEPT !.status = "approved"]
        BY <3>2 DEF Approve, RowsInv, RowsTypeOK
      <4>2. row'[s].status = "approved" /\ row'[s].version = row[s].version /\ row'[s].text = row[s].text
        BY <1>0, <4>1 DEF Rows
      <4>3. QED
        BY <1>0, <4>2 DEF Exists, Later
    <3>3. CASE \E other \in Specs : Supersede(s, other)
      <4>1. PICK other \in Specs : Supersede(s, other)
        BY <3>3
      <4>2. row'[s] = [row[s] EXCEPT !.status = "superseded", !.by = other]
        BY <4>1 DEF Supersede, RowsInv, RowsTypeOK
      <4>3. row'[s].status = "superseded" /\ row'[s].version = row[s].version /\ row'[s].text = row[s].text
        BY <1>0, <4>2 DEF Rows
      <4>4. QED
        BY <1>0, <4>3 DEF Exists, Later
    <3>4. QED
      BY <2>1, <2>4, <3>1, <3>2, <3>3 DEF Add
  <2>5. QED
    BY <2>2, <2>3, <2>4
<1>3. QED
  BY <1>1, <1>2

-----------------------------------------------------------------------------
\* A revision adds the version it replaces, which no row of the history is of.
LEMMA HistoryRevised ==
  ASSUME RowsInv, NEW s \in Specs, NEW text \in Texts, Revise(s, text)
  PROVE  HistoryIsWhole'
<1>1. PICK x : /\ history' = history \union {x}
               /\ x.spec = s /\ x.version = row[s].version
  <2>1. PICK was \in {"draft", "approved"} :
          history' = history \union {[spec |-> s, version |-> row[s].version,
                                      text |-> row[s].text, status |-> was]}
    BY DEF Revise
  <2> DEFINE x == [spec |-> s, version |-> row[s].version, text |-> row[s].text, status |-> was]
  <2>2. x.spec = s /\ x.version = row[s].version
    OBVIOUS
  <2> HIDE DEF x
  <2>3. history' = history \union {x}
    BY <2>1 DEF x
  <2>4. QED
    BY <2>2, <2>3
<1>2. \A t \in Specs : row[t] \in Rows
  BY DEF RowsInv, RowsTypeOK
<1>3. row'[s].version = row[s].version + 1
  <2>1. row'[s] = [row[s] EXCEPT !.status = "draft", !.text = text, !.version = @ + 1]
    BY DEF Revise, RowsInv, RowsTypeOK
  <2>2. QED
    BY <1>2, <2>1 DEF Rows
<1>4. row[s].version \in Nat /\ row[s].version >= 1
  BY <1>2 DEF Rows, RowsInv, Numbered, Revise
<1>5. \A g \in history : g.spec = s => g.version # row[s].version
  <2>1. {h.version : h \in {g \in history : g.spec = s}} = 1..row[s].version - 1
    BY DEF RowsInv, HistoryIsWhole
  <2>2. QED
    BY <1>4, <2>1
<1>6. ASSUME NEW t \in Specs
      PROVE  {h.version : h \in {g \in history' : g.spec = t}} = 1..row'[t].version - 1
  <2>0. {h.version : h \in {g \in history : g.spec = t}} = 1..row[t].version - 1
    BY DEF RowsInv, HistoryIsWhole
  <2>1. CASE t = s
    <3>1. {h.version : h \in {g \in history' : g.spec = s}}
            = {h.version : h \in {g \in history : g.spec = s}} \union {row[s].version}
      BY <1>1
    <3>2. (1..row[s].version - 1) \union {row[s].version} = 1..(row[s].version + 1) - 1
      BY <1>4
    <3>3. QED
      BY <1>3, <2>0, <2>1, <3>1, <3>2
  <2>2. CASE t # s
    <3>1. row'[t] = row[t]
      BY <2>2 DEF Revise, RowsInv, RowsTypeOK
    <3>2. {g \in history' : g.spec = t} = {g \in history : g.spec = t}
      BY <1>1, <2>2
    <3>3. QED
      BY <2>0, <3>1, <3>2
  <2>3. QED
    BY <2>1, <2>2
<1>7. \A g, h \in history' : (g.spec = h.spec /\ g.version = h.version /\ g.spec \in Specs) => g = h
  <2>1. \A g, h \in history : (g.spec = h.spec /\ g.version = h.version /\ g.spec \in Specs) => g = h
    BY DEF RowsInv, HistoryIsWhole
  <2>2. QED
    BY <1>1, <1>5, <2>1
<1>8. QED
  BY <1>6, <1>7 DEF HistoryIsWhole

LEMMA RowsStep ==
  ASSUME RowsInv, [SpecNext]_specVars
  PROVE  RowsInv'
<1>0. \A s \in Specs : row[s] \in Rows
  BY DEF RowsInv, RowsTypeOK
<1>1. CASE UNCHANGED specVars
  BY <1>1 DEF specVars, RowsInv, RowsTypeOK, Numbered, Exists, HistoryIsWhole,
              ApprovedTextIsVouched, Version
<1>2. ASSUME NEW s \in Specs, NEW text \in Texts, Add(s, text)
      PROVE  RowsInv'
  <2> DEFINE new == [status |-> "draft", version |-> 1, text |-> text, by |-> NoSpec]
  <2>1. new \in Rows
    BY DEF Rows
  <2>2. row' = [row EXCEPT ![s] = new] /\ row'[s] = new /\ \A t \in Specs : t # s => row'[t] = row[t]
    BY <1>2 DEF Add, RowsInv, RowsTypeOK
  <2>3. history' = history /\ vouched' = vouched
    BY <1>2 DEF Add
  <2>4. RowsTypeOK'
    <3> HIDE DEF new
    <3>1. QED
      BY <2>1, <2>2, <2>3 DEF RowsInv, RowsTypeOK
  <2>5. Numbered'
    BY <2>2 DEF RowsInv, Numbered, Exists
  <2>6. HistoryIsWhole'
    <3>1. row[s].version = 0
      BY <1>2 DEF Add, RowsInv, Numbered
    <3>2. 1..0 - 1 = 1..1 - 1
      OBVIOUS
    <3>3. \A t \in Specs : 1..row'[t].version - 1 = 1..row[t].version - 1
      BY <2>2, <3>1, <3>2
    <3>4. QED
      BY <2>3, <3>3 DEF RowsInv, HistoryIsWhole
  <2>7. ApprovedTextIsVouched'
    BY <2>2, <2>3 DEF RowsInv, ApprovedTextIsVouched, Version
  <2>8. QED
    BY <2>4, <2>5, <2>6, <2>7 DEF RowsInv
<1>3. ASSUME NEW s \in Specs, NEW text \in Texts, Revise(s, text)
      PROVE  RowsInv'
  <2> DEFINE new == [row[s] EXCEPT !.status = "draft", !.text = text, !.version = @ + 1]
  <2>0. row[s].version + 1 \in Nat
    BY <1>0 DEF Rows
  <2>1. new \in Rows /\ new.status = "draft" /\ new.version = row[s].version + 1
    <3> DEFINE n == row[s].version + 1
    <3>1. n \in Nat
      BY <2>0
    <3> HIDE DEF n
    <3>2. [row[s] EXCEPT !.status = "draft", !.text = text, !.version = n] \in Rows
      BY <1>0, <3>1 DEF Rows
    <3>3. new.status = "draft" /\ new.version = n
      BY <1>0 DEF Rows, n
    <3>4. QED
      BY <3>2, <3>3 DEF n
  <2>2. row' = [row EXCEPT ![s] = new] /\ row'[s] = new /\ \A t \in Specs : t # s => row'[t] = row[t]
    BY <1>3 DEF Revise, RowsInv, RowsTypeOK
  <2>3. PICK was \in {"draft", "approved"} :
          history' = history \union {[spec |-> s, version |-> row[s].version,
                                      text |-> row[s].text, status |-> was]}
    BY <1>3 DEF Revise
  <2>4. history' \subseteq Replaced /\ vouched' = vouched
    BY <1>0, <1>3, <2>3 DEF Revise, RowsInv, RowsTypeOK, Replaced, Rows
  <2> HIDE DEF new
  <2>5. RowsTypeOK'
    BY <2>1, <2>2, <2>4 DEF RowsInv, RowsTypeOK
  <2>6. Numbered'
    <3>1. row[s].version \in Nat
      BY <1>0 DEF Rows
    <3>2. QED
      BY <2>1, <2>2, <3>1 DEF RowsInv, Numbered, Exists
  <2>7. HistoryIsWhole'
    BY <1>3, HistoryRevised
  <2>8. ApprovedTextIsVouched'
    BY <2>1, <2>2, <2>4 DEF RowsInv, ApprovedTextIsVouched, Version
  <2>9. QED
    BY <2>5, <2>6, <2>7, <2>8 DEF RowsInv
<1>4. ASSUME NEW s \in Specs, Approve(s)
      PROVE  RowsInv'
  <2> DEFINE new == [row[s] EXCEPT !.status = "approved"]
  <2>1. new \in Rows /\ new.version = row[s].version /\ new.text = row[s].text /\ new.status = "approved"
    BY <1>0 DEF Rows
  <2>2. row' = [row EXCEPT ![s] = new] /\ row'[s] = new /\ \A t \in Specs : t # s => row'[t] = row[t]
    BY <1>4 DEF Approve, RowsInv, RowsTypeOK
  <2>3. history' = history /\ vouched' = vouched \union {Version(s)}
    BY <1>4 DEF Approve
  <2>4. Version(s) \in Versions
    BY <1>0 DEF Version, Versions, Rows
  <2> HIDE DEF new
  <2>5. RowsTypeOK'
    BY <2>1, <2>2, <2>3, <2>4 DEF RowsInv, RowsTypeOK
  <2>6. Numbered'
    BY <1>4, <2>1, <2>2 DEF Approve, RowsInv, Numbered, Exists
  <2>7. HistoryIsWhole'
    BY <2>1, <2>2, <2>3 DEF RowsInv, HistoryIsWhole
  <2>8. ApprovedTextIsVouched'
    <3>1. \A t \in Specs : Version(t)' = Version(t)
      BY <2>1, <2>2 DEF Version
    <3>2. QED
      BY <2>2, <2>3, <3>1 DEF RowsInv, ApprovedTextIsVouched
  <2>9. QED
    BY <2>5, <2>6, <2>7, <2>8 DEF RowsInv
<1>5. ASSUME NEW s \in Specs, NEW other \in Specs, Supersede(s, other)
      PROVE  RowsInv'
  <2> DEFINE new == [row[s] EXCEPT !.status = "superseded", !.by = other]
  <2>1. new \in Rows /\ new.version = row[s].version /\ new.status = "superseded"
    BY <1>0 DEF Rows
  <2>2. row' = [row EXCEPT ![s] = new] /\ row'[s] = new /\ \A t \in Specs : t # s => row'[t] = row[t]
    BY <1>5 DEF Supersede, RowsInv, RowsTypeOK
  <2>3. history' = history /\ vouched' = vouched
    BY <1>5 DEF Supersede
  <2> HIDE DEF new
  <2>4. RowsTypeOK'
    BY <2>1, <2>2, <2>3 DEF RowsInv, RowsTypeOK
  <2>5. Numbered'
    BY <1>5, <2>1, <2>2 DEF Supersede, RowsInv, Numbered, Exists
  <2>6. HistoryIsWhole'
    BY <2>1, <2>2, <2>3 DEF RowsInv, HistoryIsWhole
  <2>7. ApprovedTextIsVouched'
    BY <2>1, <2>2, <2>3 DEF RowsInv, ApprovedTextIsVouched, Version
  <2>8. QED
    BY <2>4, <2>5, <2>6, <2>7 DEF RowsInv
<1>6. QED
  BY <1>1, <1>2, <1>3, <1>4, <1>5 DEF SpecNext

-----------------------------------------------------------------------------
(* The processes.                                                          *)

\* What a process about to write a revision knows of the spec: the version it
\* read was the spec's, and says what it said.
Knows(m, rows) ==
  /\ m.was.status \in {"draft", "approved"}
  /\ m.was.version >= 1
  /\ Later(m.was, rows[m.spec])

ReadInv == \A p \in Procs : pc[p] = "revise" => Knows(mem[p], row)

IInv == TypeOK /\ RowsInv /\ ReadInv

\* A revision that is not refused replaces the version the spec has.
LEMMA NotOvertaken ==
  ASSUME IInv, NEW p \in Procs, pc[p] = "revise",
         Unreplaced(mem[p].spec, mem[p].was.version)
  PROVE  /\ mem[p].spec \in Specs /\ mem[p].text \in Texts
         /\ mem[p].was.version = row[mem[p].spec].version
         /\ mem[p].was.text = row[mem[p].spec].text
<1> DEFINE s == mem[p].spec
           was == mem[p].was
<1>1. mem[p] \in ReviseMem
  BY DEF IInv, TypeOK, Fits
<1>2. s \in Specs /\ mem[p].text \in Texts /\ was \in Rows
  BY <1>1 DEF ReviseMem
<1>3. was.version \in Nat /\ row[s].version \in Nat
  <2>1. row[s] \in Rows
    BY <1>2 DEF IInv, RowsInv, RowsTypeOK
  <2>2. QED
    BY <1>2, <2>1 DEF Rows
<1>4. was.version >= 1 /\ Later(was, row[s])
  BY DEF IInv, ReadInv, Knows
<1>5. was.version \notin 1..row[s].version - 1
  <2>1. {h.version : h \in {g \in history : g.spec = s}} = 1..row[s].version - 1
    BY <1>2 DEF IInv, RowsInv, HistoryIsWhole
  <2>2. was.version \notin {h.version : h \in {g \in history : g.spec = s}}
    BY DEF Unreplaced
  <2>3. QED
    BY <2>1, <2>2
<1>6. was.version = row[s].version
  BY <1>3, <1>4, <1>5 DEF Later
<1>7. QED
  BY <1>2, <1>4, <1>6 DEF Later

\* Every step of a process is a committed step of the rows, or changes none.
LEMMA StepCommits ==
  ASSUME IInv, [Next]_vars
  PROVE  [SpecNext]_specVars
<1>1. CASE UNCHANGED vars \/ Rest
  BY <1>1 DEF vars, store, Rest
<1>2. ASSUME NEW p \in Procs, Step(p)
      PROVE  [SpecNext]_specVars
  <2>1. CASE AddSpec(p)
    BY <2>1 DEF AddSpec, SpecNext
  <2>2. CASE ApproveSpec(p)
    BY <2>2 DEF ApproveSpec, SpecNext
  <2>3. CASE CommitSupersede(p)
    <3>1. pc[p] = "supersede"
      BY <2>3 DEF CommitSupersede, Return, Goto
    <3>2. mem[p] \in SupersedeMem
      BY <3>1 DEF IInv, TypeOK, Fits
    <3>3. mem[p].spec \in Specs /\ mem[p].other \in Specs
      BY <3>2 DEF SupersedeMem
    <3>4. QED
      BY <2>3, <3>3 DEF CommitSupersede, SpecNext, specVars
  <2>4. CASE CommitRevise(p)
    <3> DEFINE s == mem[p].spec
    <3>1. pc[p] = "revise" /\ Unreplaced(s, mem[p].was.version)
      BY <2>4 DEF CommitRevise
    <3>2. /\ s \in Specs /\ mem[p].text \in Texts
          /\ mem[p].was.version = row[s].version /\ mem[p].was.text = row[s].text
      BY <3>1, NotOvertaken
    <3>3. mem[p].was.status \in {"draft", "approved"} /\ Exists(s)
      BY <3>1 DEF IInv, ReadInv, Knows, Later, Exists
    <3>4. \E was \in {"draft", "approved"} :
            history' = history \union {[spec |-> s, version |-> row[s].version,
                                        text |-> row[s].text, status |-> was]}
      BY <2>4, <3>2, <3>3 DEF CommitRevise
    <3>5. row' = [row EXCEPT ![s].status = "draft", ![s].text = mem[p].text, ![s].version = @ + 1]
      BY <2>4, <3>2 DEF CommitRevise, Revised, IInv, RowsInv, RowsTypeOK
    <3>6. UNCHANGED vouched
      BY <2>4 DEF CommitRevise
    <3>7. Revise(s, mem[p].text)
      BY <3>3, <3>4, <3>5, <3>6 DEF Revise
    <3>8. QED
      BY <3>2, <3>7 DEF SpecNext
  <2>5. CASE StartSupersede(p) \/ StartRevise(p) \/ ReviseRefused(p) \/ Index(p) \/ Crash(p)
    BY <2>5 DEF StartSupersede, StartRevise, ReviseRefused, Index, Crash, store, specVars
  <2>6. QED
    BY <1>2, <2>1, <2>2, <2>3, <2>4, <2>5 DEF Step
<1>3. QED
  BY <1>1, <1>2 DEF Next

-----------------------------------------------------------------------------
(* The invariant.                                                          *)

LEMMA SpecsInitially == Init => IInv
<1> SUFFICES ASSUME Init PROVE IInv
  OBVIOUS
<1>1. RowsInv
  BY RowsInitially DEF Init
<1>2. \A p \in Procs : pc[p] = "idle" /\ mem[p] = Nothing
  BY DEF Init
<1>3. TypeOK
  BY <1>1, <1>2 DEF Init, TypeOK, RowsInv, Fits
<1>4. QED
  BY <1>1, <1>2, <1>3 DEF IInv, ReadInv

\* Where a step leaves process p, when it leaves the others where they were.
Moves(p, at, m) ==
  /\ pc' = [pc EXCEPT ![p] = at]
  /\ mem' = [mem EXCEPT ![p] = m]

LEMMA MovesTyped ==
  ASSUME TypeOK, RowsTypeOK', NEW p \in Procs, NEW at, NEW m, Moves(p, at, m), Fits(at, m),
         indexed' \in [Specs -> SUBSET Texts], calls' \in Nat
  PROVE  TypeOK'
<1>1. DOMAIN pc' = Procs /\ DOMAIN mem' = Procs
  BY DEF Moves, TypeOK
<1>2. \A q \in Procs : Fits(pc'[q], mem'[q])
  BY DEF Moves, TypeOK
<1>3. QED
  BY <1>1, <1>2 DEF TypeOK

\* What processes know of a spec stays true while it only grows.
LEMMA MovesKnown ==
  ASSUME TypeOK, ReadInv, RowsTypeOK, RowsTypeOK', NEW p \in Procs, NEW at, NEW m, Moves(p, at, m),
         \A s \in Specs : Exists(s) => Later(row[s], row'[s]),
         at = "revise" => Knows(m, row')
  PROVE  ReadInv'
<1> SUFFICES ASSUME NEW q \in Procs, pc'[q] = "revise"
             PROVE  Knows(mem'[q], row')
  BY DEF ReadInv
<1>1. CASE q = p
  <2>1. pc'[q] = at /\ mem'[q] = m
    BY <1>1 DEF Moves, TypeOK
  <2>2. QED
    BY <2>1
<1>2. CASE q # p
  <2>1. pc[q] = "revise" /\ mem'[q] = mem[q]
    BY <1>2 DEF Moves, TypeOK
  <2>2. mem[q] \in ReviseMem
    BY <2>1 DEF TypeOK, Fits
  <2>3. mem[q].spec \in Specs /\ mem[q].was \in Rows
    BY <2>2 DEF ReviseMem
  <2> DEFINE s == mem[q].spec
             was == mem[q].was
  <2>4. was.version \in Nat /\ row[s].version \in Nat /\ row'[s].version \in Nat
    <3>1. row[s] \in Rows /\ row'[s] \in Rows
      BY <2>3 DEF RowsTypeOK
    <3>2. QED
      BY <2>3, <3>1 DEF Rows
  <2>5. was.status \in {"draft", "approved"} /\ was.version >= 1 /\ Later(was, row[s])
    BY <2>1 DEF ReadInv, Knows
  <2>6. Later(row[s], row'[s])
    BY <2>3, <2>5 DEF Exists, Later
  <2>7. Later(was, row'[s])
    BY <2>4, <2>5, <2>6 DEF Later
  <2>8. QED
    BY <2>1, <2>5, <2>7 DEF Knows
<1>3. QED
  BY <1>1, <1>2

LEMMA SpecsStep ==
  ASSUME IInv, [Next]_vars
  PROVE  IInv'
<1>1. [SpecNext]_specVars
  BY StepCommits
<1>2. RowsInv'
  BY <1>1, RowsStep DEF IInv
<1>3. \A s \in Specs : Exists(s) => Later(row[s], row'[s])
  BY <1>1, RowsGrow DEF IInv
<1>4. TypeOK /\ ReadInv /\ RowsTypeOK /\ RowsTypeOK'
  BY <1>2 DEF IInv, RowsInv
<1>5. CASE UNCHANGED vars \/ Rest
  BY <1>2, <1>5 DEF IInv, vars, store, specVars, Rest, TypeOK, RowsInv, ReadInv
<1>6. ASSUME NEW p \in Procs, Step(p)
      PROVE  TypeOK' /\ ReadInv'
  <2> DEFINE Kept(at, m) == /\ Moves(p, at, m) /\ Fits(at, m)
                            /\ indexed' \in [Specs -> SUBSET Texts] /\ calls' \in Nat
                            /\ at = "revise" => Knows(m, row')
  <2>1. ASSUME NEW at, NEW m, Kept(at, m)
        PROVE  TypeOK' /\ ReadInv'
    <3>1. /\ Moves(p, at, m) /\ Fits(at, m)
          /\ indexed' \in [Specs -> SUBSET Texts] /\ calls' \in Nat
          /\ at = "revise" => Knows(m, row')
      BY <2>1
    <3>2. TypeOK'
      BY <1>4, <3>1, MovesTyped
    <3>3. ReadInv'
      BY <1>3, <1>4, <3>1, MovesKnown
    <3>4. QED
      BY <3>2, <3>3
  <2>2. Fits("idle", Nothing)
    BY DEF Fits
  <2>3. indexed \in [Specs -> SUBSET Texts] /\ calls \in Nat /\ calls + 1 \in Nat
    BY <1>4 DEF TypeOK
  <2>4. CASE AddSpec(p)
    <3>1. PICK s \in Specs, text \in Texts : Start(p, "add", "index", ToIndex(s, text, FALSE))
      BY <2>4 DEF AddSpec
    <3>2. Fits("index", ToIndex(s, text, FALSE))
      BY DEF Fits, IndexMem, ToIndex
    <3>3. Moves(p, "index", ToIndex(s, text, FALSE)) /\ calls' = calls + 1 /\ indexed' = indexed
      BY <2>4, <3>1 DEF AddSpec, Start, Moves
    <3>4. Kept("index", ToIndex(s, text, FALSE))
      BY <2>3, <3>2, <3>3
    <3>5. QED
      BY <2>1, <3>4
  <2>5. CASE ApproveSpec(p)
    <3>1. Moves(p, "idle", Nothing) /\ calls' = calls + 1 /\ indexed' = indexed
      BY <2>5 DEF ApproveSpec, Start, Moves
    <3>2. Kept("idle", Nothing)
      BY <2>2, <2>3, <3>1
    <3>3. QED
      BY <2>1, <3>2
  <2>6. CASE StartSupersede(p)
    <3>1. PICK s \in Specs, other \in Specs :
            Start(p, "supersede", "supersede", [op |-> "supersede", spec |-> s, other |-> other])
      BY <2>6 DEF StartSupersede
    <3> DEFINE m == [op |-> "supersede", spec |-> s, other |-> other]
    <3>2. Fits("supersede", m)
      BY DEF Fits, SupersedeMem
    <3>3. Moves(p, "supersede", m) /\ calls' = calls + 1 /\ indexed' = indexed
      BY <2>6, <3>1 DEF StartSupersede, Start, Moves, store
    <3>4. Kept("supersede", m)
      BY <2>3, <3>2, <3>3
    <3>5. QED
      BY <2>1, <3>4
  <2>7. CASE StartRevise(p)
    <3>1. PICK s \in Specs, text \in Texts :
            /\ Exists(s) /\ row[s].status # "superseded"
            /\ Start(p, "revise", "revise", [op |-> "revise", spec |-> s, text |-> text, was |-> row[s]])
      BY <2>7 DEF StartRevise
    <3> DEFINE m == [op |-> "revise", spec |-> s, text |-> text, was |-> row[s]]
    <3>2. row[s] \in Rows
      BY <1>4 DEF RowsTypeOK
    <3>3. Fits("revise", m)
      BY <3>2 DEF Fits, ReviseMem
    <3>4. m.was = row[s] /\ m.spec = s
      OBVIOUS
    <3>5. Moves(p, "revise", m) /\ calls' = calls + 1 /\ UNCHANGED <<row, indexed>>
      BY <2>7, <3>1 DEF StartRevise, Start, Moves, store, specVars
    <3>6. row[s].status \in {"draft", "approved"} /\ row[s].version \in Nat /\ row[s].version >= 1
      BY <3>1, <3>2 DEF Rows, Exists, IInv, RowsInv, Numbered
    <3>7. Later(row[s], row'[s])
      BY <3>1, <3>5, <3>6 DEF Later
    <3> HIDE DEF m
    <3>8. Knows(m, row')
      BY <3>4, <3>6, <3>7 DEF Knows
    <3>9. Kept("revise", m)
      BY <2>3, <3>3, <3>5, <3>8
    <3>10. QED
      BY <2>1, <3>9
  <2>8. CASE CommitRevise(p)
    <3> DEFINE m == ToIndex(mem[p].spec, mem[p].text, TRUE)
    <3>1. pc[p] = "revise"
      BY <2>8 DEF CommitRevise
    <3>2. mem[p] \in ReviseMem
      BY <1>4, <3>1 DEF TypeOK, Fits
    <3>3. Fits("index", m)
      BY <3>2 DEF Fits, ReviseMem, IndexMem, ToIndex
    <3>4. Moves(p, "index", m) /\ calls' = calls /\ indexed' = indexed
      BY <2>8 DEF CommitRevise, Goto, Moves
    <3>5. Kept("index", m)
      BY <2>3, <3>3, <3>4
    <3>6. QED
      BY <2>1, <3>5
  <2>9. CASE Index(p)
    <3>1. pc[p] = "index"
      BY <2>9 DEF Index, Return, Goto
    <3>2. mem[p] \in IndexMem
      BY <1>4, <3>1 DEF TypeOK, Fits
    <3>3. indexed' \in [Specs -> SUBSET Texts]
      BY <2>3, <2>9, <3>2 DEF Index, IndexMem
    <3>4. Moves(p, "idle", Nothing) /\ calls' = calls
      BY <2>9 DEF Index, Return, Goto, Moves
    <3>5. Kept("idle", Nothing)
      BY <2>2, <2>3, <3>3, <3>4
    <3>6. QED
      BY <2>1, <3>5
  <2>10. CASE CommitSupersede(p) \/ ReviseRefused(p) \/ Crash(p)
    <3>1. Moves(p, "idle", Nothing) /\ calls' = calls /\ indexed' = indexed
      BY <2>10 DEF CommitSupersede, ReviseRefused, Crash, Return, Goto, Moves, store
    <3>2. Kept("idle", Nothing)
      BY <2>2, <2>3, <3>1
    <3>3. QED
      BY <2>1, <3>2
  <2>11. QED
    BY <1>6, <2>4, <2>5, <2>6, <2>7, <2>8, <2>9, <2>10 DEF Step
<1>7. QED
  BY <1>2, <1>4, <1>5, <1>6 DEF IInv, Next

-----------------------------------------------------------------------------
(* The theorems.                                                           *)

LEMMA SpecsInvariant == Spec => []IInv
BY SpecsInitially, SpecsStep, PTL DEF Spec

THEOREM SpecsTypeCorrect == Spec => []TypeOK
<1>1. IInv => TypeOK
  BY DEF IInv
<1>2. QED
  BY <1>1, SpecsInvariant, PTL

\* Reading before the transaction is harmless to the rows: each operation is one
\* step of SpecRows.
THEOREM SpecsImplementRows == Spec => ImplementsRows
<1>1. Init => SpecInit
  BY DEF Init
<1>2. IInv /\ [Next]_vars => [SpecNext]_specVars
  BY StepCommits
<1>3. QED
  BY <1>1, <1>2, SpecsInvariant, PTL DEF Spec, ImplementsRows, RowsSpec

\* No text of a spec is lost and none is kept twice.
THEOREM NoTextIsLost == Spec => []HistoryIsWhole
<1>1. IInv => HistoryIsWhole
  BY DEF IInv, RowsInv
<1>2. QED
  BY <1>1, SpecsInvariant, PTL

\* An approved spec says what a person approved.
THEOREM ApprovedAsRead == Spec => []ApprovedTextIsVouched
<1>1. IInv => ApprovedTextIsVouched
  BY DEF IInv, RowsInv
<1>2. QED
  BY <1>1, SpecsInvariant, PTL

=============================================================================
