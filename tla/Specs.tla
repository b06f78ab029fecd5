-------------------------------- MODULE Specs --------------------------------
(***************************************************************************)
(* Drafting, approving, revising and superseding specs, as processes do    *)
(* it: each operation of internal/store/spec.go reads the spec before its  *)
(* transaction and writes what follows from the read.                      *)
(***************************************************************************)
EXTENDS SpecRows

CONSTANTS
  Procs,          \* the processes
  Deciders,       \* those requirePerson lets through
  MayCrash,       \* a process can be killed
  UsedCalls,      \* the commands the model's processes give
  MaxCalls        \* bound: commands given in one behaviour

Calls == {"add", "approve", "supersede", "revise"}

ASSUME SpecsAssumption == /\ Deciders \subseteq Procs
                          /\ MayCrash \in BOOLEAN
                          /\ UsedCalls \subseteq Calls
                          /\ MaxCalls \in Nat

VARIABLES
  indexed,                  \* the texts the search index has of each spec
  pc, mem,                  \* each process: where it is, what it has read
  calls                     \* commands given so far

store == <<specVars, indexed>>
vars  == <<store, pc, mem, calls>>

Nothing      == [op |-> "none"]
SupersedeMem == [op : {"supersede"}, spec : Specs, other : Specs]
ReviseMem    == [op : {"revise"}, spec : Specs, text : Texts, was : Rows]
IndexMem     == [op : {"index"}, spec : Specs, text : Texts, replace : BOOLEAN]

Fits(at, m) ==
  \/ at = "idle" /\ m = Nothing
  \/ at = "supersede" /\ m \in SupersedeMem
  \/ at = "revise" /\ m \in ReviseMem
  \/ at = "index" /\ m \in IndexMem

TypeOK ==
  /\ RowsTypeOK
  /\ indexed \in [Specs -> SUBSET Texts]
  /\ calls \in Nat
  /\ DOMAIN pc = Procs /\ DOMAIN mem = Procs
  /\ \A p \in Procs : Fits(pc[p], mem[p])

Init ==
  /\ SpecInit
  /\ indexed = [s \in Specs |-> {}]
  /\ pc = [p \in Procs |-> "idle"]
  /\ mem = [p \in Procs |-> Nothing]
  /\ calls = 0

-----------------------------------------------------------------------------
(* Steps of a process.                                                     *)

Start(p, call, to, m) ==
  /\ pc[p] = "idle"
  /\ call \in UsedCalls
  /\ calls < MaxCalls
  /\ calls' = calls + 1
  /\ pc' = [pc EXCEPT ![p] = to]
  /\ mem' = [mem EXCEPT ![p] = m]

Goto(p, from, to, m) ==
  /\ pc[p] = from
  /\ pc' = [pc EXCEPT ![p] = to]
  /\ mem' = [mem EXCEPT ![p] = m]
  /\ UNCHANGED calls

Return(p, from) == Goto(p, from, "idle", Nothing)

ToIndex(s, text, replace) == [op |-> "index", spec |-> s, text |-> text, replace |-> replace]

\* AddSpec: the insert and its event, then the index in a transaction of its own.
AddSpec(p) ==
  /\ \E s \in Specs, text \in Texts : /\ Add(s, text)
                                      /\ Start(p, "add", "index", ToIndex(s, text, FALSE))
  /\ UNCHANGED indexed

\* Who may approve is all that is asked before the transaction.
ApproveSpec(p) ==
  /\ p \in Deciders
  /\ \E s \in Specs : Approve(s)
  /\ Start(p, "approve", "idle", Nothing)
  /\ UNCHANGED indexed

\* GetSpec, twice: a person is asked for if the spec is approved as it is read.
StartSupersede(p) ==
  /\ \E s, other \in Specs :
       /\ s # other /\ Exists(s) /\ Exists(other)
       /\ row[s].status = "approved" => p \in Deciders
       /\ Start(p, "supersede", "supersede", [op |-> "supersede", spec |-> s, other |-> other])
  /\ UNCHANGED store

CommitSupersede(p) ==
  /\ Return(p, "supersede")
  /\ \/ Supersede(mem[p].spec, mem[p].other)
     \/ row[mem[p].spec].status = "superseded" /\ UNCHANGED <<row, history, vouched>>
  /\ UNCHANGED indexed

StartRevise(p) ==
  /\ \E s \in Specs, text \in Texts :
       /\ Exists(s)
       /\ row[s].status # "superseded"
       /\ Start(p, "revise", "revise", [op |-> "revise", spec |-> s, text |-> text, was |-> row[s]])
  /\ UNCHANGED store

\* Mutant: the table keeps no second row apart from the first.
Unreplaced_Always(s, version) == TRUE

\* UNIQUE (spec_id, version): no other process has replaced that version.
Unreplaced(s, version) == ~\E h \in history : h.spec = s /\ h.version = version

\* Mutants: revised text keeps its approval; a status the column does not know.
Revised_Kept(s, text) == [row[s] EXCEPT !.text = text, !.version = @ + 1]
Revised_Unknown(s, text) == [row[s] EXCEPT !.status = "revised", !.text = text, !.version = @ + 1]

\* The read row was a draft or approved, and revised it is a draft.
Revised(s, text) == [row[s] EXCEPT !.status = "draft", !.text = text, !.version = @ + 1]

CommitRevise(p) ==
  LET s == mem[p].spec
      was == mem[p].was
  IN
  /\ pc[p] = "revise"
  /\ Unreplaced(s, was.version)
  /\ history' = history \union {[spec |-> s, version |-> was.version, text |-> was.text,
                                 status |-> was.status]}
  /\ row' = [row EXCEPT ![s] = Revised(s, mem[p].text)]
  /\ Goto(p, "revise", "index", ToIndex(s, mem[p].text, TRUE))
  /\ UNCHANGED <<vouched, indexed>>

\* Rolled back: another revision of the same version was first.
ReviseRefused(p) ==
  /\ Return(p, "revise")
  /\ ~Unreplaced(mem[p].spec, mem[p].was.version)
  /\ UNCHANGED store

\* indexForSearch inserts; reindexForSearch deletes first.
Index(p) ==
  /\ Return(p, "index")
  /\ indexed' = [indexed EXCEPT ![mem[p].spec] = (IF mem[p].replace THEN {} ELSE @)
                                                  \union {mem[p].text}]
  /\ UNCHANGED <<row, history, vouched>>

\* Killed: what it had not committed is lost, what it had read is forgotten.
Crash(p) ==
  /\ MayCrash
  /\ pc[p] # "idle"
  /\ Return(p, pc[p])
  /\ UNCHANGED store

\* The model's calls are used up and every process has returned.
Rest ==
  /\ calls = MaxCalls
  /\ \A p \in Procs : pc[p] = "idle"
  /\ UNCHANGED vars

Step(p) ==
  \/ AddSpec(p) \/ ApproveSpec(p)
  \/ StartSupersede(p) \/ CommitSupersede(p)
  \/ StartRevise(p) \/ CommitRevise(p) \/ ReviseRefused(p)
  \/ Index(p) \/ Crash(p)

Next == Rest \/ \E p \in Procs : Step(p)

Spec == Init /\ [][Next]_vars

-----------------------------------------------------------------------------
(* Properties.                                                             *)

\* Though a revision is written from a row read before, every step is one of
\* SpecRows or changes no spec: a revision that another one overtook is refused,
\* so the text it replaces is the text the spec has (spec.go, ReviseSpec).
ImplementsRows == RowsSpec

=============================================================================
