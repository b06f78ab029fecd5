------------------------------ MODULE SpecRows ------------------------------
(***************************************************************************)
(* The specs as the store commits them: one step per transaction of        *)
(* internal/store/spec.go, whoever runs it and whatever it read before.    *)
(* Specs.tla adds the processes, and implements this specification;        *)
(* Plans.tla adds the plans made for specs.                                *)
(***************************************************************************)
EXTENDS Integers

CONSTANTS
  Specs,          \* ids a spec can have
  Texts           \* what a spec's body can say

ASSUME RowsAssumption == "no text" \notin Texts /\ "no spec" \notin Specs

VARIABLES
  row,            \* the specs table: status, version, text and superseded_by
  history,        \* the spec_versions table: what each replaced version said
  vouched         \* history: the versions, with their text, a person approved

specVars == <<row, history, vouched>>

NoText  == "no text"
NoSpec  == "no spec"
Unwritten == [status |-> "none", version |-> 0, text |-> NoText, by |-> NoSpec]

Rows == [status : {"none", "draft", "approved", "superseded"}, version : Nat,
         text : Texts \union {NoText}, by : Specs \union {NoSpec}]
Versions == [spec : Specs, version : Nat, text : Texts \union {NoText}]
Replaced == [spec : Specs, version : Nat, text : Texts \union {NoText},
             status : {"draft", "approved"}]

Exists(s) == row[s].status # "none"

RowsTypeOK ==
  /\ row \in [Specs -> Rows]
  /\ history \subseteq Replaced
  /\ vouched \subseteq Versions

SpecInit ==
  /\ row = [s \in Specs |-> Unwritten]
  /\ history = {}
  /\ vouched = {}

Version(s) == [spec |-> s, version |-> row[s].version, text |-> row[s].text]

Add(s, text) ==
  /\ ~Exists(s)
  /\ row' = [row EXCEPT ![s] = [status |-> "draft", version |-> 1, text |-> text, by |-> NoSpec]]
  /\ UNCHANGED <<history, vouched>>

Approve(s) ==
  /\ row[s].status \in {"draft", "approved"}
  /\ row' = [row EXCEPT ![s].status = "approved"]
  /\ vouched' = vouched \union {Version(s)}
  /\ UNCHANGED history

Supersede(s, other) ==
  /\ s # other
  /\ Exists(other)
  /\ row[s].status \in {"draft", "approved"}
  /\ row' = [row EXCEPT ![s].status = "superseded", ![s].by = other]
  /\ UNCHANGED <<history, vouched>>

\* Whether the spec is superseded was asked of an earlier read, so the step does
\* not depend on it; nor does the status kept with the replaced text.
Revise(s, text) ==
  /\ Exists(s)
  /\ \E was \in {"draft", "approved"} :
       history' = history \union {[spec |-> s, version |-> row[s].version,
                                   text |-> row[s].text, status |-> was]}
  /\ row' = [row EXCEPT ![s].status = "draft", ![s].text = text, ![s].version = @ + 1]
  /\ UNCHANGED vouched

SpecNext ==
  \E s \in Specs :
    \/ \E text \in Texts : Add(s, text) \/ Revise(s, text)
    \/ Approve(s)
    \/ \E other \in Specs : Supersede(s, other)

RowsSpec == SpecInit /\ [][SpecNext]_specVars

-----------------------------------------------------------------------------
(* Properties.                                                             *)

\* A revision withdraws the approval and loses no text: the approved status
\* always means that a person approved the very text the spec has, and every
\* earlier version is in spec_versions exactly once
\* (docs/THREAT_MODEL.md, "Agent rewrites an approved spec").
ApprovedTextIsVouched ==
  \A s \in Specs : row[s].status = "approved" => Version(s) \in vouched

HistoryIsWhole ==
  \A s \in Specs :
    /\ {h.version : h \in {g \in history : g.spec = s}} = 1 .. row[s].version - 1
    /\ \A g, h \in history : (g.spec = s /\ h.spec = s /\ g.version = h.version) => g = h

-----------------------------------------------------------------------------
(* What is proved of the rows, and with it of Specs and Plans.             *)

\* Strengthens the two properties: a spec not yet written has version 0, any
\* other at least 1.
Numbered == \A s \in Specs : IF Exists(s) THEN row[s].version >= 1 ELSE row[s].version = 0

RowsInv == RowsTypeOK /\ Numbered /\ HistoryIsWhole /\ ApprovedTextIsVouched

\* A row and a later one: it still exists, versions only grow, and one version
\* says one thing.
Later(a, b) ==
  /\ b.status # "none"
  /\ a.version <= b.version
  /\ a.version = b.version => a.text = b.text

=============================================================================
