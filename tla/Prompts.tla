------------------------------ MODULE Prompts ------------------------------
(***************************************************************************)
(* What a person can ask of an item on a screen of the terminal UI, and   *)
(* the prompt that asks back before anything is done (tui/actions.go,     *)
(* review.go, specs.go, memory.go): a question, for some actions a        *)
(* further question, then the action, and, only when the store answers    *)
(* that it wants the approval token, the token and the action again. A    *)
(* prompt is bound to the item it was opened on.                          *)
(***************************************************************************)
EXTENDS Naturals, Sequences, FiniteSets, SequencesExt

CONSTANT ItemCount      \* items of the store: 1..ItemCount, in listing order

ASSUME ItemCountIsNat == ItemCount \in Nat

Items    == 1..ItemCount
\* memory stands for decisions too: both lists ask the same of a person.
ItemKinds == {"task", "spec", "plan", "memory"}
Statuses == {"waiting", "decided"}

\* start (of the orchestrator) and seal (of the audit trail) are about no item.
Acts   == {"approve", "reject", "edit", "check", "start", "seal"}
Stages == {"ask", "more", "token"}

NoPrompt == [item |-> 0, act |-> "none", stage |-> "none"]
Prompts  == [item : 0..ItemCount, act : Acts, stage : Stages] \union {NoPrompt}

Asking(item, act) == [item |-> item, act |-> act, stage |-> "ask"]

\* The rows of a screen, given what it read of the store and its filter.
InOrder(set) ==
    CHOOSE rows \in [1..Cardinality(set) -> set] :
        \A r, s \in DOMAIN rows : r < s => rows[r] < rows[s]

TaskRows(kinds, read, wide) ==
    InOrder({i \in Items : kinds[i] = "task" /\ (wide \/ read[i] = "waiting")})
ReviewRows(kinds, read) == InOrder({i \in Items : read[i] = "waiting"})
SpecTreeRows(kinds) == InOrder({i \in Items : kinds[i] \in {"spec", "plan"}})
MemoryRows(kinds, read, wide) ==
    InOrder({i \in Items : kinds[i] = "memory" /\ (wide \/ read[i] = "waiting")})
\* The dashboard counts what waits and the audit trail lists events: neither has a
\* row to decide about.
OverviewRows == <<>>
TrailRows    == <<>>

\* What may be asked of an item, by the screen it is asked on and its status
\* there. A spec has no rejection. Only what waits is decided, except that a
\* task's detail offers everything and leaves the rest to the store.
TaskActs == {"approve", "reject", "edit", "check"}
ReviewActs(kind) == {"approve"} \union (IF kind = "spec" THEN {} ELSE {"reject"})
SpecTreeActs(kind, status) ==
    IF status # "waiting" THEN {}
    ELSE ReviewActs(kind) \union (IF kind = "plan" THEN {"edit"} ELSE {})
MemoryActs(status) ==
    IF status = "waiting" THEN {"approve", "reject"} ELSE {"edit"}

\* Editing a plan asks which item, which field and the value, one at a time.
AsksMore(kind, act) == act = "edit" /\ kind = "plan"

\* What the store wants the token for when one is set: rejecting is the safe
\* direction and needs none.
WantsToken(kind, act) ==
    \/ act = "approve"
    \/ act = "edit" /\ kind \in {"plan", "memory"}
    \/ act = "seal"

\* The store refuses to decide what is no longer waiting. A task may be
\* approved and rejected as often as somebody likes.
Takes(kind, act, status) ==
    act \in {"approve", "reject"} => kind = "task" \/ status = "waiting"

After(kind, act, status) ==
    IF act \in {"approve", "reject"} THEN "decided" ELSE status

IndexIn(rows, item) == CHOOSE r \in DOMAIN rows : rows[r] = item
LastRow(rows) == IF rows = <<>> THEN 1 ELSE Len(rows)
Lesser(a, b) == IF a < b THEN a ELSE b
ItemAt(rows, row) == IF row \in DOMAIN rows THEN rows[row] ELSE 0

\* Where the cursor is after the rows were read again. Review stays on the item
\* if it is still there; the tasks table does, or goes back to the top; the
\* memory list and the spec tree keep the position.
KeptOnReview(old, new, row) ==
    IF ItemAt(old, row) \in Range(new) THEN IndexIn(new, ItemAt(old, row))
    ELSE Lesser(row, LastRow(new))
KeptOnTasks(old, new, row) ==
    IF ItemAt(old, row) \in Range(new) THEN IndexIn(new, ItemAt(old, row)) ELSE 1
KeptInPlace(old, new, row) == Lesser(row, LastRow(new))
=============================================================================
