---------------------------- MODULE MCStoreFile ----------------------------
(* StoreFile with two processes: opening an older file, and writing texts. *)
EXTENDS StoreFile, TLC

CONSTANTS p1, p2

ProcsValue == {p1, p2}
ItemsValue == 1..3      \* a memory, a note, a spec
SpecsValue == {3}
NotesValue == {2}

Upgrade(b1, b2, start, tables, kills) ==
    [build |-> (p1 :> b1 @@ p2 :> b2), start |-> start, tables |-> tables,
     model |-> [p \in ProcsValue |-> "none"], ops |-> {}, calls |-> 1, kills |-> kills]
Write(m1, m2, ops, calls, kills) ==
    [build |-> [p \in ProcsValue |-> SchemaVersion], start |-> SchemaVersion,
     tables |-> TRUE, model |-> (p1 :> m1 @@ p2 :> m2), ops |-> ops,
     calls |-> calls, kills |-> kills]

FamiliesValue ==
    {Upgrade(7, 8, 0, FALSE, 2), Upgrade(16, 16, 0, TRUE, 0),
     Upgrade(16, 16, 11, TRUE, 2), Upgrade(13, 16, 11, TRUE, 2),
     Write("m1", "m1", {"add", "revise"}, 2, 1),
     Write("m1", "m1", {"add", "revise"}, 3, 0),
     Write("m1", "m2", {"add", "backfill"}, 2, 1),
     Write("m1", "none", {"import", "revise", "backfill"}, 3, 0),
     Write("m1", "none", {"add", "revise", "import"}, 2, 1),
     Write("m1", "m2", {"import", "revise", "backfill"}, 3, 0)}
=============================================================================
