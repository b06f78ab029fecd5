------------------------------- MODULE Schema -------------------------------
(***************************************************************************)
(* The shape of the store's file (store/store.go): what each migration    *)
(* adds to it, what the DDL adds on its own, and the copy kept of the     *)
(* store before a migration. A build of the program knows the migrations  *)
(* up to its own schema version; a newer build knows more of them.        *)
(***************************************************************************)
EXTENDS Naturals

SchemaVersion == 16

\* What the migrations add, by number. Each addition is a no-op where it is
\* already there (ensureColumn, IF NOT EXISTS, INSERT OR IGNORE); the last one
\* also rewrites the status of some specs.
ColumnMigrations == {1, 2, 3, 4, 7, 9, 10, 12, 14, 15, 16}
SeedMigrations   == {4, 5}
TableMigrations  == {6, 8, 10, 11}
IndexMigrations  == {13}
RewriteMigrations == {16}

Changes == (ColumnMigrations \X {"column"}) \union (TableMigrations \X {"table"})
             \union (SeedMigrations \X {"seed"}) \union (IndexMigrations \X {"index"})
             \union (RewriteMigrations \X {"rewrite"})

\* What the DDL has too: not the attribution columns of the fourth migration, nor
\* the plans' tables of the tenth.
DdlColumns == (ColumnMigrations \ {4}) \X {"column"}
DdlTables  == (TableMigrations \ {10}) \X {"table"}

ChangesOf(m) == {c \in Changes : c[1] = m}
Known(build) == {c \in Changes : c[1] <= build}

NoCopy == [state |-> "none", of |-> 0]

\* version: PRAGMA user_version; has: what of the changes is in the file;
\* tables: whether the tables of before the first migration are; copies: the
\* file <path>.pre-v<n> for each n.
Files == [version : 0..SchemaVersion, has : SUBSET Changes, tables : BOOLEAN,
          copies : [0..SchemaVersion -> [state : {"none", "writing", "torn", "whole"},
                                         of : 0..SchemaVersion]]]

\* A file of a version: 0 is no file yet, or one of before versions were kept.
FileOf(version, tables) ==
    [version |-> version, has |-> Known(version), tables |-> tables,
     copies |-> [n \in 0..SchemaVersion |-> NoCopy]]

\* prepareSchema's verdict on the version it reads.
TooNew(build, version)   == version > build
UpToDate_IfAny(build, version) == version > 0     \* as if any version would do
UpToDate(build, version) == version = build

\* The DDL creates what tables are missing, whole, and leaves the others alone.
AddedByDdl(build, file) ==
    Known(build) \intersect (IF file.tables THEN DdlTables ELSE DdlTables \union DdlColumns)

\* Run to its end, or killed on the way: its statements commit one by one.
Ddl(build, file) == [file EXCEPT !.has = @ \union AddedByDdl(build, file),
                                 !.tables = TRUE]
DdlCutShort(build, file) ==
    {[file EXCEPT !.has = @ \union part] :
        part \in {AddedByDdl(build, file) \intersect DdlTables,
                  AddedByDdl(build, file) \intersect DdlColumns}}

\* A migration as it would be if it trusted the version read before the loop.
Migrated_Blindly(m, file) ==
    [file EXCEPT !.has = @ \union ChangesOf(m), !.version = m]

\* One migration's transaction: nothing if somebody else has made it by now.
Migrated(m, file) ==
    IF file.version >= m THEN file
    ELSE [file EXCEPT !.has = @ \union ChangesOf(m), !.version = m]

\* backupBeforeMigrating: the copy is of the store as it is when it begins.
MayCopy(file, from) == file.copies[from].state = "none"
Copying(file, from) ==
    [file EXCEPT !.copies[from] = [state |-> "writing", of |-> file.version]]
CopyEnds(file, from, how) == [file EXCEPT !.copies[from].state = how]

\* Whether a store that is of version from has to be copied first: as it would be
\* if only the first migration counted, and as it is.
WantsCopy_Rarely(from) == from = 1
WantsCopy(from) == from > 0
=============================================================================
