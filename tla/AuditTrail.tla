------------------------------ MODULE AuditTrail ------------------------------
(***************************************************************************)
(* The processes that append to the trail, seal it, verify it and carry it *)
(* from one store to another: event.go, seal.go, head_seal.go, reseal.go,  *)
(* auth.go and snapshot.go of internal/store.  A transaction is one step;  *)
(* so is each read outside one.                                            *)
(***************************************************************************)
EXTENDS AuditChain, FiniteSets

CONSTANTS
  Stores,         \* the database files
  Old,            \* the store that an older acline has written to
  Processes,      \* the processes
  Agents,         \* those that act as agents
  Holders,        \* those that are given the approval tokens
  Roles,          \* what a role_id can be
  OldUnhashed, OldHashed, OldRecords,  \* bounds: how many of each an older acline left
  UsedCalls,      \* the commands the model's processes give
  MaxCalls        \* bound: commands given in one behaviour

Calls == {"log", "record", "enable", "rotate", "disable", "seal", "checkseal",
          "verify", "reseal", "export", "import"}

\* "altered" stands for what an alteration leaves, which is never what was there.
ASSUME AuditAssumption == /\ Old \in Stores
                          /\ Agents \subseteq Processes /\ Holders \subseteq Processes
                          /\ NoRole \in Roles /\ "altered" \notin Roles \cup Contents
                          /\ OldUnhashed \cup OldHashed \cup OldRecords \subseteq Nat
                          /\ MaxCalls \in Nat
                          /\ UsedCalls \subseteq Calls

VARIABLES
  db,              \* each store's tables, and the token its meta table knows
  snapshot,        \* the snapshot on disk
  issued,          \* tokens made so far
  merged,          \* the stores a snapshot was imported into
  pc, mem,         \* each process: where it is, what it has read
  calls            \* commands given so far

trailVars == <<db, snapshot, issued, merged, pc, mem, calls>>

NoFile == [events |-> <<>>, approvals |-> <<>>, checks |-> <<>>]

Idle == [op |-> "none"]

-----------------------------------------------------------------------------
(* What an older acline left: events from before hashing, events hashed    *)
(* without their role, records from before sealing.                        *)

OldHash(k) == [j \in 1 .. k |-> <<"note", Text("old")>>]

\* n events without a hash, then m that leave the role out of theirs.
OldEvents(n, m, role) ==
  [i \in 1 .. n + m |-> [id |-> i, type |-> "note", msg |-> Text("old"), role |-> role,
                         prev |-> OldHash(i - 1 - n), hash |-> OldHash(i - n)]]

OldRows(n, content) == [i \in 1 .. n |-> [id |-> i, content |-> content]]

OldStore(n, m, a, k, role, c) ==
  [events |-> OldEvents(n, m, role), approvals |-> OldRows(a, c), checks |-> OldRows(k, c), token |-> 0]

LegacyStores == {OldStore(n, m, a, k, role, c) : n \in OldUnhashed, m \in OldHashed,
                   a \in OldRecords, k \in OldRecords, role \in Roles, c \in Contents}

TrailInit ==
  /\ \E old \in LegacyStores : db = [s \in Stores |-> IF s = Old THEN old ELSE Empty]
  /\ snapshot = NoFile /\ issued = 0 /\ merged = {}
  /\ pc = [p \in Processes |-> "idle"]
  /\ mem = [p \in Processes |-> Idle]
  /\ calls = 0

-----------------------------------------------------------------------------
(* Steps of a process.                                                     *)

Command(p, call, to, m) ==
  /\ pc[p] = "idle"
  /\ call \in UsedCalls
  /\ calls < MaxCalls
  /\ calls' = calls + 1
  /\ pc' = [pc EXCEPT ![p] = to]
  /\ mem' = [mem EXCEPT ![p] = m]

Goto(p, from, to, m) ==
  /\ pc[p] = from
  /\ pc' = [pc EXCEPT ![p] = to]
  /\ mem' = [mem EXCEPT ![p] = m]
  /\ UNCHANGED calls

Return(p, from) == Goto(p, from, "idle", Idle)

At(p)         == db[mem[p].store]
Put(s, d)     == db' = [db EXCEPT ![s] = d]
Append1(s, type, msg) == Put(s, [db[s] EXCEPT !.events = Logged(@, type, msg, NoRole)])
KeepAll       == UNCHANGED <<db, snapshot, issued, merged>>
KeepRest      == UNCHANGED <<snapshot, issued, merged>>

\* What a process presents: a token it was given, or none.
Presents(p) == IF p \in Holders THEN 0 .. issued ELSE {0}

\* LogEventWithRole: the event, and another if a secret was redacted from it.
LogEvent(p) ==
  /\ Command(p, "log", "idle", Idle)
  /\ \E s \in Stores, c \in Contents, role \in Roles, redacted \in BOOLEAN :
       LET one == Logged(db[s].events, "note", Text(c), role)
       IN  Put(s, [db[s] EXCEPT
                     !.events = LoggedIf(redacted, one, "secret_redacted", Text("log"), role)])
  /\ KeepRest

RecordRow(p) ==
  /\ Command(p, "record", "idle", Idle)
  /\ \E s \in Stores, table \in Tables, c \in Contents, role \in Roles :
       Put(s, Recorded(db[s], table, c, role))
  /\ KeepRest

-----------------------------------------------------------------------------
(* The approval token.                                                     *)

\* EnableApprovalToken: asked first, and decided by the insert that ignores a second.
StartEnable(p) ==
  /\ \E s \in Stores : db[s].token = 0 /\ Command(p, "enable", "enable", [op |-> "enable", store |-> s])
  /\ KeepAll

CommitEnable(p) ==
  /\ Return(p, "enable")
  /\ issued' = issued + 1
  /\ IF At(p).token = 0
     THEN Put(mem[p].store, [At(p) EXCEPT !.token = issued + 1,
                              !.events = Logged(@, "approval_token", Text("enabled"), NoRole)])
     ELSE UNCHANGED db
  /\ UNCHANGED <<snapshot, merged>>

\* Rotating, disabling, sealing and checking a seal all ask first whether a token is
\* enabled.
StartWithToken(p) ==
  /\ \E s \in Stores, op \in {"rotate", "disable", "seal", "checkseal"} :
       \E t \in Presents(p) :
         /\ db[s].token # 0
         /\ Command(p, op, "authorize", [op |-> op, store |-> s, token |-> t])
  /\ KeepAll

\* Reseal begins with requirePerson; LoadSnapshot asks it of a store that has rows.
HasRows(d) == d.events # <<>> \/ d.approvals # <<>> \/ d.checks # <<>>

StartReseal(p) ==
  /\ \E s \in Stores : \E t \in Presents(p) :
       Command(p, "reseal", "authorize", [op |-> "reseal", store |-> s, token |-> t])
  /\ KeepAll

StartImport(p) ==
  /\ snapshot # NoFile
  /\ \E s \in Stores : \E t \in Presents(p) :
       Command(p, "import", IF HasRows(db[s]) THEN "authorize" ELSE "import",
             [op |-> "import", store |-> s, token |-> t])
  /\ KeepAll

After(op) == CASE op \in {"rotate", "disable", "import", "checkseal"} -> op
               [] op = "seal"   -> "readHead"
               [] op = "reseal" -> "chain"

\* authorize, and what requirePerson adds: with no token enabled, not an agent.
Lets(p, m, d) ==
  IF d.token = 0 THEN m.op \in {"reseal", "import"} => p \notin Agents
                 ELSE m.token = d.token

\* The check is a read of its own; a token that does not match is put on record.
Authorize(p) ==
  LET m == mem[p]
  IN  /\ pc[p] = "authorize"
      /\ IF Lets(p, m, At(p)) THEN Goto(p, "authorize", After(m.op), m) ELSE Return(p, "authorize")
      /\ IF m.token # 0 /\ At(p).token # 0 /\ m.token # At(p).token
         THEN Append1(m.store, "approval_token", Text("check_failed"))
         ELSE UNCHANGED db
      /\ KeepRest

\* RotateApprovalToken: the row is updated if it is still there, then the head sealed
\* with the new token.
CommitRotate(p) ==
  LET new == issued + 1
  IN  /\ Goto(p, "rotate", "readHead", [mem[p] EXCEPT !.token = new])
      /\ issued' = new
      /\ Put(mem[p].store, [At(p) EXCEPT !.token = IF @ = 0 THEN 0 ELSE new,
                             !.events = Logged(@, "approval_token", Text("rotated"), NoRole)])
      /\ UNCHANGED <<snapshot, merged>>

CommitDisable(p) ==
  /\ Return(p, "disable")
  /\ Put(mem[p].store, [At(p) EXCEPT !.token = 0,
                         !.events = Logged(@, "approval_token", Text("disabled"), NoRole)])
  /\ KeepRest

-----------------------------------------------------------------------------
(* Sealing the head and checking the seal.                                 *)

ReadHead(p) ==
  /\ pc[p] = "readHead"
  /\ IF HasHead(At(p).events)
     THEN Goto(p, "readHead", "writeSeal",
               [op |-> "seal", store |-> mem[p].store, token |-> mem[p].token,
                head |-> ChainHead(At(p).events)])
     ELSE Return(p, "readHead")
  /\ KeepAll

WriteSeal(p) ==
  /\ Return(p, "writeSeal")
  /\ Append1(mem[p].store, "head_sealed", HeadSeal(mem[p].head, mem[p].token))
  /\ KeepRest

SealsWith(es, token) == {i \in DOMAIN es : es[i].type = "head_sealed" /\ es[i].msg.key = token}

\* CheckHeadSeal: the newest seal of the presented token; others are not trusted.
ReadSeals(p) ==
  LET own == SealsWith(At(p).events, mem[p].token)
  IN  /\ pc[p] = "checkseal"
      /\ IF own = {} THEN Return(p, "checkseal")
         ELSE Goto(p, "checkseal", "anchor",
                   [op |-> "checkseal", store |-> mem[p].store,
                    seal |-> At(p).events[CHOOSE i \in own : \A j \in own : j <= i].msg])
      /\ KeepAll

CheckAnchor(p) ==
  LET seal == mem[p].seal
  IN  /\ Goto(p, "anchor", "report",
              [op |-> "checkseal", store |-> mem[p].store,
               result |-> IF /\ seal.mac = <<seal.key, seal.head>>
                             /\ AnchorHolds(At(p).events, seal.head) THEN "ok" ELSE "seal"])
      /\ KeepAll

-----------------------------------------------------------------------------
(* Verifying: the trail, its seals, the approvals and the checks are four  *)
(* reads, between which others write.                                      *)

StartVerify(p) ==
  /\ \E s \in Stores : Command(p, "verify", "chain", [op |-> "verify", store |-> s])
  /\ KeepAll

Found(p, result) ==
  [op |-> mem[p].op, store |-> mem[p].store, result |-> result,
   begun |-> IF pc[p] = "chain" THEN NoFile ELSE mem[p].begun]

\* VerifyChain
VerifyTrail(p) ==
  /\ pc[p] = "chain"
  /\ IF TrailOK(At(p).events)
     THEN Goto(p, "chain", "seals", [op |-> mem[p].op, store |-> mem[p].store])
     ELSE Goto(p, "chain", "report", Found(p, "chain"))
  /\ KeepAll

ReadRowSeals(p) ==
  /\ Goto(p, "seals", "approvals",
          [op |-> mem[p].op, store |-> mem[p].store, seals |-> SealsIn(At(p).events),
           begun |-> [approvals |-> Len(At(p).approvals), checks |-> Len(At(p).checks)]])
  /\ KeepAll

\* Each table is judged against the seals read before it.
VerifyTable(p, table, next) ==
  /\ pc[p] = table
  /\ IF RowsOK(mem[p].seals, table, At(p)[table])
     THEN Goto(p, table, next, [mem[p] EXCEPT !.seals.of =
            {s \in @ : s.table = table => ~\E i \in DOMAIN At(p)[table] : At(p)[table][i].id = s.id}])
     ELSE Goto(p, table, "report", Found(p, table))
  /\ KeepAll

VerifyApprovals(p) == VerifyTable(p, "approvals", "checks")
VerifyChecks(p)    == VerifyTable(p, "checks", "missing")

\* The seals whose rows neither read has seen.
Conclude(p) ==
  /\ pc[p] = "missing"
  /\ IF mem[p].seals.of # {} THEN Goto(p, "missing", "report", Found(p, "missing"))
     ELSE IF mem[p].op = "reseal" THEN Goto(p, "missing", "reseal", [op |-> "reseal", store |-> mem[p].store])
     ELSE Goto(p, "missing", "report", Found(p, "ok"))
  /\ KeepAll

Report(p) == Return(p, "report") /\ KeepAll

CommitReseal(p) ==
  /\ Return(p, "reseal")
  /\ Put(mem[p].store, Resealed(At(p)))
  /\ KeepRest

-----------------------------------------------------------------------------
(* Snapshots.                                                              *)

\* SnapshotJSON: events, then approvals, then checks, each in a read of its own.
ExportEvents(p) ==
  /\ \E s \in Stores : Command(p, "export", "exportApprovals",
                             [op |-> "export", store |-> s, out |-> [NoFile EXCEPT !.events = db[s].events]])
  /\ KeepAll

ExportApprovals(p) ==
  /\ Goto(p, "exportApprovals", "exportChecks", [mem[p] EXCEPT !.out.approvals = At(p).approvals])
  /\ KeepAll

ExportChecks(p) ==
  /\ Return(p, "exportChecks")
  /\ snapshot' = [mem[p].out EXCEPT !.checks = At(p).checks]
  /\ UNCHANGED <<db, issued, merged>>

\* An import that would fork the chain is rolled back.
Keeps(d) == ChainOK(d.events)

\* LoadSnapshot: rows by primary key, the import's own event, then the chain.
CommitImport(p) ==
  LET d == Imported(At(p), snapshot)
  IN  /\ Return(p, "import")
      /\ IF Keeps(d)
         THEN Put(mem[p].store, d) /\ merged' = merged \cup {mem[p].store}
         ELSE UNCHANGED <<db, merged>>
      /\ UNCHANGED <<snapshot, issued>>

-----------------------------------------------------------------------------
Step(p) ==
  \/ LogEvent(p) \/ RecordRow(p)
  \/ StartEnable(p) \/ CommitEnable(p)
  \/ StartWithToken(p) \/ Authorize(p) \/ CommitRotate(p) \/ CommitDisable(p)
  \/ ReadHead(p) \/ WriteSeal(p) \/ ReadSeals(p) \/ CheckAnchor(p)
  \/ StartVerify(p) \/ VerifyTrail(p) \/ ReadRowSeals(p)
  \/ VerifyApprovals(p) \/ VerifyChecks(p) \/ Conclude(p) \/ Report(p)
  \/ StartReseal(p) \/ CommitReseal(p)
  \/ ExportEvents(p) \/ ExportApprovals(p) \/ ExportChecks(p)
  \/ StartImport(p) \/ CommitImport(p)

\* A process is killed between two of its steps.
Crash(p) == pc[p] # "idle" /\ Return(p, pc[p]) /\ KeepAll

Rest == /\ calls = MaxCalls
        /\ \A p \in Processes : pc[p] = "idle"
        /\ UNCHANGED trailVars

TrailNext == (\E p \in Processes : Step(p) \/ Crash(p)) \/ Rest

TrailSpec == TrailInit /\ [][TrailNext]_trailVars

-----------------------------------------------------------------------------
(* Properties.                                                             *)

EventIds(es) == \A i \in DOMAIN es : es[i].id = i /\ es[i].role \in Roles

\* Ids are given in order and never again, in the trail and in each table.
TrailTypeOK ==
  /\ \A s \in Stores : /\ EventIds(db[s].events)
                       /\ \A table \in Tables : \A i \in DOMAIN db[s][table] :
                            db[s][table][i].id = i /\ db[s][table][i].content \in Contents
                       /\ db[s].token \in 0 .. issued
  /\ calls \in 0 .. MaxCalls

\* Whatever processes write at once, whoever dies between two writes, whatever an
\* older acline left and whoever reseals it when: `acline verify` of a store nobody
\* is writing to finds nothing, unless its records came from a snapshot.  A chain
\* verifies even then.
SoundStoreVerifies ==
  \A s \in Stores : /\ TrailOK(db[s].events)
                    /\ s \notin merged => Verifies(db[s])

\* Everything that `acline verify` promises to notice, done to one event or one row:
\* an event dropped from before the last, its text or (past the marker, or before it
\* once attested) its role changed; a sealed record changed or dropped; a record that no
\* acline wrote, once there is a watermark or an attestation.
Attested(d) == Has(d.events, "legacy_attested")

EventChanges(d) ==
  {RemoveAt(d.events, i) : i \in {j \in DOMAIN d.events :
       j < Len(d.events) /\ (d.events[j].hash # NoHash \/ Attested(d))}}
  \cup {[d.events EXCEPT ![i].msg = Text("altered")] : i \in {j \in DOMAIN d.events :
       d.events[j].hash # NoHash \/ Attested(d)}}
  \cup {[d.events EXCEPT ![i].role = "altered"] : i \in {j \in DOMAIN d.events :
       CoversRole(d.events, j) \/ (Attested(d) /\ ~IsMarker(d.events[j]))}}

RowChanges(d, table) ==
  LET sealed == {i \in DOMAIN d[table] : Sealed(SealsIn(d.events), table, d[table][i].id)}
  IN  {RemoveAt(d[table], i) : i \in sealed}
      \cup {[d[table] EXCEPT ![i].content = "altered"] : i \in sealed}
      \cup (IF Attested(d) \/ Has(d.events, "seal_watermark")
            THEN {Append(d[table], [id |-> Len(d[table]) + 1, content |-> c]) : c \in Contents}
            ELSE {})

AlterationsAreFound ==
  \A s \in Stores : Verifies(db[s]) =>
    /\ \A es \in EventChanges(db[s]) : ~Verifies([db[s] EXCEPT !.events = es])
    /\ \A table \in Tables : \A rows \in RowChanges(db[s], table) :
         ~Verifies([db[s] EXCEPT ![table] = rows])

\* Verification raises an alarm only about a record that was committed while it ran
\* (its seal is newer than the seals that were read); a head seal never fails.
AlarmMeansAWrite ==
  \A p \in Processes : pc[p] = "report" /\ mem[p].store \notin merged =>
    CASE mem[p].result = "ok"  -> TRUE
      [] mem[p].result \in Tables -> Len(At(p)[mem[p].result]) > mem[p].begun[mem[p].result]
      [] OTHER -> FALSE

\* A head sealed with a token is the trail's: however long ago it was read when the
\* seal was written, the event it names is there with the hash it names.
SealsMatchTheTrail ==
  \A s \in Stores : \A i \in DOMAIN db[s].events :
    LET e == db[s].events[i]
    IN  e.type = "head_sealed" => AnchorHolds(SubSeq(db[s].events, 1, i - 1), e.msg.head)

\* What `acline verify` says is true of a store nobody altered: it finds nothing,
\* it alarms only at what was being written, and a sealed head is the trail's.
VerifyTellsTheTruth ==
  /\ TrailTypeOK
  /\ SoundStoreVerifies
  /\ AlarmMeansAWrite
  /\ SealsMatchTheTrail

=============================================================================
