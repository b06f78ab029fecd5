------------------------------ MODULE AuditChain ------------------------------
(***************************************************************************)
(* The audit trail as data: how internal/store/event.go chains an event to *)
(* the one before it, how seal.go seals an approval or a check, how        *)
(* reseal.go attests what older versions wrote, and what verifying a store *)
(* looks at.  SHA-256 is taken to be injective: a hash is the sequence of  *)
(* everything it covers, a digest the record it is of.                     *)
(*                                                                         *)
(* A store is [events, approvals, checks, token]; each table is the        *)
(* sequence of its rows in id order.  Of a record only a content is kept.  *)
(***************************************************************************)
EXTENDS Integers, Sequences, SequencesExt

CONSTANTS Contents          \* what a record or a logged message can say

Tables  == {"approvals", "checks"}
NoHash  == <<>>
NoRole  == "none"
Text(x) == [text |-> x]

Empty == [events |-> <<>>, approvals |-> <<>>, checks |-> <<>>, token |-> 0]

HashOf(es) == IF es = <<>> THEN NoHash ELSE Last(es).hash

\* eventHash leaves role_id out; eventHashV2 covers it.
Hash(prev, e, v2) ==
  Append(prev, IF v2 THEN <<e.type, e.msg, e.role>> ELSE <<e.type, e.msg>>)

Chained(es, type, msg, role, v2) ==
  LET e == [id |-> Len(es) + 1, type |-> type, msg |-> msg, role |-> role]
  IN  Append(es, [id |-> e.id, type |-> type, msg |-> msg, role |-> role,
                  prev |-> HashOf(es), hash |-> Hash(HashOf(es), e, v2)])

Has(es, type) == \E i \in DOMAIN es : es[i].type = type

\* The first event of a type, for a trail that has one.
FirstEvent(es, type) ==
  es[CHOOSE i \in DOMAIN es : es[i].type = type /\ \A j \in 1 .. i - 1 : es[j].type # type]

Marker   == "hash_version"
IsMarker(e) == e.type = Marker /\ e.msg = Text("event_hash_v2")

\* ensureEventHashV2: the marker precedes the first event that covers its role.
WithMarker(es) ==
  IF Has(es, Marker) THEN es
  ELSE Chained(es, Marker, Text("event_hash_v2"), NoRole, FALSE)

\* logEventTx: one event, hashed over the present end of the trail.
Logged(es, type, msg, role) == Chained(WithMarker(es), type, msg, role, TRUE)

LoggedIf(yes, es, type, msg, role) == IF yes THEN Logged(es, type, msg, role) ELSE es

-----------------------------------------------------------------------------
(* Sealing a record.                                                       *)

Digest(table, row) == [table |-> table, id |-> row.id, content |-> row.content]

\* ensureSealWatermark: before the first sealed row, the ids that may have no seal.
Watermarked(d) ==
  IF Has(d.events, "seal_watermark") THEN d
  ELSE [d EXCEPT !.events = Logged(@, "seal_watermark",
          [approvals |-> Len(d.approvals), checks |-> Len(d.checks)], NoRole)]

WithRow(d, table, row) ==
  IF table = "approvals" THEN [d EXCEPT !.approvals = Append(@, row)]
                         ELSE [d EXCEPT !.checks = Append(@, row)]

SealRow(es, table, row) == Logged(es, "row_seal", Digest(table, row), NoRole)

\* insertApproval and addApproval, AddCheckWithMeta: watermark, row, seal and event
\* in one transaction.
Recorded(d, table, content, role) ==
  LET marked == Watermarked(d)
      row    == [id |-> Len(d[table]) + 1, content |-> content]
      sealed == SealRow(marked.events, table, row)
      type   == IF table = "approvals" THEN "approval" ELSE "check"
  IN  [WithRow(marked, table, row) EXCEPT !.events = Logged(sealed, type, Text(content), role)]

-----------------------------------------------------------------------------
(* Verifying.                                                              *)

\* The marker was verified before event i, so its role is covered.
CoversRole(es, i) == \E j \in 1 .. i - 1 : IsMarker(es[j]) /\ es[j].hash # NoHash

\* verifyChain: unhashed events only lead; each other one links to its predecessor
\* and hashes to what it stores.
ChainOK(es) ==
  \A i \in DOMAIN es :
    LET prev == HashOf(SubSeq(es, 1, i - 1))
    IN  IF es[i].hash = NoHash THEN prev = NoHash
        ELSE /\ es[i].prev = prev
             /\ es[i].hash = Hash(prev, es[i], CoversRole(es, i))

\* Mutant: the attestation is of the whole trail so far.
BeforeMarker_All(es) == es

\* legacyDigest: the role of every event before the marker, all of an unhashed one.
BeforeMarker(es) ==
  LET last == CHOOSE n \in 0 .. Len(es) :
                /\ \A i \in 1 .. n : ~IsMarker(es[i])
                /\ n < Len(es) => IsMarker(es[n + 1])
  IN  SubSeq(es, 1, last)

Attestation(es) ==
  LET old == BeforeMarker(es)
  IN  [marker |-> IF Len(old) < Len(es) THEN es[Len(old) + 1].id ELSE 0,
       digest |-> [i \in DOMAIN old |->
                    IF old[i].hash = NoHash THEN <<old[i].id, old[i].role, old[i].type, old[i].msg>>
                                            ELSE <<old[i].id, old[i].role>>]]

\* checkLegacyAttestation: the first attestation, if there is one.
AttestationHolds(es) ==
  Has(es, "legacy_attested") => Attestation(es) = FirstEvent(es, "legacy_attested").msg

\* What VerifyRecords reads of the trail: the first seal of each row, the line
\* below which a row may have none, whether every row was sealed.
SealsIn(es) ==
  [of       |-> {es[i].msg : i \in {j \in DOMAIN es : es[j].type = "row_seal"}},
   lines    |-> IF Has(es, "seal_watermark") THEN {FirstEvent(es, "seal_watermark").msg} ELSE {},
   resealed |-> Has(es, "legacy_attested")]

Sealed(seals, table, id) == \E s \in seals.of : s.table = table /\ s.id = id

\* Mutant: resealing changes nothing.
MayLackSeal_Late(seals, table, id) == \A line \in seals.lines : id <= line[table]

\* A row that predates sealing.
MayLackSeal(seals, table, id) ==
  /\ ~seals.resealed
  /\ \A line \in seals.lines : id <= line[table]

\* A row as VerifyRecords judges it.
RowOK(seals, table, row) ==
  IF Sealed(seals, table, row.id) THEN Digest(table, row) \in seals.of
                                  ELSE MayLackSeal(seals, table, row.id)

NoneMissing(seals, table, rows) ==
  \A s \in seals.of : s.table = table => \E i \in DOMAIN rows : rows[i].id = s.id

RowsOK(seals, table, rows) == \A i \in DOMAIN rows : RowOK(seals, table, rows[i])

RecordsOK(seals, approvals, checks) ==
  /\ RowsOK(seals, "approvals", approvals) /\ RowsOK(seals, "checks", checks)
  /\ NoneMissing(seals, "approvals", approvals) /\ NoneMissing(seals, "checks", checks)

\* VerifyChain: the chain, then the attestation.
TrailOK(es) == ChainOK(es) /\ AttestationHolds(es)

Verifies(d) == TrailOK(d.events) /\ RecordsOK(SealsIn(d.events), d.approvals, d.checks)

-----------------------------------------------------------------------------
(* Resealing, and sealing the head.                                        *)

\* unsealedRecords, of one table, in id order, each sealed.
SealRest(es, d, table) ==
  LET sealed[n \in 0 .. Len(d[table])] ==
        IF n = 0 THEN es
        ELSE IF Sealed(SealsIn(d.events), table, d[table][n].id) THEN sealed[n - 1]
        ELSE SealRow(sealed[n - 1], table, d[table][n])
  IN  sealed[Len(d[table])]

\* Approvals first.
AllSealed(es, d) == SealRest(SealRest(es, d, "approvals"), d, "checks")

\* Mutant: the attestation is made before the marker it is bounded by.
Resealed_Early(d) ==
  LET sealed == AllSealed(d.events, d)
  IN  IF Has(d.events, "legacy_attested") THEN d
      ELSE [d EXCEPT !.events = Logged(sealed, "legacy_attested", Attestation(sealed), NoRole)]

\* The transaction of Reseal: it does nothing the second time.
Resealed(d) ==
  LET sealed == AllSealed(WithMarker(d.events), d)
  IN  IF Has(d.events, "legacy_attested") THEN d
      ELSE [d EXCEPT !.events = Logged(sealed, "legacy_attested", Attestation(sealed), NoRole)]

\* Mutant: the head's id is the number of hashed events.
ChainHead_Counted(es) == [id |-> Len(SelectSeq(es, LAMBDA e : e.hash # NoHash)), hash |-> HashOf(es)]

\* ChainHead: the newest event that carries a hash.
HasHead(es) == \E i \in DOMAIN es : es[i].hash # NoHash
ChainHead(es) ==
  LET i == CHOOSE i \in DOMAIN es : es[i].hash # NoHash /\ \A j \in i + 1 .. Len(es) : es[j].hash = NoHash
  IN  [id |-> es[i].id, hash |-> es[i].hash]

\* A head seal: the head and its MAC, which only the token's holder can compute.
HeadSeal(head, token) == [head |-> head, key |-> token, mac |-> <<token, head>>]

\* CheckAnchor
AnchorHolds(es, head) == \E i \in DOMAIN es : es[i].id = head.id /\ es[i].hash = head.hash

\* INSERT OR IGNORE of a snapshot's rows, by primary key.
Merged(rows, imported) == rows \o SubSeq(imported, Len(rows) + 1, Len(imported))

Imported(d, s) ==
  [d EXCEPT !.events = Logged(Merged(@, s.events), "snapshot_imported", Text("snapshot"), NoRole),
            !.approvals = Merged(@, s.approvals),
            !.checks = Merged(@, s.checks)]
=============================================================================
