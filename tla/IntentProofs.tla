---------------------------- MODULE IntentProofs ----------------------------
(* Proofs about IntentJournal, for every value of its constants. *)
EXTENDS IntentJournal, IntentLemmas

\* The first snapshot is well typed.
LEMMA InitType == Init => TypeOK
  BY DEF Init, TypeOK, Snapshot, EmptySnapshot

\* The acknowledgements of the Host are well typed.
LEMMA AckType == \A ack \in Acks : ack \in OperationAck
  BY EvidenceAssumption DEF Acks, Ack, OperationAck

\* Every operation of the store leaves a snapshot of the diskSnapshot shape, with
\* generations and record counts within their ceilings.
THEOREM TypeCorrect == Spec => []TypeOK
  <1>1. TypeOK /\ [Next]_vars => TypeOK'
    <2> SUFFICES ASSUME TypeOK, [Next]_vars PROVE TypeOK'
      OBVIOUS
    <2>1. CASE Bind
      BY <2>1 DEF Bind, BindEmpty, TypeOK, Snapshot
    <2>2. CASE Import
      <3>1. PICK t \in Target, ev \in ImportEvidence :
              /\ MayImport(snapshot, t, ev.uid, ev.form, ev)
              /\ snapshot' = BindImportedResource(snapshot, t, ev)
        BY <2>2 DEF Import
      <3>2. ImportOf(t, ev) \in ImportBinding
        BY <3>1 DEF MayImport, ImportOf, ImportBinding, ImportEvidence
      <3> QED
        BY <3>1, <3>2 DEF BindImportedResource, TypeOK, Snapshot
    <2>3. CASE BeginIntent
      <3>1. PICK r \in BeginRequest, k \in Keys : snapshot' = Begin(snapshot, r, k)
        BY <2>3 DEF BeginIntent, ValidRequests
      <3> QED
        <4>1. Append(snapshot.records, Claim(r, k)) \in Seq(Intent)
          BY ClaimType DEF TypeOK, Snapshot
        <4> QED
          BY <3>1, <4>1, WithRecordsType, Zenon DEF Begin, TypeOK
    <2>4. CASE Accept
      <3>1. PICK i \in 1..Len(Records), ack \in Acks :
              snapshot' = RecordAccepted(snapshot, i, ack)
        BY <2>4 DEF Accept
      <3>2. AcceptedRecord(Records[i], ack) \in Intent
        BY AckType, AcceptedType DEF TypeOK, Snapshot, Records
      <3> QED
        BY <3>1, <3>2, WithRecordType, Zenon DEF RecordAccepted, TypeOK, Records
    <2>5. CASE Settle
      <3>1. PICK i \in 1..Len(Records), op \in Acks, obs \in ResourceObservation :
              snapshot' = Complete(snapshot, i, op, obs)
        BY <2>5 DEF Settle
      <3>2. CompletedRecord(Records[i], op, obs) \in Intent
        BY AckType, CompletedType DEF TypeOK, Snapshot, Records
      <3> QED
        BY <3>1, <3>2, WithRecordType, Zenon DEF Complete, TypeOK, Records
    <2>6. CASE ExtendRetention
      <3>1. PICK i \in 1..Len(Records), op \in Acks : snapshot' = Extend(snapshot, i, op)
        BY <2>6 DEF ExtendRetention
      <3>2. ExtendedRecord(Records[i], op) \in Intent
        <4>1. Records[i] \in Intent /\ op \in OperationAck
          BY AckType DEF TypeOK, Snapshot, Records
        <4> QED
          BY <4>1, Zenon DEF ExtendedRecord, Intent, OperationAck
      <3> QED
        BY <3>1, <3>2, WithRecordType, Zenon DEF Extend, TypeOK, Records
    <2>7. CASE UNCHANGED vars
      BY <2>7 DEF vars, TypeOK
    <2> QED
      BY <2>1, <2>2, <2>3, <2>4, <2>5, <2>6, <2>7 DEF Next
  <1> QED
    BY InitType, <1>1, PTL DEF Spec

-----------------------------------------------------------------------------
\* A step that replaces one record and keeps its key and its request.
Edits(i, rec) ==
  /\ snapshot' = WithRecord(snapshot, i, rec)
  /\ rec.id = Records[i].id
  /\ rec.request = Records[i].request

\* RecordAccepted and Complete replace one record in place: the others, and every
\* request, stay.
LEMMA EditShape ==
  ASSUME TypeOK, NEW i \in 1..Len(Records), NEW rec \in Intent, Edits(i, rec)
  PROVE  /\ TypeOK'
         /\ Len(Records') = Len(Records)
         /\ Records' = [Records EXCEPT ![i] = rec]
         /\ \A j \in 1..Len(Records) : Records'[j] = IF j = i THEN rec ELSE Records[j]
         /\ \A j \in 1..Len(Records) : Records'[j].request = Records[j].request
         /\ \A j \in 1..Len(Records) : Records'[j].id = Records[j].id
         /\ snapshot'.imports = snapshot.imports
         /\ snapshot'.binding = snapshot.binding
<1>1. snapshot \in Snapshot /\ Records \in Seq(Intent)
  BY DEF TypeOK, Snapshot, Records
<1>2. /\ snapshot' \in Snapshot
      /\ Records' = [Records EXCEPT ![i] = rec]
      /\ Len(Records') = Len(Records)
      /\ snapshot'.imports = snapshot.imports
      /\ snapshot'.binding = snapshot.binding
  BY <1>1, WithRecordType DEF Edits, Records
<1>3. \A j \in 1..Len(Records) : Records'[j] = IF j = i THEN rec ELSE Records[j]
  BY <1>1, <1>2
<1> QED
  BY <1>2, <1>3 DEF Edits, TypeOK

\* It moves no target's history.
LEMMA EditHistory ==
  ASSUME TypeOK, NEW i \in 1..Len(Records), NEW rec \in Intent, Edits(i, rec)
  PROVE  /\ \A t : History(snapshot, t)' = History(snapshot, t)
         /\ \A t : ImportsOf(snapshot, t)' = ImportsOf(snapshot, t)
         /\ \A j \in 1..Len(Records) : Predecessor(snapshot, j)' = Predecessor(snapshot, j)
<1>1. \A t : History(snapshot', t) = History(snapshot, t)
  BY EditShape, Zenon DEF History, Records
<1>2. \A t : ImportsOf(snapshot', t) = ImportsOf(snapshot, t)
  BY EditShape DEF ImportsOf
<1>3. \A j \in 1..Len(Records) : Predecessor(snapshot', j) = Predecessor(snapshot, j)
  <2> TAKE j \in 1..Len(Records)
  <2>1. snapshot'.records[j].request.target = snapshot.records[j].request.target
    BY EditShape, Zenon DEF Records
  <2> QED
    BY <1>1, <2>1, Zenon DEF Predecessor
<1> QED
  BY <1>1, <1>2, <1>3

\* The record before j, when there is one, is a record and older than j.
LEMMA PredecessorRange ==
  ASSUME TypeOK, NEW j \in 1..Len(Records), Predecessor(snapshot, j) # 0
  PROVE  /\ Predecessor(snapshot, j) \in 1..Len(Records)
         /\ Predecessor(snapshot, j) < j
<1> DEFINE I == {i \in History(snapshot, Records[j].request.target) : i < j}
<1>1. Len(Records) \in Nat /\ I \in SUBSET (1..Len(Records))
  BY DEF TypeOK, Snapshot, Records, History
<1>2. I # {} /\ Predecessor(snapshot, j) = LastOf(I)
  BY <1>1, LastOfZero DEF Predecessor, Records
<1>3. LastOf(I) \in I
  BY <1>1, <1>2, LastOfMax, Zenon
<1> QED
  BY <1>1, <1>2, <1>3

-----------------------------------------------------------------------------
\* A store with records is bound (Begin refuses an unbound one).
BoundIfUsed == Records # <<>> => snapshot.binding # None

\* The inductive invariant.
Inv ==
  /\ TypeOK
  /\ EveryWriteDecodes
  /\ UnresolvedIsLatest
  /\ CustodyLine
  /\ BoundIfUsed

\* What an edit may change of a record: an unresolved one may become anything the
\* decoder accepts, a settled one keeps what it established.
SafeEdit(old, rec) ==
  /\ validStoredIntent(rec)
  /\ \/ old.status \in Unresolved
     \/ /\ rec.status = old.status
        /\ rec.opUID = old.opUID
        /\ rec.opGeneration = old.opGeneration

\* Replacing a record by one that decodes, keeps its request and does not reopen
\* it (SafeEdit) keeps the invariant.
LEMMA EditInv ==
  ASSUME Inv, NEW i \in 1..Len(Records), NEW rec \in Intent, Edits(i, rec),
         SafeEdit(Records[i], rec)
  PROVE  Inv'
<1> USE DEF Inv
<1>1. TypeOK' /\ Records \in Seq(Intent) /\ Records' \in Seq(Intent)
  BY EditShape, Zenon DEF TypeOK, Snapshot, Records
<1>2. decodeSnapshot(snapshot')
  <2>1. Size(snapshot') = Size(snapshot)
    BY EditShape, Zenon DEF Records, Size
  <2>2. RecordsDecode(snapshot')
    <3> SUFFICES ASSUME NEW j \in 1..Len(Records)
                 PROVE  /\ validStoredIntent(Records'[j])
                        /\ snapshot.binding # None =>
                             bindingMatches(snapshot', Records'[j].request.target)
                        /\ \A k \in 1..Len(Records) : Records'[j].id = Records'[k].id => j = k
      BY EditShape, Zenon DEF RecordsDecode, Records
    <3>1. /\ validStoredIntent(Records[j])
          /\ snapshot.binding # None => bindingMatches(snapshot, Records[j].request.target)
          /\ \A k \in 1..Len(Records) : Records[j].id = Records[k].id => j = k
      BY DEF EveryWriteDecodes, decodeSnapshot, RecordsDecode, Records
    <3>2. validStoredIntent(Records'[j])
      <4>1. Records'[j] = rec \/ Records'[j] = Records[j]
        BY EditShape
      <4> QED
        BY <3>1, <4>1 DEF SafeEdit
    <3> QED
      BY <3>1, <3>2, EditShape DEF bindingMatches
  <2>3. ImportsDecode(snapshot')
    BY EditShape, Zenon DEF EveryWriteDecodes, decodeSnapshot, ImportsDecode, bindingMatches
  <2> QED
    BY <2>1, <2>2, <2>3, EditShape DEF EveryWriteDecodes, decodeSnapshot
<1>3. UnresolvedIsLatest'
  <2> SUFFICES ASSUME NEW j \in 1..Len(Records), Records'[j].status \in Unresolved
               PROVE  j = latestIntent(snapshot', Records'[j].request.target)
    BY EditShape DEF UnresolvedIsLatest
  <2>1. Records[j].status \in Unresolved
    BY EditShape DEF SafeEdit
  <2>2. latestIntent(snapshot', Records'[j].request.target)
          = latestIntent(snapshot, Records[j].request.target)
    BY EditShape, EditHistory DEF latestIntent
  <2> QED
    BY <2>1, <2>2 DEF UnresolvedIsLatest
<1>4. CustodyLine'
  <2> SUFFICES ASSUME NEW j \in 1..Len(Records)
               PROVE  LET r == Records'[j].request
                          p == Predecessor(snapshot', j)
                          m == LastOf(ImportsOf(snapshot', r.target))
                      IN  /\ p # 0 => Follows(r, Records'[p])
                          /\ p = 0 /\ m # 0 => FollowsImport(r, snapshot'.imports[m])
                          /\ p = 0 /\ m = 0 => r.action = "create"
    BY EditShape DEF CustodyLine
  <2> DEFINE r == Records[j].request
             p == Predecessor(snapshot, j)
             m == LastOf(ImportsOf(snapshot, r.target))
  <2>1. /\ Records'[j].request = r
        /\ Predecessor(snapshot', j) = p
        /\ LastOf(ImportsOf(snapshot', r.target)) = m
    BY EditShape, EditHistory
  <2>2. /\ p # 0 => Follows(r, Records[p])
        /\ p = 0 /\ m # 0 => FollowsImport(r, snapshot.imports[m])
        /\ p = 0 /\ m = 0 => r.action = "create"
    BY DEF CustodyLine
  <2>3. p # 0 => p \in 1..Len(Records)
    BY <1>1, PredecessorRange
  <2>4. ASSUME p # 0 PROVE Follows(r, Records'[p])
    <3>1. CASE p # i
      BY <2>2, <2>3, <2>4, <3>1, EditShape
    <3>2. CASE p = i
      <4>1. Records[i].status \in Settled /\ Follows(r, Records[i])
        BY <2>2, <2>4, <3>2 DEF Follows
      <4>2. Records'[i] = rec /\ rec.status = Records[i].status /\ rec.opUID = Records[i].opUID
            /\ rec.opGeneration = Records[i].opGeneration
        BY <4>1, EditShape DEF SafeEdit, Settled, Unresolved
      <4> QED
        BY <3>2, <4>1, <4>2 DEF Follows, Edits
    <3> QED
      BY <3>1, <3>2
  <2> HIDE DEF r, p, m
  <2> QED
    BY <2>1, <2>2, <2>4, EditShape
<1>5. BoundIfUsed'
  BY <1>1, EditShape DEF BoundIfUsed
<1> QED
  BY <1>1, <1>2, <1>3, <1>4, <1>5 DEF EveryWriteDecodes

-----------------------------------------------------------------------------
\* The latest intent of a target, when there is one, is the last of its history.
LEMMA LatestRange ==
  ASSUME TypeOK, NEW t, latestIntent(snapshot, t) # 0
  PROVE  /\ latestIntent(snapshot, t) \in 1..Len(Records)
         /\ latestIntent(snapshot, t) \in History(snapshot, t)
         /\ \A j \in History(snapshot, t) : j <= latestIntent(snapshot, t)
<1>1. Len(Records) \in Nat /\ History(snapshot, t) \in SUBSET (1..Len(Records))
  BY DEF TypeOK, Snapshot, Records, History
<1>2. History(snapshot, t) # {}
  BY <1>1, LastOfZero DEF latestIntent
<1> QED
  BY <1>1, <1>2, LastOfMax, Zenon DEF latestIntent

\* When nothing is unresolved, currentIdentity is what the target's newest record
\* left behind, so the checks of Begin compare with that record.
LEMMA IdentityOfLatest ==
  ASSUME Inv, NEW t, ~ HasUnresolved(snapshot, t), latestIntent(snapshot, t) # 0
  PROVE  /\ Records[latestIntent(snapshot, t)].status \in Settled
         /\ currentIdentity(snapshot, t) = RecordIdentity(Records[latestIntent(snapshot, t)])
<1> DEFINE n == Len(Records)
           l == latestIntent(snapshot, t)
           I == {j \in History(snapshot, t) :
                   \/ snapshot.records[j].status \in {"delete-confirmed", "failed-reserved"}
                   \/ /\ snapshot.records[j].status = "applied"
                      /\ snapshot.records[j].request.action \in {"create", "update"}}
<1>1. /\ n \in Nat /\ Records \in Seq(Intent) /\ l \in 1..n /\ l \in History(snapshot, t)
      /\ \A j \in History(snapshot, t) : j <= l
  BY LatestRange DEF Inv, TypeOK, Snapshot, Records
<1>2. Records[l] \in Intent /\ validStoredIntent(Records[l])
  BY <1>1 DEF Inv, EveryWriteDecodes, decodeSnapshot, RecordsDecode, Records
<1>3. Records[l].status \in Settled
  <2>1. Records[l].status \in Statuses
    BY <1>2 DEF Intent
  <2> QED
    BY <1>1, <2>1 DEF HasUnresolved, Statuses, Records
<1>4. l \in I
  <2>1. Records[l].status = "applied" => Records[l].request.action \in {"create", "update"}
    BY <1>2 DEF validStoredIntent, StatusShape
  <2> QED
    BY <1>1, <1>3, <2>1 DEF Settled, Records
<1>5. LastOf(I) = l
  <2>1. I \in SUBSET (1..n) /\ \A j \in I : j <= l
    BY <1>1 DEF History, Records
  <2> HIDE DEF I, l
  <2> QED
    BY <1>1, <1>4, <2>1, LastOfIs, Zenon
<1>6. l # 0
  OBVIOUS
<1> HIDE DEF l
<1> QED
  BY <1>3, <1>5, <1>6, Zenon DEF currentIdentity, Records, l

\* Without a record, currentIdentity is that of the import, if there is one.
LEMMA IdentityOfImport ==
  ASSUME Inv, NEW t, latestIntent(snapshot, t) = 0
  PROVE  LET m == LastOf(ImportsOf(snapshot, t))
         IN  currentIdentity(snapshot, t) =
               IF m = 0 THEN Identity(FALSE, FALSE, None, 0, None)
                 ELSE Identity(TRUE, FALSE, snapshot.imports[m].uid,
                               snapshot.imports[m].generation, snapshot.imports[m].form)
<1> DEFINE I == {j \in History(snapshot, t) :
                   \/ snapshot.records[j].status \in {"delete-confirmed", "failed-reserved"}
                   \/ /\ snapshot.records[j].status = "applied"
                      /\ snapshot.records[j].request.action \in {"create", "update"}}
<1>1. Len(Records) \in Nat /\ History(snapshot, t) \in SUBSET (1..Len(Records))
  BY DEF Inv, TypeOK, Snapshot, Records, History
<1>2. History(snapshot, t) = {}
  BY <1>1, LastOfZero, Zenon DEF latestIntent
<1>3. LastOf(I) = 0
  BY <1>2 DEF LastOf
<1> QED
  BY <1>3, Zenon DEF currentIdentity

\* The request Begin claims follows what the target's history left behind.
LEMMA ClaimFollows ==
  ASSUME Inv, NEW r \in BeginRequest, BeginClaims(snapshot, r)
  PROVE  LET l == latestIntent(snapshot, r.target)
             m == LastOf(ImportsOf(snapshot, r.target))
         IN  /\ l # 0 => Follows(r, Records[l])
             /\ l = 0 /\ m # 0 => FollowsImport(r, snapshot.imports[m])
             /\ l = 0 /\ m = 0 => r.action = "create"
<1> DEFINE l == latestIntent(snapshot, r.target)
           m == LastOf(ImportsOf(snapshot, r.target))
           cur == currentIdentity(snapshot, r.target)
<1>1. validateBegin(r) /\ Fenced(snapshot, r) /\ ~ HasUnresolved(snapshot, r.target)
  BY DEF BeginClaims
<1>2. /\ r.action = "create" =>
           ~ cur.found /\ (l = 0 \/ Records[l].status = "delete-confirmed")
      /\ r.action # "create" =>
           /\ cur = Identity(TRUE, FALSE, r.uid, r.generation, r.form)
           /\ r.supersedes = None => ~ (l # 0 /\ Records[l].status = "failed-reserved")
           /\ r.supersedes # None =>
                l # 0 /\ Records[l].status = "failed-reserved" /\ Records[l].id = r.supersedes
  BY <1>1, Zenon DEF Fenced, Records
<1>3. r.action = "create" => r.supersedes = None
  BY <1>1 DEF validateBegin
<1>4. ASSUME l # 0 PROVE Follows(r, Records[l])
  <2> DEFINE rec == Records[l]
  <2>1. rec.status \in Settled /\ cur = RecordIdentity(rec)
    BY <1>1, <1>4, IdentityOfLatest
  <2>2. rec \in Intent /\ validStoredIntent(rec)
    BY <1>4, LatestRange
       DEF Inv, TypeOK, Snapshot, EveryWriteDecodes, decodeSnapshot, RecordsDecode, Records
  <2> HIDE DEF rec, cur
  <2>3. /\ rec.status = "applied" => cur = Identity(TRUE, FALSE, rec.opUID, rec.opGeneration, rec.request.form)
        /\ rec.status = "failed-reserved" =>
             cur = Identity(TRUE, FALSE, rec.opUID, rec.opGeneration, rec.request.form)
        /\ rec.status = "delete-confirmed" => ~ cur.found
    BY <2>1, <2>2, Zenon DEF RecordIdentity, Identity, validStoredIntent, StatusShape
  <2> QED
    BY <1>2, <1>3, <1>4, <2>1, <2>3 DEF Follows, Settled, Identity, rec
<1>5. ASSUME l = 0 PROVE /\ m # 0 => FollowsImport(r, snapshot.imports[m])
                         /\ m = 0 => r.action = "create"
  <2>1. /\ m = 0 => ~ cur.found
        /\ m # 0 => cur = Identity(TRUE, FALSE, snapshot.imports[m].uid,
                                   snapshot.imports[m].generation, snapshot.imports[m].form)
    <3>1. cur = IF m = 0 THEN Identity(FALSE, FALSE, None, 0, None)
                  ELSE Identity(TRUE, FALSE, snapshot.imports[m].uid,
                                snapshot.imports[m].generation, snapshot.imports[m].form)
      BY <1>5, IdentityOfImport, Zenon
    <3> HIDE DEF m, cur
    <3> QED
      BY <3>1 DEF Identity
  <2> HIDE DEF m, cur
  <2> QED
    BY <1>2, <1>5, <2>1 DEF FollowsImport, Identity
<1> QED
  BY <1>4, <1>5

\* A new claim of Begin keeps the invariant.
LEMMA BeginInv ==
  ASSUME Inv, NEW r \in BeginRequest, BeginClaims(snapshot, r), NEW k \in Keys, FreshKey(k),
         snapshot' = Begin(snapshot, r, k)
  PROVE  Inv'
<1> DEFINE n == Len(Records)
<1>1. /\ TypeOK' /\ n \in Nat /\ Records \in Seq(Intent)
      /\ Records' = Append(Records, Claim(r, k))
      /\ snapshot'.imports = snapshot.imports /\ snapshot'.binding = snapshot.binding
  <2>1. snapshot \in Snapshot /\ Append(Records, Claim(r, k)) \in Seq(Intent)
    BY ClaimType DEF Inv, TypeOK, Snapshot, Records
  <2>2. /\ snapshot' \in Snapshot
        /\ snapshot'.records = Append(Records, Claim(r, k))
        /\ snapshot'.imports = snapshot.imports /\ snapshot'.binding = snapshot.binding
    BY <2>1, WithRecordsType, Zenon DEF Begin, Records
  <2>3. Records \in Seq(Intent)
    BY <2>1 DEF Snapshot, Records
  <2> QED
    BY <2>2, <2>3 DEF TypeOK, Records
<1>2. /\ Len(Records') = n + 1
      /\ Records'[n + 1] = Claim(r, k)
      /\ \A j \in 1..n : Records'[j] = Records[j]
  BY <1>1
<1>3. /\ Claim(r, k).request = r /\ Claim(r, k).id = k /\ Claim(r, k).status = "claimed"
  BY DEF Claim
<1>4. \A t : History(snapshot', t) =
               History(snapshot, t) \cup (IF t = r.target THEN {n + 1} ELSE {})
  BY <1>1, <1>2, <1>3 DEF History, Records
<1>5. \A t : ImportsOf(snapshot', t) = ImportsOf(snapshot, t)
  BY <1>1 DEF ImportsOf
<1>6. \A t : History(snapshot, t) \in SUBSET (1..n)
  BY DEF History, Records
<1>7. decodeSnapshot(snapshot')
  <2>1. Size(snapshot') = Size(snapshot) + 1 /\ Size(snapshot) < MaxRecords
        /\ Size(snapshot) \in Nat
    BY <1>1, <1>2 DEF Size, BeginClaims, Records, Inv, TypeOK, Snapshot
  <2>2. Size(snapshot') <= MaxRecords
    BY <2>1, BoundsAssumption
  <2>3. validStoredIntent(Claim(r, k))
    BY DEF BeginClaims, validStoredIntent, Claim, StatusShape
  <2>4. RecordsDecode(snapshot')
    <3> SUFFICES ASSUME NEW j \in 1..(n + 1)
                 PROVE  /\ validStoredIntent(Records'[j])
                        /\ snapshot.binding # None =>
                             bindingMatches(snapshot', Records'[j].request.target)
                        /\ \A i \in 1..(n + 1) : Records'[j].id = Records'[i].id => j = i
      BY <1>1, <1>2 DEF RecordsDecode, Records
    <3>1. \A i \in 1..n :
            /\ validStoredIntent(Records[i])
            /\ snapshot.binding # None => bindingMatches(snapshot, Records[i].request.target)
            /\ \A h \in 1..n : Records[i].id = Records[h].id => i = h
            /\ Records[i].id # k
      BY DEF Inv, EveryWriteDecodes, decodeSnapshot, RecordsDecode, Records, FreshKey
    <3>2. validStoredIntent(Records'[j])
      <4>1. j \in 1..n \/ j = n + 1
        BY <1>1
      <4> QED
        BY <1>2, <2>3, <3>1, <4>1
    <3>3. bindingMatches(snapshot, r.target)
      BY DEF BeginClaims
    <3>4. snapshot.binding # None => bindingMatches(snapshot', Records'[j].request.target)
      <4>1. j \in 1..n \/ j = n + 1
        BY <1>1
      <4> QED
        BY <1>1, <1>2, <1>3, <3>1, <3>3, <4>1 DEF bindingMatches
    <3>5. \A i \in 1..(n + 1) : Records'[j].id = Records'[i].id => j = i
      <4> TAKE i \in 1..(n + 1)
      <4>1. (j \in 1..n \/ j = n + 1) /\ (i \in 1..n \/ i = n + 1)
        BY <1>1
      <4> QED
        BY <1>2, <1>3, <3>1, <4>1
    <3> QED
      BY <3>2, <3>4, <3>5
  <2>5. ImportsDecode(snapshot')
    BY <1>1 DEF Inv, EveryWriteDecodes, decodeSnapshot, ImportsDecode, bindingMatches
  <2> QED
    BY <1>1, <2>2, <2>4, <2>5 DEF Inv, EveryWriteDecodes, decodeSnapshot
<1>8. UnresolvedIsLatest'
  <2> SUFFICES ASSUME NEW j \in 1..(n + 1), Records'[j].status \in Unresolved
               PROVE  j = latestIntent(snapshot', Records'[j].request.target)
    BY <1>2 DEF UnresolvedIsLatest
  <2>1. CASE j = n + 1
    <3> DEFINE I == History(snapshot, r.target) \cup {n + 1}
    <3>1. /\ n + 1 \in Nat /\ I \in SUBSET (1..(n + 1)) /\ n + 1 \in I
          /\ \A i \in I : i <= n + 1
      <4>1. \A i \in History(snapshot, r.target) : i \in 1..n
        BY <1>6
      <4> QED
        BY <1>1, <4>1
    <3>2. History(snapshot', r.target) = I
      BY <1>4
    <3> HIDE DEF I
    <3> QED
      BY <1>2, <1>3, <2>1, <3>1, <3>2, LastOfIs, Zenon DEF latestIntent
  <2>2. CASE j \in 1..n
    <3>1. Records[j].status \in Unresolved /\ Records'[j] = Records[j]
      BY <1>2, <2>2
    <3>2. Records[j].request.target # r.target
      BY <2>2, <3>1 DEF BeginClaims, HasUnresolved, History, Records
    <3>3. History(snapshot', Records[j].request.target) = History(snapshot, Records[j].request.target)
      BY <1>4, <3>2, Zenon
    <3> QED
      BY <2>2, <3>1, <3>3 DEF Inv, UnresolvedIsLatest, latestIntent
  <2> QED
    BY <1>1, <2>1, <2>2
<1>9. CustodyLine'
  <2> SUFFICES ASSUME NEW j \in 1..(n + 1)
               PROVE  LET q == Records'[j].request
                          p == Predecessor(snapshot', j)
                          m == LastOf(ImportsOf(snapshot', q.target))
                      IN  /\ p # 0 => Follows(q, Records'[p])
                          /\ p = 0 /\ m # 0 => FollowsImport(q, snapshot'.imports[m])
                          /\ p = 0 /\ m = 0 => q.action = "create"
    BY <1>2 DEF CustodyLine
  <2> DEFINE q == Records'[j].request
             p == Predecessor(snapshot', j)
             m == LastOf(ImportsOf(snapshot', q.target))
  <2>1. CASE j \in 1..n
    <3>1. q = Records[j].request /\ q.target = snapshot.records[j].request.target
          /\ q.target = snapshot'.records[j].request.target
      BY <1>2, <2>1 DEF Records
    <3>2. {i \in History(snapshot', q.target) : i < j} = {i \in History(snapshot, q.target) : i < j}
      BY <1>1, <1>4, <2>1
    <3>3. p = Predecessor(snapshot, j) /\ m = LastOf(ImportsOf(snapshot, q.target))
      BY <1>5, <3>1, <3>2, Zenon DEF Predecessor
    <3>4. p # 0 => p \in 1..n
      BY <2>1, <3>3, PredecessorRange DEF Inv
    <3>5. /\ p # 0 => Follows(q, Records[p])
          /\ p = 0 /\ m # 0 => FollowsImport(q, snapshot.imports[m])
          /\ p = 0 /\ m = 0 => q.action = "create"
      BY <2>1, <3>1, <3>3 DEF Inv, CustodyLine
    <3> HIDE DEF p, m, q
    <3>6. p # 0 => Records'[p] = Records[p]
      BY <1>2, <3>4
    <3> QED
      BY <1>1, <3>5, <3>6, Zenon DEF p, m, q
  <2>2. CASE j = n + 1
    <3>1. q = r /\ q.target = snapshot'.records[j].request.target
      BY <1>2, <1>3, <2>2 DEF Records
    <3>2. {i \in History(snapshot', q.target) : i < j} = History(snapshot, q.target)
      <4>1. \A i \in History(snapshot, q.target) : i \in 1..n /\ i < j
        BY <1>1, <1>6, <2>2
      <4> HIDE DEF q
      <4> QED
        BY <1>1, <1>4, <2>2, <3>1, <4>1
    <3>3. p = latestIntent(snapshot, r.target) /\ m = LastOf(ImportsOf(snapshot, r.target))
      BY <1>5, <3>1, <3>2, Zenon DEF Predecessor, latestIntent
    <3>4. p # 0 => p \in 1..n
      BY <3>3, LatestRange DEF Inv
    <3>5. /\ p # 0 => Follows(r, Records[p])
          /\ p = 0 /\ m # 0 => FollowsImport(r, snapshot.imports[m])
          /\ p = 0 /\ m = 0 => r.action = "create"
      BY <3>3, ClaimFollows
    <3> HIDE DEF p, m, q
    <3>6. p # 0 => Records'[p] = Records[p]
      BY <1>2, <3>4
    <3> QED
      BY <1>1, <3>1, <3>5, <3>6, Zenon DEF p, m, q
  <2>3. j \in 1..n \/ j = n + 1
    BY <1>1
  <2> HIDE DEF n
  <2> QED
    BY <2>1, <2>2, <2>3
<1>10. BoundIfUsed'
  BY <1>1 DEF BoundIfUsed, BeginClaims, bindingMatches
<1> QED
  BY <1>1, <1>7, <1>8, <1>9, <1>10 DEF Inv, EveryWriteDecodes

\* BindImportedResource keeps the invariant: it only adds an import to a target without one.
LEMMA ImportInv ==
  ASSUME Inv, NEW t \in Target, NEW ev \in ImportEvidence,
         MayImport(snapshot, t, ev.uid, ev.form, ev),
         snapshot' = BindImportedResource(snapshot, t, ev)
  PROVE  Inv'
<1> DEFINE n == Len(snapshot.imports)
           new == ImportOf(t, ev)
<1>1. /\ new \in ImportBinding /\ new.target = t /\ new.uid = ev.uid
      /\ new.generation \in 1..MaxGeneration
  BY DEF MayImport, ImportOf, ImportBinding, ImportEvidence
<1>2. /\ n \in Nat /\ snapshot.imports \in Seq(ImportBinding)
      /\ snapshot'.imports = Append(snapshot.imports, new)
      /\ snapshot'.records = snapshot.records /\ snapshot'.binding = snapshot.binding
      /\ snapshot' \in Snapshot /\ Len(snapshot.records) \in Nat
  BY <1>1 DEF BindImportedResource, Inv, TypeOK, Snapshot
<1> HIDE DEF new
<1>3. /\ Len(snapshot'.imports) = n + 1
      /\ snapshot'.imports[n + 1] = new
      /\ \A j \in 1..n : snapshot'.imports[j] = snapshot.imports[j]
  BY <1>1, <1>2
<1>4. \A u : History(snapshot', u) = History(snapshot, u)
  BY <1>2 DEF History
<1>5. \A u : u # t => ImportsOf(snapshot', u) = ImportsOf(snapshot, u)
  BY <1>1, <1>2, <1>3 DEF ImportsOf
<1>6. decodeSnapshot(snapshot')
  <2>1. Size(snapshot') <= MaxRecords
    <3>1. Size(snapshot) < MaxRecords
      BY DEF MayImport
    <3>2. Len(snapshot'.records) = Len(snapshot.records) /\ Len(snapshot'.imports) = n + 1
      BY <1>2, <1>3
    <3>3. Len(snapshot.records) \in Nat /\ n \in Nat
      BY <1>2
    <3>4. Len(snapshot.records) + (n + 1) <= MaxRecords
      <4>1. \A a, b, c \in Nat : a + b < c => a + (b + 1) <= c
        OBVIOUS
      <4> QED
        BY <3>1, <3>3, <4>1, BoundsAssumption, Zenon DEF Size
    <3> QED
      BY <3>2, <3>4, Zenon DEF Size
  <2>2. RecordsDecode(snapshot') /\ snapshot'.binding # None
    <3>1. snapshot.binding # None
      BY DEF MayImport, bindingMatches
    <3>2. RecordsDecode(snapshot)
      BY DEF Inv, EveryWriteDecodes, decodeSnapshot
    <3>3. snapshot'.records = snapshot.records /\ snapshot'.binding = snapshot.binding
      BY <1>2
    <3>4. RecordsDecode(snapshot')
      BY <3>2, <3>3 DEF RecordsDecode, bindingMatches
    <3> QED
      BY <3>1, <3>3, <3>4
  <2>3. ImportsDecode(snapshot')
    <3>1. \A i \in 1..n :
            /\ bindingMatches(snapshot, snapshot.imports[i].target)
            /\ snapshot.imports[i].generation \in 1..MaxGeneration
            /\ \A j \in 1..n : SameImport(snapshot.imports[i], snapshot.imports[j]) => i = j
            /\ ~ SameImport(snapshot.imports[i], new)
            /\ ~ SameImport(new, snapshot.imports[i])
      BY <1>1
         DEF Inv, EveryWriteDecodes, decodeSnapshot, ImportsDecode, MayImport, ImportsOf, SameImport
    <3> SUFFICES ASSUME NEW i \in 1..(n + 1)
                 PROVE  /\ bindingMatches(snapshot', snapshot'.imports[i].target)
                        /\ snapshot'.imports[i].generation \in 1..MaxGeneration
                        /\ \A j \in 1..(n + 1) :
                             SameImport(snapshot'.imports[i], snapshot'.imports[j]) => i = j
      BY <1>3 DEF ImportsDecode
    <3>2. \A j \in 1..(n + 1) : j \in 1..n \/ j = n + 1
      BY <1>2
    <3>3. bindingMatches(snapshot, t)
      BY DEF MayImport
    <3>4. bindingMatches(snapshot', snapshot'.imports[i].target)
      BY <1>1, <1>2, <1>3, <3>1, <3>2, <3>3 DEF bindingMatches
    <3>5. snapshot'.imports[i].generation \in 1..MaxGeneration
      BY <1>1, <1>3, <3>1, <3>2, Zenon
    <3>6. \A j \in 1..(n + 1) : SameImport(snapshot'.imports[i], snapshot'.imports[j]) => i = j
      BY <1>3, <3>1, <3>2, Zenon
    <3> QED
      BY <3>4, <3>5, <3>6
  <2> QED
    BY <2>1, <2>2, <2>3 DEF decodeSnapshot
<1>7. UnresolvedIsLatest'
  BY <1>2, <1>4 DEF Inv, UnresolvedIsLatest, latestIntent, Records
<1>8. CustodyLine'
  <2> SUFFICES ASSUME NEW j \in 1..Len(Records)
               PROVE  LET r == Records[j].request
                          p == Predecessor(snapshot', j)
                          m == LastOf(ImportsOf(snapshot', r.target))
                      IN  /\ p # 0 => Follows(r, Records[p])
                          /\ p = 0 /\ m # 0 => FollowsImport(r, snapshot'.imports[m])
                          /\ p = 0 /\ m = 0 => r.action = "create"
    BY <1>2, Zenon DEF CustodyLine, Records
  <2> DEFINE r == Records[j].request
             p == Predecessor(snapshot, j)
             m == LastOf(ImportsOf(snapshot, r.target))
  <2>1. Predecessor(snapshot', j) = p
    BY <1>2, <1>4, Zenon DEF Predecessor
  <2>2. r.target # t
    BY DEF MayImport, History, Records
  <2>3. LastOf(ImportsOf(snapshot', r.target)) = m
    BY <1>5, <2>2
  <2>4. m # 0 => m \in 1..n
    <3>1. ImportsOf(snapshot, r.target) \in SUBSET (1..n)
      BY DEF ImportsOf
    <3> QED
      BY <1>2, <3>1, LastOfMax, LastOfZero, Zenon
  <2>5. /\ p # 0 => Follows(r, Records[p])
        /\ p = 0 /\ m # 0 => FollowsImport(r, snapshot.imports[m])
        /\ p = 0 /\ m = 0 => r.action = "create"
    BY Zenon DEF Inv, CustodyLine
  <2> HIDE DEF r, p, m
  <2>6. m # 0 => snapshot'.imports[m] = snapshot.imports[m]
    BY <1>3, <2>4
  <2> QED
    BY <2>1, <2>3, <2>5, <2>6, Zenon DEF r, p, m
<1>9. BoundIfUsed'
  BY <1>2 DEF Inv, BoundIfUsed, Records
<1> QED
  BY <1>2, <1>6, <1>7, <1>8, <1>9 DEF Inv, EveryWriteDecodes, TypeOK

\* The invariant holds of an empty snapshot.
LEMMA EmptyInv ==
  ASSUME snapshot \in Snapshot, snapshot.records = <<>>, snapshot.imports = <<>>
  PROVE  Inv
<1>1. Size(snapshot) <= MaxRecords
  BY BoundsAssumption DEF Size
<1>2. EveryWriteDecodes
  BY <1>1 DEF EveryWriteDecodes, decodeSnapshot, RecordsDecode, ImportsDecode
<1>3. UnresolvedIsLatest /\ CustodyLine /\ BoundIfUsed
  BY DEF UnresolvedIsLatest, CustodyLine, BoundIfUsed, Records
<1> QED
  BY <1>2, <1>3 DEF Inv, TypeOK

\* The journal's invariant: whatever operations run, in whatever order, and
\* whatever the Host answers.
THEOREM JournalInvariant == Spec => []Inv
<1>1. Init => Inv
  <2> SUFFICES ASSUME Init PROVE Inv
    OBVIOUS
  <2>1. snapshot \in Snapshot /\ snapshot.records = <<>> /\ snapshot.imports = <<>>
    BY DEF Init, Snapshot, EmptySnapshot
  <2> QED
    BY <2>1, EmptyInv
<1>2. Inv /\ [Next]_vars => Inv'
  <2> SUFFICES ASSUME Inv, [Next]_vars PROVE Inv'
    OBVIOUS
  <2>a. snapshot \in Snapshot /\ Records \in Seq(Intent)
    BY DEF Inv, TypeOK, Snapshot, Records
  <2>b. \A i \in 1..Len(Records) : Records[i] \in Intent /\ validStoredIntent(Records[i])
    BY <2>a DEF Inv, EveryWriteDecodes, decodeSnapshot, RecordsDecode, Records
  <2>1. CASE Bind
    <3>1. PICK b \in Hosts : MayBind(snapshot) /\ snapshot' = BindEmpty(snapshot, b)
      BY <2>1 DEF Bind
    <3>2. snapshot.records = <<>> /\ snapshot.imports = <<>>
      BY <2>a, <3>1 DEF MayBind, Size, Snapshot
    <3>3. /\ snapshot' \in Snapshot
          /\ snapshot'.records = <<>> /\ snapshot'.imports = <<>>
      BY <2>a, <3>1, <3>2 DEF BindEmpty, Snapshot
    <3>4. Size(snapshot') <= MaxRecords
      BY <3>3, BoundsAssumption DEF Size
    <3>5. TypeOK'
      BY <3>3 DEF TypeOK
    <3>6. EveryWriteDecodes'
      BY <3>3, <3>4 DEF EveryWriteDecodes, decodeSnapshot, RecordsDecode, ImportsDecode
    <3>7. UnresolvedIsLatest' /\ CustodyLine' /\ BoundIfUsed'
      BY <3>3 DEF UnresolvedIsLatest, CustodyLine, BoundIfUsed, Records
    <3> QED
      BY <3>5, <3>6, <3>7 DEF Inv
  <2>2. CASE Import
    BY <2>2, ImportInv DEF Import
  <2>3. CASE BeginIntent
    BY <2>3, BeginInv DEF BeginIntent, ValidRequests
  <2>4. CASE Accept
    <3>1. PICK i \in 1..Len(Records), ack \in Acks :
            MayAccept(snapshot, i, ack) /\ snapshot' = RecordAccepted(snapshot, i, ack)
      BY <2>4 DEF Accept
    <3> DEFINE rec == AcceptedRecord(Records[i], ack)
    <3>2. rec \in Intent /\ validStoredIntent(rec)
      BY <2>a, <2>b, <3>1, AckType, AcceptedType, AcceptedValid DEF Records
    <3>3. rec.id = Records[i].id /\ rec.request = Records[i].request
      BY <2>b DEF AcceptedRecord, Intent
    <3>4. SafeEdit(Records[i], rec)
      BY <3>1, <3>2 DEF SafeEdit, MayAccept, Unresolved, Records
    <3>5. Edits(i, rec)
      BY <3>1, <3>3 DEF Edits, RecordAccepted, Records
    <3> HIDE DEF rec
    <3> QED
      BY <3>2, <3>4, <3>5, EditInv
  <2>5. CASE Settle
    <3>1. PICK i \in 1..Len(Records), op \in Acks, obs \in ResourceObservation :
            MayComplete(snapshot, i, op, obs) /\ snapshot' = Complete(snapshot, i, op, obs)
      BY <2>5 DEF Settle
    <3> DEFINE rec == CompletedRecord(Records[i], op, obs)
    <3>2. rec \in Intent /\ validStoredIntent(rec)
      BY <2>a, <2>b, <3>1, AckType, CompletedType, CompletedValid DEF Records
    <3>3. rec.id = Records[i].id /\ rec.request = Records[i].request
      BY <2>b DEF CompletedRecord, Intent
    <3>4. SafeEdit(Records[i], rec)
      BY <3>1, <3>2, Zenon DEF SafeEdit, MayComplete, Unresolved, Records
    <3>5. Edits(i, rec)
      BY <3>1, <3>3 DEF Edits, Complete, Records
    <3> HIDE DEF rec
    <3> QED
      BY <3>2, <3>4, <3>5, EditInv
  <2>6. CASE ExtendRetention
    <3>1. PICK i \in 1..Len(Records), op \in Acks :
            /\ EvidenceBelongs(snapshot, i, op)
            /\ Records[i].status \in Settled
            /\ snapshot' = Extend(snapshot, i, op)
      BY <2>6 DEF ExtendRetention, MayExtend, Records
    <3> DEFINE rec == ExtendedRecord(Records[i], op)
    <3>2. op \in OperationAck /\ Records[i] \in Intent
      BY <2>b, AckType
    <3>3. rec \in Intent
      BY <3>2, Zenon DEF ExtendedRecord, Intent, OperationAck
    <3>4. validStoredIntent(rec)
      BY <2>a, <2>b, <3>1, <3>2, ExtendedValid DEF Records
    <3>5. /\ rec.id = Records[i].id /\ rec.request = Records[i].request
          /\ rec.status = Records[i].status /\ rec.opUID = Records[i].opUID
          /\ rec.opGeneration = Records[i].opGeneration
      BY <2>b DEF ExtendedRecord, Intent
    <3>6. SafeEdit(Records[i], rec)
      BY <3>4, <3>5 DEF SafeEdit
    <3>7. Edits(i, rec)
      BY <3>1, <3>5, Zenon DEF Edits, Extend, Records
    <3> HIDE DEF rec
    <3> QED
      BY <3>3, <3>6, <3>7, EditInv
  <2>7. CASE UNCHANGED vars
    BY <2>7, Zenon DEF vars, Inv, TypeOK, EveryWriteDecodes, UnresolvedIsLatest, CustodyLine, BoundIfUsed,
                Records
  <2> QED
    BY <2>1, <2>2, <2>3, <2>4, <2>5, <2>6, <2>7 DEF Next
<1> QED
  BY <1>1, <1>2, PTL DEF Spec

\* No operation writes a snapshot the decoder refuses.
THEOREM Decodes == Spec => []EveryWriteDecodes
<1>1. Inv => EveryWriteDecodes
  BY DEF Inv
<1> QED
  BY <1>1, JournalInvariant, PTL

\* A target's unresolved intent is its newest record, so there is at most one.
THEOREM OneUnresolved == Spec => []UnresolvedIsLatest
<1>1. Inv => UnresolvedIsLatest
  BY DEF Inv
<1> QED
  BY <1>1, JournalInvariant, PTL

\* Every claim is fenced on what the record before it left behind.
THEOREM Custody == Spec => []CustodyLine
<1>1. Inv => CustodyLine
  BY DEF Inv
<1> QED
  BY <1>1, JournalInvariant, PTL

\* An unresolved intent met again by an identical request returns its own key.
THEOREM Replay == Spec => []UnresolvedIsReplayed
<1>1. Inv => UnresolvedIsReplayed
  <2> SUFFICES ASSUME Inv, NEW i \in 1..Len(Records), Records[i].status \in Unresolved
               PROVE  /\ BeginReplays(snapshot, Records[i].request)
                      /\ LoopStop(snapshot, Records[i].request) = i
    BY DEF UnresolvedIsReplayed
  <2> DEFINE r == Records[i].request
             I == {j \in History(snapshot, r.target) :
                     \/ Boundary(snapshot.records[j], r)
                     \/ Replays(snapshot.records[j], r)
                     \/ Conflicts(snapshot.records[j], r)}
  <2>1. /\ Len(Records) \in Nat /\ Records # <<>>
        /\ I \in SUBSET (1..Len(Records))
    BY DEF Inv, TypeOK, Snapshot, Records, History
  <2>2. i = latestIntent(snapshot, r.target)
    BY DEF Inv, UnresolvedIsLatest
  <2>3. \A j \in I : j <= i
    BY <2>1, <2>2, LatestRange DEF Inv
  <2>4. Replays(snapshot.records[i], r)
    BY DEF Replays, sameRequest, Boundary, Unresolved, Records
  <2>5. i \in I
    BY <2>4 DEF History, Records
  <2>6. LoopStop(snapshot, r) = i
    <3>1. LoopStop(snapshot, r) = LastOf(I)
      BY DEF LoopStop
    <3> HIDE DEF I
    <3> QED
      BY <2>1, <2>3, <2>5, <3>1, LastOfIs, Zenon
  <2>7. validateBegin(r) /\ bindingMatches(snapshot, r.target)
    BY <2>1, Zenon DEF Inv, EveryWriteDecodes, decodeSnapshot, RecordsDecode, validStoredIntent,
                BoundIfUsed, Records
  <2>8. i # 0
    BY <2>1
  <2> HIDE DEF r, I
  <2>9. BeginReplays(snapshot, r)
    BY <2>4, <2>6, <2>7, <2>8 DEF BeginReplays
  <2> QED
    BY <2>6, <2>9 DEF r
<1> QED
  BY <1>1, JournalInvariant, PTL

\* Nothing the journal has recorded is lost, reordered or reopened.
THEOREM HistoryKept == Spec => HistoryIsKept
<1> DEFINE Kept ==
      /\ Len(Records) <= Len(Records')
      /\ \A i \in 1..Len(Records) : RecordStep(Records[i], Records'[i])
      /\ Len(snapshot.imports) <= Len(snapshot'.imports)
      /\ \A i \in 1..Len(snapshot.imports) : snapshot'.imports[i] = snapshot.imports[i]
      /\ snapshot.binding # None => snapshot'.binding = snapshot.binding
<1>1. Inv /\ [Next]_vars => [Kept]_vars
  <2> SUFFICES ASSUME Inv, Next PROVE Kept
    OBVIOUS
  <2>a. /\ snapshot \in Snapshot /\ Records \in Seq(Intent) /\ Len(Records) \in Nat
        /\ snapshot.imports \in Seq(ImportBinding) /\ Len(snapshot.imports) \in Nat
    BY DEF Inv, TypeOK, Snapshot, Records
  <2>b. \A i \in 1..Len(Records) :
          Records[i] \in Intent /\ validStoredIntent(Records[i])
    BY <2>a DEF Inv, EveryWriteDecodes, decodeSnapshot, RecordsDecode, Records
  <2>c. \A i \in 1..Len(Records) : RecordStep(Records[i], Records[i])
    <3> TAKE i \in 1..Len(Records)
    <3>1. Records[i] = [Records[i] EXCEPT !.retain = Records[i].retain] /\ Records[i].retain \in Nat
      BY <2>b DEF Intent
    <3> QED
      BY <3>1 DEF RecordStep
  <2>e. ASSUME NEW i \in 1..Len(Records), NEW rec \in Intent, Edits(i, rec),
               RecordStep(Records[i], rec)
        PROVE  Kept
    <3>1. TypeOK /\ Inv
      BY DEF Inv
    <3>2. /\ Len(Records') = Len(Records)
          /\ \A j \in 1..Len(Records) : Records'[j] = IF j = i THEN rec ELSE Records[j]
          /\ snapshot'.imports = snapshot.imports /\ snapshot'.binding = snapshot.binding
      BY <2>e, <3>1, EditShape
    <3>3. \A j \in 1..Len(Records) : RecordStep(Records[j], Records'[j])
      BY <2>c, <2>e, <3>2
    <3> QED
      BY <2>a, <3>2, <3>3
  <2>1. CASE Bind
    BY <2>1, <2>a, <2>c DEF Bind, BindEmpty, MayBind, Records
  <2>2. CASE Import
    <3>1. PICK t, ev : snapshot' = BindImportedResource(snapshot, t, ev)
      BY <2>2 DEF Import
    <3>2. /\ snapshot'.imports = Append(snapshot.imports, ImportOf(t, ev))
          /\ Records' = Records /\ snapshot'.binding = snapshot.binding
      BY <3>1 DEF BindImportedResource, Records
    <3> QED
      BY <2>a, <2>c, <3>2
  <2>3. CASE BeginIntent
    <3>1. PICK r, k : snapshot' = Begin(snapshot, r, k)
      BY <2>3 DEF BeginIntent
    <3>2. /\ Records' = Append(Records, Claim(r, k))
          /\ snapshot'.imports = snapshot.imports /\ snapshot'.binding = snapshot.binding
      BY <3>1 DEF Begin, WithRecords, Records
    <3>3. /\ Len(Records') = Len(Records) + 1
          /\ \A j \in 1..Len(Records) : Records'[j] = Records[j]
      BY <2>a, <3>2
    <3> QED
      BY <2>a, <2>c, <3>2, <3>3
  <2>4. CASE Accept
    <3>1. PICK i \in 1..Len(Records), ack \in Acks :
            MayAccept(snapshot, i, ack) /\ snapshot' = RecordAccepted(snapshot, i, ack)
      BY <2>4 DEF Accept
    <3> DEFINE rec == AcceptedRecord(Records[i], ack)
    <3>2. ack \in OperationAck /\ Records[i] \in Intent /\ rec \in Intent
      BY <2>b, AckType, AcceptedType
    <3>3. /\ rec.id = Records[i].id /\ rec.request = Records[i].request
          /\ rec.status \in {"accepted", "accepted-failed"} /\ rec.retain = ack.retain
      BY <3>2, Zenon DEF AcceptedRecord, Intent
    <3>4. /\ Records[i].status = "claimed" /\ Records[i].opID = None /\ Records[i].retain = 0
          /\ ack.retain \in Nat
      BY <2>b, <3>1, <3>2, Zenon DEF MayAccept, validStoredIntent, StatusShape, Records, OperationAck
    <3>5. Edits(i, rec)
      BY <3>1, <3>3 DEF Edits, RecordAccepted, Records
    <3> HIDE DEF rec
    <3>6. RecordStep(Records[i], rec)
      BY <3>3, <3>4 DEF RecordStep, Settled
    <3> QED
      BY <2>e, <3>2, <3>5, <3>6
  <2>5. CASE Settle
    <3>1. PICK i \in 1..Len(Records), op \in Acks, obs \in ResourceObservation :
            MayComplete(snapshot, i, op, obs) /\ snapshot' = Complete(snapshot, i, op, obs)
      BY <2>5 DEF Settle
    <3> DEFINE rec == CompletedRecord(Records[i], op, obs)
    <3>2. op \in OperationAck /\ Records[i] \in Intent /\ rec \in Intent
      BY <2>b, AckType, CompletedType
    <3>3. /\ rec.id = Records[i].id /\ rec.request = Records[i].request
          /\ rec.status = SettledStatus(Records[i], op) /\ rec.retain = op.retain
          /\ rec.opID = Records[i].opID /\ rec.opUID = Records[i].opUID
          /\ rec.opGeneration = Records[i].opGeneration
          /\ rec.initialRetain = Records[i].initialRetain
      BY <3>2 DEF CompletedRecord, Intent
    <3>4. /\ Records[i].status \in {"accepted", "accepted-failed"}
          /\ op.retain >= Records[i].retain
      BY <3>1 DEF MayComplete, EvidenceBelongs, Records
    <3>5. Edits(i, rec)
      BY <3>1, <3>3, Zenon DEF Edits, Complete, Records
    <3>6. SettledStatus(Records[i], op) \in Settled
      BY DEF SettledStatus, Settled
    <3> HIDE DEF rec
    <3>7. RecordStep(Records[i], rec)
      BY <3>3, <3>4, <3>6 DEF RecordStep, Settled
    <3> QED
      BY <2>e, <3>2, <3>5, <3>7
  <2>6. CASE ExtendRetention
    <3>1. PICK i \in 1..Len(Records), op \in Acks :
            EvidenceBelongs(snapshot, i, op) /\ snapshot' = Extend(snapshot, i, op)
      BY <2>6 DEF ExtendRetention
    <3> DEFINE rec == ExtendedRecord(Records[i], op)
    <3>2. op \in OperationAck /\ Records[i] \in Intent
      BY <2>b, AckType
    <3>3. rec \in Intent
      BY <3>2, Zenon DEF ExtendedRecord, Intent, OperationAck
    <3>4. /\ rec = [Records[i] EXCEPT !.retain = rec.retain]
          /\ rec.id = Records[i].id /\ rec.request = Records[i].request
          /\ rec.status = Records[i].status /\ rec.retain = op.retain
          /\ rec.opID = Records[i].opID /\ rec.opUID = Records[i].opUID
          /\ rec.opGeneration = Records[i].opGeneration
          /\ rec.initialRetain = Records[i].initialRetain
      BY <3>2 DEF ExtendedRecord, Intent
    <3>5. op.retain >= Records[i].retain
      BY <3>1 DEF EvidenceBelongs, Records
    <3>6. Edits(i, rec)
      BY <3>1, <3>4 DEF Edits, Extend, Records
    <3> HIDE DEF rec
    <3>7. RecordStep(Records[i], rec)
      BY <3>4, <3>5 DEF RecordStep
    <3> QED
      BY <2>e, <3>3, <3>6, <3>7
  <2> QED
    BY <2>1, <2>2, <2>3, <2>4, <2>5, <2>6 DEF Next
<1> QED
  BY <1>1, JournalInvariant, PTL DEF Spec, HistoryIsKept

=============================================================================
