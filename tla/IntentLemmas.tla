---------------------------- MODULE IntentLemmas ----------------------------
(* Lemmas about the operators of the journal (IntentOps). *)
EXTENDS IntentOps, WellFoundedInduction, TLAPS

\* Changing the records of a well-typed snapshot.
LEMMA WithRecordsType ==
  ASSUME NEW s \in Snapshot, NEW recs \in Seq(Intent)
  PROVE  /\ WithRecords(s, recs) \in Snapshot
         /\ WithRecords(s, recs).binding = s.binding
         /\ WithRecords(s, recs).imports = s.imports
         /\ WithRecords(s, recs).records = recs
  BY DEF WithRecords, Snapshot

\* Replacing one record.
LEMMA WithRecordType ==
  ASSUME NEW s \in Snapshot, NEW i \in 1..Len(s.records), NEW rec \in Intent
  PROVE  /\ WithRecord(s, i, rec) \in Snapshot
         /\ WithRecord(s, i, rec).binding = s.binding
         /\ WithRecord(s, i, rec).imports = s.imports
         /\ WithRecord(s, i, rec).records = [s.records EXCEPT ![i] = rec]
         /\ Len(WithRecord(s, i, rec).records) = Len(s.records)
  <1>1. s.records \in Seq(Intent)
    BY DEF Snapshot
  <1>2. /\ [s.records EXCEPT ![i] = rec] \in Seq(Intent)
        /\ Len([s.records EXCEPT ![i] = rec]) = Len(s.records)
    BY <1>1
  <1> QED
    BY <1>2, WithRecordsType DEF WithRecord

\* What Begin appends is an Intent.
LEMMA ClaimType ==
  ASSUME NEW r \in BeginRequest, NEW k \in Keys
  PROVE  Claim(r, k) \in Intent
  BY BoundsAssumption DEF Claim, Intent, Statuses, Unresolved

\* RecordAccepted writes a well-typed record.
LEMMA AcceptedType ==
  ASSUME NEW rec \in Intent, NEW ack \in OperationAck
  PROVE  AcceptedRecord(rec, ack) \in Intent
  BY Zenon DEF AcceptedRecord, Intent, OperationAck, Statuses, Unresolved

\* RecordAccepted keeps what was claimed and links it to the Operation.
LEMMA AcceptedKeeps ==
  ASSUME NEW rec \in Intent, NEW ack
  PROVE  /\ AcceptedRecord(rec, ack).id = rec.id
         /\ AcceptedRecord(rec, ack).request = rec.request
         /\ AcceptedRecord(rec, ack).opID = ack.id
  BY DEF AcceptedRecord, Intent

\* Complete writes a well-typed record.
LEMMA CompletedType ==
  ASSUME NEW rec \in Intent, NEW op \in OperationAck, NEW obs \in ResourceObservation
  PROVE  CompletedRecord(rec, op, obs) \in Intent
  <1>1. obs.generation \in 0..MaxGeneration
    BY BoundsAssumption, SMT DEF ResourceObservation, PresentResource, AbsentResource
  <1>2. SettledStatus(rec, op) \in Statuses
    BY DEF SettledStatus, Statuses, Settled
  <1> QED
    BY <1>1, <1>2, ZenonT(60) DEF CompletedRecord, Intent, OperationAck

\* A non-empty set of naturals has a least element.
LEMMA NatMin == ASSUME NEW T \in SUBSET Nat, T # {} PROVE \E x \in T : \A y \in T : x <= y
<1> DEFINE R == {ss \in Nat \X Nat : ss[1] < ss[2]}
<1>1. R = OpToRel(<,Nat)
  BY DEF OpToRel
<1>2. IsWellFoundedOn(R, Nat)
  BY <1>1, NatLessThanWellFounded, Zenon
<1>3. \E x \in T : \A y \in T : ~ (<<y, x>> \in R)
  <2> HIDE DEF R
  <2> QED BY <1>2, WFMin, Zenon
<1>4. PICK x \in T : \A y \in T : ~ (<<y, x>> \in R)
  BY <1>3
<1>5. \A y \in T : x <= y
  <2> TAKE y \in T
  <2>1. x \in Nat /\ y \in Nat
    OBVIOUS
  <2>2. ~ (y < x)
    BY <2>1, <1>4, Zenon
  <2> QED BY <2>1, <2>2
<1> QED BY <1>5

\* The backward scans of the store (latestIntent, currentIdentity) stop at the
\* greatest matching position.
LEMMA LastOfMax ==
  ASSUME NEW n \in Nat, NEW I \in SUBSET (1..n), I # {}
  PROVE  LastOf(I) \in I /\ \A j \in I : j <= LastOf(I)
<1> DEFINE T == {n - i : i \in I}
<1>1. T \in SUBSET Nat /\ T # {}
  <2>1. \A i \in I : n - i \in Nat
    OBVIOUS
  <2>2. T # {}
    <3>1. PICK i \in I : TRUE
      BY Zenon
    <3>2. n - i \in T
      OBVIOUS
    <3> QED BY <3>2
  <2> QED BY <2>1, <2>2
<1>2. PICK x \in T : \A y \in T : x <= y
  BY <1>1, NatMin, Zenon
<1>3. PICK m \in I : x = n - m
  OBVIOUS
<1>4. \A j \in I : j <= m
  <2> TAKE j \in I
  <2>1. x <= n - j
    BY <1>2
  <2> QED BY <2>1, <1>3
<1>5. \E i \in I : \A j \in I : j <= i
  BY <1>4
<1> QED BY <1>5, Zenon DEF LastOf

\* The position LastOf picks is determined by being the largest.
LEMMA LastOfIs ==
  ASSUME NEW n \in Nat, NEW I \in SUBSET (1..n), NEW m \in I, \A j \in I : j <= m
  PROVE  LastOf(I) = m
<1>1. LastOf(I) \in I /\ \A j \in I : j <= LastOf(I)
  BY LastOfMax, Zenon
<1>2. LastOf(I) \in 1..n /\ m \in 1..n
  BY <1>1, Zenon
<1>3. m <= LastOf(I) /\ LastOf(I) <= m
  BY <1>1, Zenon
<1> QED
  BY <1>2, <1>3

\* A backward scan returns 0 exactly when nothing matches.
LEMMA LastOfZero ==
  ASSUME NEW n \in Nat, NEW I \in SUBSET (1..n)
  PROVE  LastOf(I) = 0 <=> I = {}
<1>1. I = {} => LastOf(I) = 0
  BY DEF LastOf
<1>2. ASSUME I # {} PROVE LastOf(I) # 0
  <2>1. LastOf(I) \in I
    BY <1>2, LastOfMax
  <2> QED
    BY <2>1
<1> QED
  BY <1>1, <1>2

\* The three operations that rewrite a record write one the decoder accepts.
LEMMA AcceptedValid ==
  ASSUME NEW s \in Snapshot, NEW i \in 1..Len(s.records), NEW ack \in OperationAck,
         s.records[i] \in Intent, validStoredIntent(s.records[i]), MayAccept(s, i, ack)
  PROVE  validStoredIntent(AcceptedRecord(s.records[i], ack))
<1> DEFINE rec == s.records[i]
           new == AcceptedRecord(rec, ack)
<1>1. /\ new.request = rec.request /\ new.opID = ack.id /\ new.opUID = ack.uid
      /\ new.opGeneration = ack.generation /\ new.opStatus = ack.status
      /\ new.opEffect = ack.effect /\ new.initialRetain = ack.retain /\ new.retain = ack.retain
      /\ new.resultUID = rec.resultUID /\ new.resultGeneration = rec.resultGeneration
      /\ new.observedGeneration = rec.observedGeneration
      /\ new.status = IF ack.status = "failed" THEN "accepted-failed" ELSE "accepted"
  BY DEF AcceptedRecord, Intent
<1>2. rec.resultUID = None /\ rec.resultGeneration = 0 /\ rec.observedGeneration = 0
  BY DEF MayAccept, validStoredIntent, StatusShape
<1>3. /\ ack.id # None /\ ack.uid # None /\ ack.status # None /\ ack.retain \in Nat
      /\ ack.effect # None
  BY NoneAssumption DEF OperationAck, OperationStatuses
<1>4. validateOperationForIntent(new, StoredAck(new))
  BY <1>1 DEF MayAccept, validateOperationForIntent, StoredAck
<1>5. validateBegin(new.request) /\ validOperationStatus(new.opStatus, new.opEffect)
  BY <1>1 DEF MayAccept, validStoredIntent
<1>6. StatusShape(new)
  BY <1>1, <1>2, <1>3 DEF StatusShape
<1> SUFFICES validStoredIntent(new)
  OBVIOUS
<1>7. ack.retain > 0
  BY DEF MayAccept
<1> HIDE DEF new
<1> QED
  BY <1>1, <1>3, <1>4, <1>5, <1>6, <1>7 DEF validStoredIntent

\* A record that Complete settles is accepted by validStoredIntent.
LEMMA CompletedValid ==
  ASSUME NEW s \in Snapshot, NEW i \in 1..Len(s.records), NEW op \in OperationAck,
         NEW obs \in ResourceObservation,
         s.records[i] \in Intent, validStoredIntent(s.records[i]), MayComplete(s, i, op, obs)
  PROVE  validStoredIntent(CompletedRecord(s.records[i], op, obs))
<1> DEFINE rec == s.records[i]
           new == CompletedRecord(rec, op, obs)
           status == SettledStatus(rec, op)
<1> SUFFICES validStoredIntent(new)
  OBVIOUS
<1>1. /\ new.request = rec.request /\ new.opID = rec.opID /\ new.opUID = rec.opUID
      /\ new.opGeneration = rec.opGeneration /\ new.opStatus = op.status
      /\ new.opEffect = op.effect /\ new.initialRetain = rec.initialRetain
      /\ new.retain = op.retain
      /\ new.resultUID = IF status = "applied" THEN op.uid ELSE rec.resultUID
      /\ new.resultGeneration = IF status = "applied" THEN op.generation ELSE rec.resultGeneration
      /\ new.observedGeneration =
           IF status = "failed-reserved" THEN obs.generation ELSE rec.observedGeneration
      /\ new.status = status
  BY DEF CompletedRecord, Intent
<1>2. /\ rec.resultUID = None /\ rec.resultGeneration = 0 /\ rec.observedGeneration = 0
      /\ rec.opID # None /\ rec.initialRetain > 0 /\ rec.opUID # None
      /\ validateBegin(rec.request)
      /\ validateOperationForIntent(rec, StoredAck(rec))
  BY DEF MayComplete, validStoredIntent, StatusShape
<1>3. /\ rec.opID = op.id /\ rec.opUID = op.uid /\ rec.request.action = op.action
      /\ rec.opGeneration = op.generation
      /\ validOperationStatus(op.status, op.effect)
      /\ op.retain >= rec.initialRetain
  BY DEF MayComplete, EvidenceBelongs, sameOperation
<1>4. op.status # None /\ op.effect # None /\ op.retain \in Nat
  BY NoneAssumption DEF OperationAck
<1>5. validateOperationForIntent(new, StoredAck(new))
  BY <1>1, <1>2, <1>3, Zenon DEF validateOperationForIntent, StoredAck
<1>6. new.opGeneration \in 1..MaxGeneration
  BY <1>1, <1>2 DEF validateOperationForIntent, StoredAck
<1>7. StatusShape(new)
  <2>1. CASE status = "failed-reserved"
    <3>1. op.status = "failed" /\ obs.generation = op.generation
      BY <2>1 DEF SettledStatus, MayComplete, EvidenceSettles
    <3> HIDE DEF new, rec, status
    <3> QED
      BY <1>1, <1>2, <1>3, <1>6, <2>1, <3>1 DEF StatusShape
  <2>2. CASE status = "applied"
    <3>1. op.status = "succeeded" /\ op.effect = "complete" /\ rec.request.action # "delete"
      BY <2>2 DEF SettledStatus, MayComplete, EvidenceSettles
    <3>2. rec.request.action \in Actions
      BY DEF Intent, BeginRequest
    <3> HIDE DEF new, rec, status
    <3> QED
      BY <1>1, <1>2, <1>3, <1>6, <2>2, <3>1, <3>2 DEF StatusShape, Actions
  <2>3. CASE status = "delete-confirmed"
    <3>1. op.status = "succeeded" /\ op.effect = "complete" /\ rec.request.action = "delete"
      BY <2>3 DEF SettledStatus, MayComplete, EvidenceSettles
    <3>2. rec.opUID = rec.request.uid
      BY <1>2, <3>1 DEF validateOperationForIntent, StoredAck
    <3> HIDE DEF new, rec, status
    <3> QED
      BY <1>1, <1>2, <1>3, <2>3, <3>1, <3>2 DEF StatusShape
  <2> QED
    BY <2>1, <2>2, <2>3 DEF SettledStatus
<1> HIDE DEF new, rec, status
<1>8. new.retain >= new.initialRetain
  BY <1>1, <1>3
<1> QED
  BY <1>1, <1>2, <1>3, <1>4, <1>5, <1>7, <1>8 DEF validStoredIntent

\* So is a settled record whose retention Complete extends.
LEMMA ExtendedValid ==
  ASSUME NEW s \in Snapshot, NEW i \in 1..Len(s.records), NEW op \in OperationAck,
         s.records[i] \in Intent, validStoredIntent(s.records[i]), EvidenceBelongs(s, i, op),
         s.records[i].status \in Settled
  PROVE  validStoredIntent(ExtendedRecord(s.records[i], op))
<1> DEFINE rec == s.records[i]
           new == ExtendedRecord(rec, op)
<1> SUFFICES validStoredIntent(new)
  OBVIOUS
<1>1. /\ new.request = rec.request /\ new.opID = rec.opID /\ new.opUID = rec.opUID
      /\ new.opGeneration = rec.opGeneration /\ new.opStatus = rec.opStatus
      /\ new.opEffect = rec.opEffect /\ new.initialRetain = rec.initialRetain
      /\ new.retain = op.retain /\ new.status = rec.status
      /\ new.resultUID = rec.resultUID /\ new.resultGeneration = rec.resultGeneration
      /\ new.observedGeneration = rec.observedGeneration
  BY DEF ExtendedRecord, Intent
<1>2. op.retain >= rec.initialRetain /\ rec.opID # None
  <2>1. rec.opID # None
    BY DEF validStoredIntent, StatusShape, Settled
  <2> QED
    BY <2>1 DEF EvidenceBelongs
<1>3. validateOperationForIntent(new, StoredAck(new))
  BY <1>1, <1>2, Zenon DEF validStoredIntent, validateOperationForIntent, StoredAck
<1>4. StatusShape(new)
  <2>1. StatusShape(rec) /\ rec.status \in Settled
    BY DEF validStoredIntent
  <2> HIDE DEF new, rec
  <2> QED
    BY <1>1, <2>1 DEF StatusShape, Settled
<1>5. validStoredIntent(rec)
  OBVIOUS
<1> HIDE DEF new, rec
<1> QED
  BY <1>1, <1>2, <1>3, <1>4, <1>5 DEF validStoredIntent

=============================================================================
