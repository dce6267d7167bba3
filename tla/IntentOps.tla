------------------------------ MODULE IntentOps ------------------------------
(***************************************************************************)
(* The Host v2 intent journal as a pure data structure: what every         *)
(* operation of internal/intentv2/store.go computes from one decoded       *)
(* snapshot.  The operators have no state of their own; IntentJournal runs *)
(* them on an atomic snapshot and ProviderLifecycle composes them with a   *)
(* Host and with Terraform.                                                *)
(*                                                                         *)
(* Abstractions.  A Target is its Host API root and its (space, name); the *)
(* principal scope is the store's own id (another scope fails the same     *)
(* test as another Host).  The method and the path of a request are        *)
(* functions of its action and UID (validateBegin accepts no other pair)   *)
(* and are not stored.  Public JSON and private-input names together are a *)
(* payload.  A generation is an integer, 0 standing for the empty string;  *)
(* a retain-until time is a natural, 0 standing for the zero time.         *)
(***************************************************************************)
EXTENDS Naturals, Sequences

CONSTANTS
  Hosts,          \* Host API roots
  Names,          \* (space, name) pairs
  UIDs,           \* Resource UIDs the Host hands out
  Forms,          \* Form URLs
  Payloads,       \* public JSON with its private-input names
  OperationIDs,   \* Operation ids the Host hands out
  Keys,           \* idempotency keys newKey can draw
  None,           \* the empty string and the nil binding
  MaxGeneration,  \* maxReplayWindowSeconds, 2^53 - 1 in the code
  MaxRecords      \* maxRecords, 4096 in the code

ASSUME BoundsAssumption ==
  /\ MaxGeneration \in Nat
  /\ MaxGeneration > 1
  /\ MaxRecords \in Nat

Target == [hostAPI : Hosts, name : Names]

Actions == {"create", "update", "delete"}

Unresolved == {"claimed", "accepted", "accepted-failed"}

Settled == {"failed-reserved", "applied", "delete-confirmed"}

Statuses == Unresolved \cup Settled

OperationStatuses ==
  {"queued", "running", "waiting_input", "reconciling", "succeeded", "failed"}

OperationEffects == {"none", "unknown", "partial", "complete"}

ASSUME NoneAssumption ==
  /\ None \notin Hosts \cup Names \cup UIDs \cup Forms \cup Payloads
  /\ None \notin OperationIDs \cup Keys
  /\ None \notin OperationStatuses \cup OperationEffects \cup {"idle", "error", "other"}

(***************************************************************************)
(* The values the journal handles.                                         *)
(***************************************************************************)
BeginRequest ==
  [target : Target, action : Actions, form : Forms, uid : UIDs \cup {None},
   generation : 0..MaxGeneration, supersedes : Keys \cup {None},
   payload : Payloads \cup {None}]

OperationAck ==
  [id : OperationIDs, uid : UIDs, action : Actions, generation : 0..MaxGeneration,
   status : OperationStatuses, effect : OperationEffects, retain : Nat]

\* An exact-UID read: route is the UID of the path, code the HTTP status.  A
\* Resource is present if and only if the code is 200; an absent one has no fields.
PresentResource ==
  [route : UIDs, code : {200}, uid : UIDs, form : Forms, name : Names,
   generation : 1..MaxGeneration, phase : {"idle", "error", "other"}]

AbsentResource ==
  [route : UIDs, code : {404, 410}, uid : {None}, form : {None},
   name : {None}, generation : {0}, phase : {None}]

ResourceObservation == PresentResource \cup AbsentResource

ImportEvidence ==
  [hostAPI : Hosts, route : UIDs, code : {200, 404, 410}, uid : UIDs, form : Forms,
   name : Names, generation : 0..MaxGeneration]

ImportBinding == [target : Target, uid : UIDs, form : Forms, generation : 1..MaxGeneration]

Intent ==
  [id : Keys, request : BeginRequest, status : Statuses,
   opID : OperationIDs \cup {None}, opUID : UIDs \cup {None},
   opGeneration : 0..MaxGeneration, opStatus : OperationStatuses \cup {None},
   opEffect : OperationEffects \cup {None}, initialRetain : Nat, retain : Nat,
   resultUID : UIDs \cup {None}, resultGeneration : 0..MaxGeneration,
   observedGeneration : 0..MaxGeneration]

Snapshot ==
  [binding : Hosts \cup {None}, imports : Seq(ImportBinding), records : Seq(Intent)]

EmptySnapshot(b) == [binding |-> b, imports |-> <<>>, records |-> <<>>]

Size(s) == Len(s.records) + Len(s.imports)

WithRecords(s, records) ==
  [binding |-> s.binding, imports |-> s.imports, records |-> records]

WithRecord(s, i, rec) == WithRecords(s, [s.records EXCEPT ![i] = rec])

(***************************************************************************)
(* Reading a snapshot.                                                     *)
(***************************************************************************)
\* The positions of one target's records.
History(s, t) == {i \in 1..Len(s.records) : s.records[i].request.target = t}

\* The last position of a set, 0 when the set is empty.  Keys, and the targets
\* of imports, are unique, so the code's first match is also the last one.
LastOf(I) == IF I = {} THEN 0 ELSE CHOOSE i \in I : \A j \in I : j <= i

latestIntent(s, t) == LastOf(History(s, t))

findIntent(s, k) == LastOf({i \in 1..Len(s.records) : s.records[i].id = k})

ImportsOf(s, t) == {i \in 1..Len(s.imports) : s.imports[i].target = t}

bindingMatches(s, t) == s.binding # None /\ t.hostAPI = s.binding

Identity(found, deleted, uid, generation, form) ==
  [found |-> found, deleted |-> deleted, uid |-> uid, generation |-> generation, form |-> form]

\* The identity one settled record establishes.
RecordIdentity(r) ==
  CASE r.status = "delete-confirmed" -> Identity(FALSE, TRUE, None, 0, None)
    [] r.status = "applied" ->
         Identity(TRUE, FALSE, r.resultUID, r.resultGeneration, r.request.form)
    [] OTHER -> Identity(TRUE, FALSE, r.opUID, r.observedGeneration, r.request.form)

\* currentIdentity scans back to the latest record that establishes an
\* identity; an applied record is a Create or an Update.
currentIdentity(s, t) ==
  LET i == LastOf({j \in History(s, t) :
                     \/ s.records[j].status \in {"delete-confirmed", "failed-reserved"}
                     \/ /\ s.records[j].status = "applied"
                        /\ s.records[j].request.action \in {"create", "update"}})
      m == LastOf(ImportsOf(s, t))
  IN  CASE i # 0 -> RecordIdentity(s.records[i])
        [] i = 0 /\ m # 0 ->
             Identity(TRUE, FALSE, s.imports[m].uid, s.imports[m].generation, s.imports[m].form)
        [] OTHER -> Identity(FALSE, FALSE, None, 0, None)

(***************************************************************************)
(* Begin.                                                                  *)
(***************************************************************************)
validExpectedGeneration(g) == g > 0 /\ g < MaxGeneration

validateBegin(r) ==
  /\ r.action = "create" =>
       r.uid = None /\ r.generation = 0 /\ r.supersedes = None /\ r.payload # None
  /\ r.action = "update" =>
       r.uid # None /\ validExpectedGeneration(r.generation) /\ r.payload # None
  /\ r.action = "delete" =>
       r.uid # None /\ validExpectedGeneration(r.generation) /\ r.payload = None

sameFence(prior, r) ==
  /\ prior.request.target = r.target
  /\ prior.request.action = r.action
  /\ prior.request.uid = r.uid
  /\ prior.request.generation = r.generation

sameRequest(prior, r) == prior.request = r

\* Mutants: a replay of claimed intents only; an
\* accepted failure that no longer blocks the target; a reserved failure that
\* need not be named as superseded.
MutReplays(prior, r) == sameRequest(prior, r) /\ prior.status = "claimed"

MutHasUnresolved(s, t) ==
  \E i \in History(s, t) : s.records[i].status \in {"claimed", "accepted"}

MutFenced(s, r) ==
  IF r.action = "create"
    THEN /\ ~ currentIdentity(s, r.target).found
         /\ latestIntent(s, r.target) # 0 =>
              s.records[latestIntent(s, r.target)].status = "delete-confirmed"
    ELSE currentIdentity(s, r.target) = Identity(TRUE, FALSE, r.uid, r.generation, r.form)

\* The backward loop of Begin over the target's records, newest first.  At each
\* record it stops at a confirmed Delete, returns the record, refuses, or goes on.
Boundary(prior, r) == r.action = "create" /\ prior.status = "delete-confirmed"

Replays(prior, r) == sameRequest(prior, r) /\ ~ Boundary(prior, r)

Conflicts(prior, r) ==
  /\ ~ sameRequest(prior, r)
  /\ r.supersedes = None \/ prior.id = r.supersedes
  /\ \/ /\ r.action = "create"
        /\ prior.request.action = "create"
        /\ prior.status \in {"claimed", "accepted"}
     \/ /\ r.action # "create"
        /\ sameFence(prior, r)
        /\ ~ (prior.status = "failed-reserved" /\ r.supersedes = prior.id)

LoopStop(s, r) ==
  LastOf({i \in History(s, r.target) :
            \/ Boundary(s.records[i], r)
            \/ Replays(s.records[i], r)
            \/ Conflicts(s.records[i], r)})

\* Begin returns the stored intent at LoopStop.
BeginReplays(s, r) ==
  /\ validateBegin(r)
  /\ bindingMatches(s, r.target)
  /\ LoopStop(s, r) # 0
  /\ Replays(s.records[LoopStop(s, r)], r)

HasUnresolved(s, t) == \E i \in History(s, t) : s.records[i].status \in Unresolved

\* The identity checks made once the loop is over.
Fenced(s, r) ==
  LET current == currentIdentity(s, r.target)
      latest  == latestIntent(s, r.target)
      LatestIs(status) == latest # 0 /\ s.records[latest].status = status
  IN  IF r.action = "create"
        THEN /\ ~ current.found
             /\ latest = 0 \/ LatestIs("delete-confirmed")
        ELSE /\ current = Identity(TRUE, FALSE, r.uid, r.generation, r.form)
             /\ IF r.supersedes = None
                  THEN ~ LatestIs("failed-reserved")
                  ELSE /\ LatestIs("failed-reserved")
                       /\ s.records[latest].id = r.supersedes
                       /\ s.records[latest].opUID = current.uid
                       /\ s.records[latest].observedGeneration = current.generation

\* Begin appends a new claim; when it neither replays nor claims it returns an
\* error and leaves the snapshot alone.
BeginClaims(s, r) ==
  /\ validateBegin(r)
  /\ bindingMatches(s, r.target)
  /\ Size(s) < MaxRecords
  /\ ~ HasUnresolved(s, r.target)
  /\ Fenced(s, r)
  /\ LoopStop(s, r) # 0 => Boundary(s.records[LoopStop(s, r)], r)

Claim(r, k) ==
  [id |-> k, request |-> r, status |-> "claimed", opID |-> None, opUID |-> None,
   opGeneration |-> 0, opStatus |-> None, opEffect |-> None, initialRetain |-> 0,
   retain |-> 0, resultUID |-> None, resultGeneration |-> 0, observedGeneration |-> 0]

Begin(s, r, k) == WithRecords(s, Append(s.records, Claim(r, k)))

(***************************************************************************)
(* RecordAccepted.                                                         *)
(***************************************************************************)
validOperationStatus(status, effect) ==
  /\ status = "succeeded" => effect = "complete"
  /\ status = "failed" => effect \in {"none", "partial"}
  /\ status = "reconciling" => effect = "unknown"

validateOperationForIntent(rec, ack) ==
  /\ ack.action = rec.request.action
  /\ ack.generation \in 1..MaxGeneration
  /\ IF rec.request.action = "create"
       THEN ack.generation = 1
       ELSE /\ validExpectedGeneration(rec.request.generation)
            /\ ack.generation = rec.request.generation + 1
            /\ ack.uid = rec.request.uid

sameOperation(rec, ack) ==
  /\ rec.opID = ack.id
  /\ rec.opUID = ack.uid
  /\ rec.request.action = ack.action
  /\ rec.opGeneration = ack.generation

\* Mutant: a failed acknowledgement is stored like any other.
MutAcceptedRecord(rec, ack) ==
  [rec EXCEPT !.status = "accepted",
              !.opID = ack.id, !.opUID = ack.uid, !.opGeneration = ack.generation,
              !.opStatus = ack.status, !.opEffect = ack.effect,
              !.initialRetain = ack.retain, !.retain = ack.retain]

\* The record RecordAccepted writes for a claimed intent.
AcceptedRecord(rec, ack) ==
  [rec EXCEPT !.status = IF ack.status = "failed" THEN "accepted-failed" ELSE "accepted",
              !.opID = ack.id, !.opUID = ack.uid, !.opGeneration = ack.generation,
              !.opStatus = ack.status, !.opEffect = ack.effect,
              !.initialRetain = ack.retain, !.retain = ack.retain]

\* In this operator and in those below, i is findIntent of the id the caller
\* passes; an id without a record is refused.
MayAccept(s, i, ack) ==
  /\ i # 0
  /\ s.records[i].status = "claimed"
  /\ validOperationStatus(ack.status, ack.effect)
  /\ ack.retain > 0
  /\ bindingMatches(s, s.records[i].request.target)
  /\ validateOperationForIntent(s.records[i], ack)

\* An acknowledgement that was already recorded is returned again.
AcceptReplays(s, i, ack) ==
  /\ i # 0
  /\ s.records[i].status \in {"accepted", "accepted-failed"}
  /\ validOperationStatus(ack.status, ack.effect)
  /\ ack.retain > 0
  /\ bindingMatches(s, s.records[i].request.target)
  /\ sameOperation(s.records[i], ack)
  /\ s.records[i].retain = ack.retain

RecordAccepted(s, i, ack) == WithRecord(s, i, AcceptedRecord(s.records[i], ack))

(***************************************************************************)
(* Complete.                                                               *)
(***************************************************************************)
resourceMatchesTarget(rec, obs) ==
  /\ obs.code = 200
  /\ obs.route = rec.opUID
  /\ obs.uid = rec.opUID
  /\ obs.form = rec.request.form
  /\ obs.name = rec.request.target.name

resourceMatches(rec, obs, generation) ==
  /\ resourceMatchesTarget(rec, obs)
  /\ obs.phase = "idle"
  /\ generation = rec.opGeneration
  /\ obs.generation = generation

resourceAbsentMatches(rec, obs) ==
  /\ obs.route = rec.request.uid
  /\ obs.code \in {404, 410}
  /\ obs.uid = None /\ obs.form = None /\ obs.name = None /\ obs.generation = 0

\* The status the evidence settles the intent in.
SettledStatus(rec, op) ==
  CASE op.status = "failed" -> "failed-reserved"
    [] op.status # "failed" /\ rec.request.action = "delete" -> "delete-confirmed"
    [] OTHER -> "applied"

\* The evidence supports that status: a failed Operation with the Resource in
\* error at its generation, or a complete one with the Resource absent (Delete)
\* or idle at its generation (Create, Update).
EvidenceSettles(rec, op, obs) ==
  CASE SettledStatus(rec, op) = "failed-reserved" ->
         /\ resourceMatchesTarget(rec, obs)
         /\ obs.phase = "error"
         /\ obs.generation = op.generation
    [] SettledStatus(rec, op) = "delete-confirmed" ->
         op.status = "succeeded" /\ op.effect = "complete" /\ resourceAbsentMatches(rec, obs)
    [] OTHER ->
         /\ op.status = "succeeded"
         /\ op.effect = "complete"
         /\ resourceMatches(rec, obs, op.generation)

\* Mutant: a shorter retention is accepted.
MutEvidenceBelongs(s, i, op) ==
  /\ i # 0
  /\ sameOperation(s.records[i], op)
  /\ validOperationStatus(op.status, op.effect)
  /\ op.retain > 0
  /\ bindingMatches(s, s.records[i].request.target)

\* The checks Complete makes before it looks at the record's status.
EvidenceBelongs(s, i, op) ==
  /\ i # 0
  /\ sameOperation(s.records[i], op)
  /\ validOperationStatus(op.status, op.effect)
  /\ op.retain > 0
  /\ bindingMatches(s, s.records[i].request.target)
  /\ op.retain >= s.records[i].retain
  /\ op.retain >= s.records[i].initialRetain

MayComplete(s, i, op, obs) ==
  /\ EvidenceBelongs(s, i, op)
  /\ s.records[i].status \in {"accepted", "accepted-failed"}
  /\ EvidenceSettles(s.records[i], op, obs)

\* A settled intent met again with the evidence of its own status: only the
\* retention is extended.
MayExtend(s, i, op, obs) ==
  /\ EvidenceBelongs(s, i, op)
  /\ s.records[i].status \in Settled
  /\ SettledStatus(s.records[i], op) = s.records[i].status
  /\ EvidenceSettles(s.records[i], op, obs)
  /\ s.records[i].status = "failed-reserved" =>
       obs.generation = s.records[i].observedGeneration

\* Mutant: the generation before the mutation is kept as the result.
MutCompletedRecord(rec, op, obs) ==
  LET status == SettledStatus(rec, op)
  IN  [rec EXCEPT
        !.status = status,
        !.opStatus = op.status, !.opEffect = op.effect, !.retain = op.retain,
        !.resultUID = IF status = "applied" THEN op.uid ELSE @,
        !.resultGeneration = IF status = "applied" THEN rec.request.generation ELSE @,
        !.observedGeneration = IF status = "failed-reserved" THEN obs.generation ELSE @]

CompletedRecord(rec, op, obs) ==
  LET status == SettledStatus(rec, op)
  IN  [rec EXCEPT
        !.status = status,
        !.opStatus = op.status, !.opEffect = op.effect, !.retain = op.retain,
        !.resultUID = IF status = "applied" THEN op.uid ELSE @,
        !.resultGeneration = IF status = "applied" THEN op.generation ELSE @,
        !.observedGeneration = IF status = "failed-reserved" THEN obs.generation ELSE @]

Complete(s, i, op, obs) == WithRecord(s, i, CompletedRecord(s.records[i], op, obs))

ExtendedRecord(rec, op) == [rec EXCEPT !.retain = op.retain]

Extend(s, i, op) == WithRecord(s, i, ExtendedRecord(s.records[i], op))

(***************************************************************************)
(* BindEmpty and BindImportedResource.                                     *)
(***************************************************************************)
MayBind(s) == s.binding = None /\ Size(s) = 0

BindEmpty(s, b) == [binding |-> b, imports |-> s.imports, records |-> s.records]

ImportOf(t, ev) ==
  [target |-> t, uid |-> ev.uid, form |-> ev.form, generation |-> ev.generation]

\* Mutant: a generation of zero is accepted.
MutMayImport(s, t, uid, form, ev) ==
  /\ ev.route = ev.uid /\ ev.code = 200 /\ ev.name = t.name
  /\ uid = ev.uid /\ form = ev.form
  /\ bindingMatches(s, t) /\ ev.hostAPI = s.binding
  /\ History(s, t) = {} /\ ImportsOf(s, t) = {}
  /\ Size(s) < MaxRecords

\* uid and form are the ones the caller selected.
MayImport(s, t, uid, form, ev) ==
  /\ ev.route = ev.uid
  /\ ev.code = 200
  /\ ev.name = t.name
  /\ ev.generation \in 1..MaxGeneration
  /\ uid = ev.uid /\ form = ev.form
  /\ bindingMatches(s, t)
  /\ ev.hostAPI = s.binding
  /\ History(s, t) = {}
  /\ ImportsOf(s, t) = {}
  /\ \A i \in 1..Len(s.imports) :
       s.imports[i].target.hostAPI = t.hostAPI => s.imports[i].uid # ev.uid
  /\ Size(s) < MaxRecords

BindImportedResource(s, t, ev) ==
  [binding |-> s.binding, imports |-> Append(s.imports, ImportOf(t, ev)), records |-> s.records]

(***************************************************************************)
(* Decoding: what every read of state.json, or of the remote body, insists *)
(* on before the operation runs.                                           *)
(***************************************************************************)
\* The stored fields agree with the status.
StatusShape(rec) ==
  CASE rec.status = "claimed" ->
         /\ rec.opID = None /\ rec.initialRetain = 0 /\ rec.retain = 0
         /\ rec.resultUID = None /\ rec.resultGeneration = 0 /\ rec.observedGeneration = 0
    [] rec.status \in {"accepted", "accepted-failed"} ->
         /\ rec.opID # None
         /\ (rec.opStatus = "failed") <=> (rec.status = "accepted-failed")
         /\ rec.resultUID = None /\ rec.resultGeneration = 0 /\ rec.observedGeneration = 0
    [] rec.status = "failed-reserved" ->
         /\ rec.opID # None
         /\ rec.opStatus = "failed"
         /\ rec.observedGeneration \in 1..MaxGeneration
         /\ rec.observedGeneration = rec.opGeneration
         /\ rec.resultUID = None /\ rec.resultGeneration = 0
    [] rec.status = "applied" ->
         /\ rec.request.action \in {"create", "update"}
         /\ rec.opID # None
         /\ rec.opStatus = "succeeded" /\ rec.opEffect = "complete"
         /\ rec.resultUID # None /\ rec.resultUID = rec.opUID
         /\ rec.resultGeneration \in 1..MaxGeneration
         /\ rec.resultGeneration = rec.opGeneration
    [] OTHER ->
         /\ rec.request.action = "delete"
         /\ rec.opID # None
         /\ rec.opStatus = "succeeded" /\ rec.opEffect = "complete"
         /\ rec.opUID = rec.request.uid
         /\ rec.resultUID = None /\ rec.resultGeneration = 0

\* The Operation a record stores, as an acknowledgement.
StoredAck(rec) ==
  [id |-> rec.opID, uid |-> rec.opUID, action |-> rec.request.action,
   generation |-> rec.opGeneration, status |-> rec.opStatus, effect |-> rec.opEffect,
   retain |-> rec.retain]

validStoredIntent(rec) ==
  /\ validateBegin(rec.request)
  /\ IF rec.opID = None
       THEN /\ rec.initialRetain = 0 /\ rec.retain = 0
            /\ rec.opUID = None /\ rec.opGeneration = 0
            /\ rec.opStatus = None /\ rec.opEffect = None
       ELSE /\ rec.initialRetain > 0
            /\ rec.retain >= rec.initialRetain
            /\ rec.opUID # None /\ rec.opStatus # None /\ rec.opEffect # None
            /\ validOperationStatus(rec.opStatus, rec.opEffect)
            /\ validateOperationForIntent(rec, StoredAck(rec))
  /\ StatusShape(rec)

RecordsDecode(s) ==
  \A i \in 1..Len(s.records) :
    /\ validStoredIntent(s.records[i])
    /\ s.binding # None => bindingMatches(s, s.records[i].request.target)
    /\ \A j \in 1..Len(s.records) : s.records[i].id = s.records[j].id => i = j

SameImport(a, b) ==
  \/ a.target = b.target
  \/ a.target.hostAPI = b.target.hostAPI /\ a.uid = b.uid

ImportsDecode(s) ==
  \A i \in 1..Len(s.imports) :
    /\ bindingMatches(s, s.imports[i].target)
    /\ s.imports[i].generation \in 1..MaxGeneration
    /\ \A j \in 1..Len(s.imports) : SameImport(s.imports[i], s.imports[j]) => i = j

decodeSnapshot(s) ==
  /\ Size(s) <= MaxRecords
  /\ s.binding = None => s.imports = <<>>
  /\ RecordsDecode(s)
  /\ ImportsDecode(s)

=============================================================================
