---------------------------- MODULE IntentJournal ----------------------------
(***************************************************************************)
(* The journal of internal/intentv2/store.go on an atomic snapshot: each   *)
(* action is one exported operation of Store, run by withSnapshot from the *)
(* decoded snapshot to the one it writes.  The callers (the goroutines and *)
(* processes of every Terraform run) are not told apart: any operation may *)
(* come at any time, with any request and any evidence, so the properties  *)
(* hold whatever the order of the calls and whatever the Host answers.     *)
(* LocalSnapshot and RemoteSnapshot show that the two back ends give the   *)
(* operations this atomicity.                                              *)
(***************************************************************************)
EXTENDS IntentOps

CONSTANT
  AckKinds      \* the (status, effect, retain-until) triples the Host reports

ASSUME EvidenceAssumption == AckKinds \subseteq OperationStatuses \X OperationEffects \X Nat

VARIABLE snapshot     \* the durable diskSnapshot

vars == <<snapshot>>

Records == snapshot.records

\* Initialize leaves the store unbound, InitializeBound binds it to a root.
Init == \E b \in Hosts \cup {None} : snapshot = EmptySnapshot(b)

Bind ==
  \E b \in Hosts : MayBind(snapshot) /\ snapshot' = BindEmpty(snapshot, b)

Import ==
  \E t \in Target, ev \in ImportEvidence :
    /\ MayImport(snapshot, t, ev.uid, ev.form, ev)
    /\ snapshot' = BindImportedResource(snapshot, t, ev)

FreshKey(k) == \A i \in 1..Len(Records) : Records[i].id # k

\* validateBegin refuses every other request before the snapshot is read.
ValidRequests == {r \in BeginRequest : validateBegin(r)}

BeginIntent ==
  \E r \in ValidRequests :
    /\ BeginClaims(snapshot, r)
    /\ \E k \in Keys : FreshKey(k) /\ snapshot' = Begin(snapshot, r, k)

Ack(id, uid, action, generation, kind) ==
  [id |-> id, uid |-> uid, action |-> action, generation |-> generation,
   status |-> kind[1], effect |-> kind[2], retain |-> kind[3]]

Acks == {Ack(o, u, a, g, kind) :
           o \in OperationIDs, u \in UIDs, a \in Actions, g \in 0..MaxGeneration,
           kind \in AckKinds}

Accept ==
  \E i \in 1..Len(Records), ack \in Acks :
    /\ MayAccept(snapshot, i, ack)
    /\ snapshot' = RecordAccepted(snapshot, i, ack)

Settle ==
  \E i \in 1..Len(Records), op \in Acks :
    /\ EvidenceBelongs(snapshot, i, op)
    /\ \E obs \in ResourceObservation :
         /\ MayComplete(snapshot, i, op, obs)
         /\ snapshot' = Complete(snapshot, i, op, obs)

ExtendRetention ==
  \E i \in 1..Len(Records), op \in Acks :
    /\ EvidenceBelongs(snapshot, i, op)
    /\ \E obs \in ResourceObservation : MayExtend(snapshot, i, op, obs)
    /\ snapshot' = Extend(snapshot, i, op)

Next == Bind \/ Import \/ BeginIntent \/ Accept \/ Settle \/ ExtendRetention

Spec == Init /\ [][Next]_vars

-----------------------------------------------------------------------------
TypeOK == snapshot \in Snapshot

\* Every snapshot an operation writes is accepted by the decoder that guards the
\* next read (decodeSnapshot, validStoredIntent).  A write that broke this would
\* make the store unavailable for every target, with no way back.
EveryWriteDecodes == decodeSnapshot(snapshot)

\* A target has at most one unresolved intent, and it is the target's newest
\* record (the scan of Begin for claimed, accepted and accepted-failed records).
UnresolvedIsLatest ==
  \A i \in 1..Len(Records) :
    Records[i].status \in Unresolved =>
      i = latestIntent(snapshot, Records[i].request.target)

\* The record of the same target before position j, 0 for the first one.
Predecessor(s, j) == LastOf({i \in History(s, s.records[j].request.target) : i < j})

\* A request that follows a settled record of its target: a Create after a
\* confirmed Delete only; every other request fenced on exactly the UID, the
\* generation and the Form the record left behind, naming the record as
\* superseded if and only if it is a reserved failure.
Follows(r, prior) ==
  /\ prior.status \in Settled
  /\ (r.action = "create") <=> (prior.status = "delete-confirmed")
  /\ r.action # "create" =>
       r.uid = prior.opUID /\ r.generation = prior.opGeneration /\ r.form = prior.request.form
  /\ r.supersedes = IF prior.status = "failed-reserved" THEN prior.id ELSE None

FollowsImport(r, import) ==
  /\ r.action # "create" /\ r.supersedes = None
  /\ r.uid = import.uid /\ r.generation = import.generation /\ r.form = import.form

\* The records of a target form one line of custody: it starts with a Create, or
\* with a mutation of the imported identity, and each record follows the one
\* before it (the identity and supersession checks of Begin).
CustodyLine ==
  \A j \in 1..Len(Records) :
    LET r == Records[j].request
        p == Predecessor(snapshot, j)
        m == LastOf(ImportsOf(snapshot, r.target))
    IN  /\ p # 0 => Follows(r, Records[p])
        /\ p = 0 /\ m # 0 => FollowsImport(r, snapshot.imports[m])
        /\ p = 0 /\ m = 0 => r.action = "create"

\* The promise of Begin's comment: an identical unresolved intent returns its
\* original key, whatever was recorded since.
UnresolvedIsReplayed ==
  \A i \in 1..Len(Records) :
    Records[i].status \in Unresolved =>
      /\ BeginReplays(snapshot, Records[i].request)
      /\ LoopStop(snapshot, Records[i].request) = i

\* What one step may do to a record: keep its key and request; give a claimed
\* intent its Operation, whose identity is then fixed; settle an accepted one
\* once; never shorten the retention.
RecordStep(old, new) ==
  /\ new.id = old.id
  /\ new.request = old.request
  /\ old.opID # None =>
       /\ new.opID = old.opID /\ new.opUID = old.opUID
       /\ new.opGeneration = old.opGeneration /\ new.initialRetain = old.initialRetain
  /\ new.retain >= old.retain
  /\ \/ new.status = old.status
     \/ old.status = "claimed" /\ new.status \in {"accepted", "accepted-failed"}
     \/ old.status \in {"accepted", "accepted-failed"} /\ new.status \in Settled
  /\ old.status \in Settled => new = [old EXCEPT !.retain = new.retain]

\* No operation drops, reorders, rewrites or reopens a record, removes an import
\* or changes the binding of a bound store.
HistoryIsKept ==
  [][/\ Len(Records) <= Len(Records')
     /\ \A i \in 1..Len(Records) : RecordStep(Records[i], Records'[i])
     /\ Len(snapshot.imports) <= Len(snapshot'.imports)
     /\ \A i \in 1..Len(snapshot.imports) : snapshot'.imports[i] = snapshot.imports[i]
     /\ snapshot.binding # None => snapshot'.binding = snapshot.binding]_vars

=============================================================================
