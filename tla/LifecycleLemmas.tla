-------------------------- MODULE LifecycleLemmas --------------------------
(***************************************************************************)
(* The inductive invariant of ProviderLifecycle, what follows from it, and *)
(* why the steps that leave the journal alone keep it: those of a call and *)
(* those of the Host.                                                      *)
(***************************************************************************)
EXTENDS ProviderLifecycle, IntentLemmas

Steps == {"idle", "claim", "fence", "send", "await", "finish", "settle", "reread", "import", "return"}

CallType ==
  [pc : Steps, request : Requests, id : Keys \cup {None}, resp : States,
   reply : OperationIDs \cup {None}, ack : OperationAck \cup {NoAck},
   obs : ResourceObservation \cup {NoObservation}]

HostResource ==
  [life : {"unused", "live", "gone"}, form : Forms \cup {None}, generation : 0..MaxGeneration,
   phase : {"idle", "error", "other", None}, op : OperationIDs \cup {None}]

HostOperation ==
  [key : Keys \cup {None}, request : Requests, uid : UIDs \cup {None}, generation : 0..MaxGeneration,
   status : {"unused", "running", "waiting_input", "succeeded", "failed", "expired"}]

Message == [from : Workers, key : Keys, request : BeginRequest]

TypeOK ==
  /\ snapshot \in Snapshot
  /\ tf \in [Workers -> States]
  /\ call \in [Workers -> CallType]
  /\ resource \in [UIDs -> HostResource]
  /\ operation \in [OperationIDs -> HostOperation]
  /\ net \subseteq Message
  /\ sent \in [Keys -> Nat]


-----------------------------------------------------------------------------
(* The journal of the one name, and the Host.                               *)

N == Len(snapshot.records)

\* Every record is the name's, decodes, and is settled unless it is the last.
Journal ==
  /\ snapshot.binding = Slot.hostAPI
  /\ \A i \in 1..N : /\ Rec(i).request.target = Slot
                     /\ validStoredIntent(Rec(i))
                     /\ i < N => Rec(i).status \in Settled
  /\ \A i, j \in 1..N : Rec(i).id = Rec(j).id => i = j
  /\ \A i \in 1..Len(snapshot.imports) : snapshot.imports[i].target = Slot

Recorded(k, r) == \E i \in 1..N : Rec(i).id = k /\ Rec(i).request = r

\* The Host has Operations of journaled intents only, one for each.
OperationsAreClaimed ==
  \A o \in OperationIDs :
    IF operation[o].key = None
      THEN operation[o] = NoOperation
      ELSE /\ Recorded(operation[o].key, operation[o].request)
           /\ operation[o].uid \in UIDs
           /\ operation[o].generation = operation[o].request.generation + 1
           /\ operation[o].status # "unused"
           /\ \A p \in OperationIDs : operation[p].key = operation[o].key => p = o

\* The Operation a record names is the Host's Operation of that intent.
RecordsAreLinked ==
  \A i \in 1..N :
    LET o == Rec(i).opID
    IN  o # None => /\ operation[o].key = Rec(i).id
                    /\ operation[o].uid = Rec(i).opUID
                    /\ operation[o].generation = Rec(i).opGeneration

Live == {u \in UIDs : resource[u].life = "live"}

Running == {"running", "waiting_input"}

\* One Resource has the name, and an Operation that runs is the last on it.
HostIsSound ==
  /\ \A u, v \in Live : u = v
  /\ \A u \in Live : resource[u].generation \in 1..MaxGeneration /\ resource[u].form \in Forms /\ resource[u].phase # None
  /\ \A u \in UIDs \ Live : resource[u].op = None
  /\ \A u \in UIDs :
       LET o == resource[u].op
       IN  o # None =>
             /\ operation[o].uid = u
             /\ operation[o].generation = resource[u].generation
             /\ operation[o].request.form = resource[u].form
             /\ operation[o].status \in Running <=> resource[u].phase = "other"
             /\ operation[o].status = "succeeded" => resource[u].phase = "idle"
             /\ operation[o].status = "failed" => resource[u].phase = "error"
  /\ \A o \in OperationIDs : operation[o].status \in Running => resource[operation[o].uid].op = o

\* The last Operation on a Resource is the last record's, or the one before it
\* while the Host has not seen the last one.
NothingBehind ==
  \A u \in UIDs :
    LET k == operation[resource[u].op].key
    IN  resource[u].op # None =>
          /\ N > 0
          /\ \/ k = Rec(N).id
             \/ N > 1 /\ k = Rec(N - 1).id /\ \A o \in OperationIDs : operation[o].key # Rec(N).id

\* What an Operation that ended with the status has left at the Host.
Left(o, status) ==
  /\ operation[o].status \in {status, "expired"}
  /\ IF status = "succeeded" /\ operation[o].request.action = "delete"
       THEN resource[operation[o].uid].life = "gone" /\ Live = {}
       ELSE /\ resource[operation[o].uid].op = o
            /\ resource[operation[o].uid].phase = IF status = "failed" THEN "error" ELSE "idle"

\* The Operation of the last record is the last one on its Resource.
LatestStands ==
  \A o \in OperationIDs :
    N > 0 /\ operation[o].key = Rec(N).id =>
      resource[operation[o].uid].op = o \/ (operation[o].request.action = "delete" /\ Left(o, "succeeded"))

\* The last record, once settled, is what its Operation has left.
SettledStands ==
  N > 0 /\ Rec(N).status \in Settled =>
    Left(Rec(N).opID, IF Rec(N).status = "failed-reserved" THEN "failed" ELSE "succeeded")

GoneStays ==
  \A i \in 1..N : Rec(i).status = "delete-confirmed" => resource[Rec(i).opUID].life = "gone"

\* What was sent was claimed before.
Requested ==
  /\ \A m \in net : Recorded(m.key, m.request)
  /\ \A k \in Keys : sent[k] > 0 => \E i \in 1..N : Rec(i).id = k

Shared ==
  /\ Journal /\ OperationsAreClaimed /\ RecordsAreLinked /\ HostIsSound /\ NothingBehind
  /\ LatestStands /\ SettledStands /\ GoneStays /\ Requested


-----------------------------------------------------------------------------
(* An address: its call c and its saved state s.                            *)

\* The evidence a call holds is about its own record, and current while that
\* record is the last.
Observed(c) ==
  \E i \in 1..N :
    /\ Rec(i).id = c.id /\ Rec(i).opID = c.ack.id /\ Rec(i).opID # None
    /\ c.ack.status \in {"succeeded", "failed"}
    /\ operation[c.ack.id].status \in {c.ack.status, "expired"}
    /\ i = N => Left(c.ack.id, c.ack.status)

CallOK(c) ==
  /\ c.pc \in {"fence", "claim"} => c.request \in BeginRequest /\ c.request.target = Slot
  /\ c.pc \in {"send", "await"} => Recorded(c.id, c.request)
  /\ c.reply # None => c.pc = "await" /\ operation[c.reply].key = c.id
  /\ c.pc \in {"finish", "reread"} => \E i \in 1..N : Rec(i).id = c.id /\ Rec(i).opID # None
  /\ c.pc = "settle" => Observed(c) /\ c.ack \in OperationAck /\ c.obs \in ResourceObservation
  /\ c.pc = "import" => c.obs \in PresentResource /\ c.obs.route = c.obs.uid

\* The state is a point of the line of custody.
Custody(s) ==
  \/ \E i \in 1..N : Rec(i).opID # None /\ Rec(i).opUID = s.uid /\ Rec(i).opGeneration = s.generation
  \/ \E i \in 1..Len(snapshot.imports) :
       snapshot.imports[i].uid = s.uid /\ snapshot.imports[i].generation = s.generation

\* A call is about the UID of the saved state, and gives it up only for a
\* confirmed Delete.
Keeps(c, s) ==
  s # NoState =>
    /\ c.pc \notin {"idle", "return"} => c.resp # NoState
    /\ c.pc \in {"fence", "claim", "send", "await"} => c.request.uid = s.uid /\ c.request.action # "create"
    /\ c.pc \in {"finish", "settle", "reread"} => \E i \in 1..N : Rec(i).id = c.id /\ Rec(i).opID # None /\ Rec(i).opUID = s.uid
    /\ c.pc # "import"
    /\ c.pc = "return" /\ c.resp = NoState =>
         \E i \in 1..N : /\ Rec(i).status = "delete-confirmed"
                         /\ Rec(i).opID # None /\ Rec(i).opUID = s.uid

AddressOK(c, s) ==
  /\ CallOK(c)
  /\ s # NoState => Custody(s)
  /\ c.resp # NoState => Custody(c.resp)
  /\ Keeps(c, s)

\* The inductive invariant
Inv == TypeOK /\ Shared /\ \A w \in Workers : AddressOK(call[w], tf[w])


-----------------------------------------------------------------------------
(* What the operators of the journal say of a journal of one name.          *)

\* The parts of a well-typed state.
LEMMA Typed ==
  ASSUME TypeOK
  PROVE  /\ snapshot \in Snapshot /\ N \in Nat /\ \A i \in 1..N : Rec(i) \in Intent
         /\ snapshot.records \in Seq(Intent) /\ snapshot.imports \in Seq(ImportBinding)
         /\ Len(snapshot.imports) \in Nat
         /\ \A i \in 1..Len(snapshot.imports) : snapshot.imports[i] \in ImportBinding
<1>1. snapshot \in Snapshot
  BY Zenon DEF TypeOK
<1>2. snapshot.records \in Seq(Intent) /\ snapshot.imports \in Seq(ImportBinding)
  BY <1>1, Zenon DEF Snapshot
<1> QED
  BY <1>1, <1>2 DEF N, Rec

\* The history of the name is the journal: latestIntent is its last record, and
\* the one before it the last but one.
LEMMA LatestIsLast ==
  ASSUME TypeOK, Journal
  PROVE  /\ History(snapshot, Slot) = 1..N
         /\ ImportsOf(snapshot, Slot) = 1..Len(snapshot.imports)
         /\ Latest = N
         /\ \A i \in 1..N : Before(i) = i - 1
         /\ N > 0 => LastOf(History(snapshot, Slot) \ {Latest}) = N - 1
<1>1. N \in Nat /\ Len(snapshot.imports) \in Nat
  BY Typed, Zenon
<1>2. History(snapshot, Slot) = 1..N /\ ImportsOf(snapshot, Slot) = 1..Len(snapshot.imports)
  BY Zenon DEF History, ImportsOf, Journal, N, Rec
<1>3. \A n \in Nat : LastOf(1..n) = n
  <2> SUFFICES ASSUME NEW n \in Nat PROVE LastOf(1..n) = n
    BY Zenon
  <2>1. CASE n = 0
    BY <2>1, LastOfZero
  <2>2. CASE n # 0
    <3>1. n \in 1..n /\ \A j \in 1..n : j <= n
      BY <2>2
    <3>2. (1..n) \in SUBSET (1..n)
      BY Zenon
    <3> QED
      BY <3>1, <3>2, LastOfIs, Zenon
  <2> QED
    BY <2>1, <2>2, Zenon
<1>4. Latest = N
  BY <1>1, <1>2, <1>3, Zenon DEF Latest, latestIntent
<1>5. ASSUME NEW i \in 1..N PROVE Before(i) = i - 1
  <2>1. {j \in History(snapshot, Slot) : j < i} = 1..(i - 1) /\ i - 1 \in Nat
    BY <1>1, <1>2
  <2> QED
    BY <2>1, <1>3, Zenon DEF Before
<1>6. ASSUME N > 0 PROVE LastOf(History(snapshot, Slot) \ {Latest}) = N - 1
  <2>1. History(snapshot, Slot) \ {Latest} = 1..(N - 1) /\ N - 1 \in Nat
    BY <1>1, <1>2, <1>4, <1>6
  <2> QED
    BY <2>1, <1>3, Zenon
<1> QED
  BY <1>2, <1>4, <1>5, <1>6, Zenon

\* findIntent is the one record with the key, or 0 when there is none.
LEMMA FindIs ==
  ASSUME TypeOK, Journal, NEW k
  PROVE  /\ \A i \in 1..N : Rec(i).id = k => findIntent(snapshot, k) = i
         /\ findIntent(snapshot, k) = 0 <=> \A i \in 1..N : Rec(i).id # k
         /\ findIntent(snapshot, k) # 0 =>
              findIntent(snapshot, k) \in 1..N /\ Rec(findIntent(snapshot, k)).id = k
<1> DEFINE I == {i \in 1..Len(snapshot.records) : snapshot.records[i].id = k}
<1>1. N \in Nat /\ I = {i \in 1..N : Rec(i).id = k} /\ I \in SUBSET (1..N)
  BY Typed, Zenon DEF N, Rec
<1>2. findIntent(snapshot, k) = LastOf(I)
  BY Zenon DEF findIntent
<1>3. ASSUME NEW i \in 1..N, Rec(i).id = k PROVE findIntent(snapshot, k) = i
  <2>1. i \in I /\ \A j \in I : j <= i
    <3>1. i \in I /\ \A j \in I : j = i
      BY <1>1, <1>3, Zenon DEF Journal
    <3>2. i <= i
      BY <1>1
    <3> QED
      BY <3>1, <3>2, Zenon
  <2> QED
    BY <1>1, <1>2, <2>1, LastOfIs, Zenon
<1>4. findIntent(snapshot, k) = 0 <=> I = {}
  BY <1>1, <1>2, LastOfZero, Zenon
<1>5. I = {} <=> \A i \in 1..N : Rec(i).id # k
  BY <1>1, Zenon
<1>6. findIntent(snapshot, k) # 0 =>
        findIntent(snapshot, k) \in 1..N /\ Rec(findIntent(snapshot, k)).id = k
  BY <1>3, <1>4, <1>5, Zenon
<1> QED
  BY <1>3, <1>4, <1>5, <1>6, Zenon

\* A record that is not settled is the last one.
LEMMA UnsettledIsLast ==
  ASSUME TypeOK, Journal, NEW i \in 1..N, Rec(i).status \notin Settled
  PROVE  i = N /\ N > 0
<1>1. ~ (i < N)
  BY Zenon DEF Journal
<1>2. N \in Nat
  BY Typed, Zenon
<1> QED
  BY <1>1, <1>2

\* A record is claimed exactly when it names no Operation; when it names one, that
\* has a UID and the generation after the fence.
LEMMA Stored ==
  ASSUME TypeOK, Journal, NEW i \in 1..N
  PROVE  /\ validateBegin(Rec(i).request)
         /\ Rec(i).opID = None <=> Rec(i).status = "claimed"
         /\ Rec(i).opID # None => /\ Rec(i).opUID \in UIDs
                                  /\ Rec(i).opGeneration = Rec(i).request.generation + 1
                                  /\ Rec(i).opGeneration \in 1..MaxGeneration
                                  /\ Rec(i).request.action # "create" => Rec(i).opUID = Rec(i).request.uid
         /\ Rec(i).status = "applied" =>
              Rec(i).resultUID = Rec(i).opUID /\ Rec(i).resultGeneration = Rec(i).opGeneration
         /\ Rec(i).status = "failed-reserved" => Rec(i).observedGeneration = Rec(i).opGeneration
         /\ Rec(i).status = "delete-confirmed" => Rec(i).request.action = "delete"
         /\ Rec(i).status = "applied" => Rec(i).request.action # "delete"
<1>1. Rec(i) \in Intent /\ validStoredIntent(Rec(i))
  BY Typed, Zenon DEF Journal
<1>2. validateBegin(Rec(i).request) /\ StatusShape(Rec(i))
  BY <1>1, Zenon DEF validStoredIntent
<1>3. Rec(i).opID = None <=> Rec(i).status = "claimed"
  BY <1>1, <1>2, Zenon DEF StatusShape, Intent, Statuses, Unresolved, Settled
<1>4. ASSUME Rec(i).opID # None
      PROVE  /\ Rec(i).opUID \in UIDs
             /\ Rec(i).opGeneration = Rec(i).request.generation + 1
             /\ Rec(i).opGeneration \in 1..MaxGeneration
             /\ Rec(i).request.action # "create" => Rec(i).opUID = Rec(i).request.uid
  <2>1. /\ Rec(i).opUID # None
        /\ validateOperationForIntent(Rec(i), StoredAck(Rec(i)))
    BY <1>1, <1>4, Zenon DEF validStoredIntent
  <2>2. /\ Rec(i).opGeneration \in 1..MaxGeneration
        /\ IF Rec(i).request.action = "create"
             THEN Rec(i).opGeneration = 1
             ELSE Rec(i).opGeneration = Rec(i).request.generation + 1 /\ Rec(i).opUID = Rec(i).request.uid
    BY <2>1, Zenon DEF validateOperationForIntent, StoredAck
  <2>3. Rec(i).request.action = "create" => Rec(i).request.generation = 0
    BY <1>2, Zenon DEF validateBegin
  <2> QED
    BY <1>1, <2>1, <2>2, <2>3 DEF Intent
<1>5. /\ Rec(i).status = "applied" =>
           Rec(i).resultUID = Rec(i).opUID /\ Rec(i).resultGeneration = Rec(i).opGeneration
      /\ Rec(i).status = "failed-reserved" => Rec(i).observedGeneration = Rec(i).opGeneration
      /\ Rec(i).status = "delete-confirmed" => Rec(i).request.action = "delete"
      /\ Rec(i).status = "applied" => Rec(i).request.action # "delete"
  BY <1>1, <1>2, Zenon DEF StatusShape, Intent, Statuses, Unresolved, Settled
<1> QED
  BY <1>2, <1>3, <1>4, <1>5, Zenon

\* What a call and its address hold.
LEMMA AddressHas ==
  ASSUME Inv, NEW w \in Workers
  PROVE  /\ TypeOK /\ Shared /\ Journal
         /\ call[w] \in CallType /\ tf[w] \in States /\ call[w].resp \in States
         /\ CallOK(call[w]) /\ Keeps(call[w], tf[w])
         /\ tf[w] # NoState => Custody(tf[w])
         /\ call[w].resp # NoState => Custody(call[w].resp)
<1>1. TypeOK /\ Shared /\ AddressOK(call[w], tf[w])
  BY Zenon DEF Inv
<1>2. call[w] \in CallType /\ tf[w] \in States
  BY <1>1, Zenon DEF TypeOK
<1> QED
  BY <1>1, <1>2, Zenon DEF AddressOK, Shared, CallType

\* The record a call is about, while it follows an Operation.
LEMMA HeldIs ==
  ASSUME Inv, NEW w \in Workers, call[w].pc \in {"finish", "reread"}
  PROVE  \E i \in 1..N :
           /\ findIntent(snapshot, call[w].id) = i /\ Held(w) = Rec(i)
           /\ Rec(i).id = call[w].id /\ Rec(i).opID # None
           /\ tf[w] # NoState => Rec(i).opUID = tf[w].uid
<1>1. TypeOK /\ Journal /\ CallOK(call[w]) /\ Keeps(call[w], tf[w])
  BY AddressHas, Zenon
<1>2. PICK i \in 1..N : Rec(i).id = call[w].id /\ Rec(i).opID # None
  BY <1>1, Zenon DEF CallOK
<1>3. findIntent(snapshot, call[w].id) = i /\ Held(w) = Rec(i)
  BY <1>1, <1>2, FindIs, Zenon DEF Held
<1>4. tf[w] # NoState => Rec(i).opUID = tf[w].uid
  BY <1>1, <1>2, Zenon DEF Keeps, Journal
<1> QED
  BY <1>2, <1>3, <1>4, Zenon

-----------------------------------------------------------------------------
(* What the invariant says of Operations and of settled records.            *)

\* What a read of the Host answers.
LEMMA ReadType ==
  ASSUME Inv, NEW u \in UIDs
  PROVE  /\ ReadResource(u) \in ResourceObservation /\ ReadResource(u).route = u
         /\ ReadResource(u).code = 200 <=> u \in Live
         /\ ReadResource(u).code = 200 => ReadResource(u) \in PresentResource /\ ReadResource(u).uid = u
<1>1. resource[u] \in HostResource /\ HostIsSound
  BY Zenon DEF Inv, TypeOK, Shared
<1>2. CASE resource[u].life = "live"
  <2>1. /\ resource[u].generation \in 1..MaxGeneration /\ resource[u].form \in Forms
        /\ resource[u].phase \in {"idle", "error", "other"}
    BY <1>1, <1>2, Zenon DEF HostIsSound, Live, HostResource
  <2>2. Slot.name \in Names
    BY LifecycleAssumption, Zenon DEF Target
  <2> QED
    BY <1>2, <2>1, <2>2, Zenon DEF ReadResource, ResourceObservation, PresentResource, Live
<1>3. CASE resource[u].life # "live"
  BY <1>3 DEF ReadResource, ResourceObservation, AbsentResource, Live
<1> QED
  BY <1>2, <1>3, Zenon

\* The Operation a record names is well known at the Host.
LEMMA OperationIs ==
  ASSUME Inv, NEW i \in 1..N, NEW o \in OperationIDs, operation[o].key = Rec(i).id
  PROVE  /\ operation[o].request = Rec(i).request /\ operation[o].request \in BeginRequest
         /\ operation[o].uid \in UIDs /\ operation[o].generation = Rec(i).request.generation + 1
         /\ operation[o].generation \in 1..MaxGeneration
         /\ operation[o].status # "unused"
         /\ \A p \in OperationIDs : operation[p].key = operation[o].key => p = o
<1>1. TypeOK /\ Journal /\ OperationsAreClaimed /\ Rec(i) \in Intent /\ operation[o] \in HostOperation
  BY Typed, Zenon DEF Inv, Shared, TypeOK
<1>2. operation[o].key # None
  BY <1>1, NoneAssumption, Zenon DEF Intent
<1>3. /\ Recorded(operation[o].key, operation[o].request)
      /\ operation[o].uid \in UIDs
      /\ operation[o].generation = operation[o].request.generation + 1
      /\ operation[o].status # "unused"
      /\ \A p \in OperationIDs : operation[p].key = operation[o].key => p = o
  BY <1>1, <1>2, Zenon DEF OperationsAreClaimed
<1>4. operation[o].request = Rec(i).request
  BY <1>1, <1>3, Zenon DEF Recorded, Journal
<1>5. Rec(i).request \in BeginRequest /\ Rec(i).request.generation \in Nat
  BY <1>1 DEF Intent, BeginRequest
<1>6. operation[o].generation \in 0..MaxGeneration
  BY <1>1, Zenon DEF HostOperation
<1> QED
  BY <1>3, <1>4, <1>5, <1>6

\* The call goes on with the record rec of its intent as its pending state.
Awaited(w, rec) == [call[w] EXCEPT !.pc = "finish", !.resp = Pending(rec), !.reply = None]

\* The Operation a waiting call was answered with.
LEMMA AnswerIs ==
  ASSUME Inv, NEW w \in Workers, call[w].pc = "await", call[w].reply # None,
         operation[call[w].reply].status # "expired"
  PROVE  \E i \in 1..N, o \in OperationIDs :
           /\ o = call[w].reply /\ findIntent(snapshot, call[w].id) = i
           /\ Rec(i).id = call[w].id /\ Rec(i).request = call[w].request
           /\ operation[o].key = Rec(i).id /\ v2Ack(o) \in OperationAck
<1>1. TypeOK /\ Journal /\ CallOK(call[w]) /\ call[w] \in CallType
  BY AddressHas, Zenon
<1>2. PICK i \in 1..N : Rec(i).id = call[w].id /\ Rec(i).request = call[w].request
  BY <1>1, Zenon DEF CallOK, Recorded
<1>3. PICK o \in OperationIDs : o = call[w].reply
  BY <1>1, Zenon DEF CallType
<1>4. operation[o].key = Rec(i).id /\ operation[o] \in HostOperation
  BY <1>1, <1>2, <1>3, Zenon DEF CallOK, TypeOK
<1>5. /\ operation[o].request \in BeginRequest /\ operation[o].uid \in UIDs
      /\ operation[o].generation \in 1..MaxGeneration /\ operation[o].status # "unused"
  BY <1>4, OperationIs, Zenon
<1>6. v2Ack(o) \in OperationAck
  BY <1>3, <1>4, <1>5, Zenon
  DEF v2Ack, OperationAck, OperationStatuses, OperationEffects, Effect, BeginRequest, HostOperation
<1>7. findIntent(snapshot, call[w].id) = i
  BY <1>1, <1>2, FindIs, Zenon
<1> QED
  BY <1>2, <1>3, <1>4, <1>6, <1>7, Zenon

\* What a settled version of a record keeps.
SettledVersion(new, rec, ack) ==
  /\ new.id = rec.id /\ new.request = rec.request
  /\ new.opID = rec.opID /\ new.opUID = rec.opUID /\ new.opGeneration = rec.opGeneration
  /\ validStoredIntent(new)
  /\ new.status = SettledStatus(rec, ack)
  /\ rec.status \in Settled => new.status = rec.status

\* Complete and the extension of a settled record both write such a version.
LEMMA SettledRecord ==
  ASSUME TypeOK, Journal, NEW i \in 1..N, NEW ack \in OperationAck, NEW obs \in ResourceObservation,
         \/ MayComplete(snapshot, i, ack, obs) /\ snapshot' = Complete(snapshot, i, ack, obs)
         \/ MayExtend(snapshot, i, ack, obs) /\ snapshot' = Extend(snapshot, i, ack)
  PROVE  /\ sameOperation(Rec(i), ack)
         /\ \E new \in Intent :
              snapshot' = WithRecord(snapshot, i, new) /\ SettledVersion(new, Rec(i), ack)
<1>1. /\ snapshot \in Snapshot /\ i \in 1..Len(snapshot.records) /\ Rec(i) = snapshot.records[i]
      /\ snapshot.records[i] \in Intent /\ validStoredIntent(snapshot.records[i])
  BY Typed, Zenon DEF N, Rec, Journal
<1>2. EvidenceBelongs(snapshot, i, ack)
  BY Zenon DEF MayComplete, MayExtend
<1>3. sameOperation(Rec(i), ack)
  BY <1>2, Zenon DEF EvidenceBelongs, Rec
<1>4. CASE MayComplete(snapshot, i, ack, obs) /\ snapshot' = Complete(snapshot, i, ack, obs)
  <2>1. PICK new \in Intent : new = CompletedRecord(Rec(i), ack, obs)
    BY <1>1, CompletedType, Zenon
  <2>2. validStoredIntent(new)
    BY <1>1, <1>4, <2>1, CompletedValid, Zenon
  <2>3. snapshot' = WithRecord(snapshot, i, new)
    BY <1>1, <1>4, <2>1, Zenon DEF Complete
  <2>4. /\ new.id = Rec(i).id /\ new.request = Rec(i).request
        /\ new.opID = Rec(i).opID /\ new.opUID = Rec(i).opUID /\ new.opGeneration = Rec(i).opGeneration
        /\ new.status = SettledStatus(Rec(i), ack)
    BY <1>1, <2>1, ZenonT(30) DEF CompletedRecord, Intent
  <2>5. Rec(i).status \notin Settled
    BY <1>1, <1>4, Zenon DEF MayComplete, Settled
  <2> QED
    BY <1>3, <2>2, <2>3, <2>4, <2>5, Zenon DEF SettledVersion
<1>5. CASE MayExtend(snapshot, i, ack, obs) /\ snapshot' = Extend(snapshot, i, ack)
  <2>1. ExtendedRecord(Rec(i), ack) \in Intent
    BY <1>1, Zenon DEF ExtendedRecord, Intent, OperationAck
  <2>2. PICK new \in Intent : new = ExtendedRecord(Rec(i), ack)
    BY <2>1, Zenon
  <2>3. /\ new.id = Rec(i).id /\ new.request = Rec(i).request /\ new.status = Rec(i).status
        /\ new.opID = Rec(i).opID /\ new.opUID = Rec(i).opUID /\ new.opGeneration = Rec(i).opGeneration
    BY <1>1, <2>2, Zenon DEF ExtendedRecord, Intent
  <2>4. Rec(i).status \in Settled /\ SettledStatus(Rec(i), ack) = Rec(i).status
    BY <1>1, <1>5, Zenon DEF MayExtend
  <2>5. validStoredIntent(new)
    BY <1>1, <1>2, <2>2, <2>4, ExtendedValid, Zenon
  <2>6. snapshot' = WithRecord(snapshot, i, new)
    BY <1>1, <1>5, <2>2, Zenon DEF Extend
  <2> QED
    BY <1>3, <2>3, <2>4, <2>5, <2>6, Zenon DEF SettledVersion
<1> QED
  BY <1>4, <1>5, Zenon


-----------------------------------------------------------------------------
(* The properties.                                                          *)

\* Every effect at the Host is that of the latest intent, or of the one before it
\* while the latest is an unanswered claim.
LEMMA NothingBehindIs == Inv => NoEffectBehindJournal
<1> SUFFICES ASSUME Inv, NEW u \in UIDs, resource[u].op # None
             PROVE  LET op == operation[resource[u].op]
                    IN  /\ Latest # 0
                        /\ \E i \in {Latest, Before(Latest)} \ {0} :
                             /\ Rec(i).id = op.key
                             /\ Rec(i).request = op.request
                             /\ i # Latest => Rec(Latest).status = "claimed"
  BY Zenon DEF NoEffectBehindJournal
<1>1. /\ TypeOK /\ Shared /\ Journal /\ N \in Nat /\ \A i \in 1..N : Rec(i) \in Intent
      /\ Latest = N /\ \A i \in 1..N : Before(i) = i - 1
  BY Typed, LatestIsLast, Zenon DEF Inv, Shared
<1>2. PICK o \in OperationIDs : o = resource[u].op
  BY <1>1, Zenon DEF TypeOK, HostResource
<1>3. /\ N > 0
      /\ \/ operation[o].key = Rec(N).id
         \/ N > 1 /\ operation[o].key = Rec(N - 1).id /\ \A p \in OperationIDs : operation[p].key # Rec(N).id
  BY <1>1, <1>2, Zenon DEF Shared, NothingBehind
<1>4. CASE operation[o].key = Rec(N).id
  <2>1. N \in 1..N
    BY <1>1, <1>3
  <2>2. operation[o].request = Rec(N).request
    BY <1>4, <2>1, OperationIs, Zenon
  <2> QED
    BY <1>1, <1>2, <1>3, <1>4, <2>2
<1>5. CASE N > 1 /\ operation[o].key = Rec(N - 1).id /\ \A p \in OperationIDs : operation[p].key # Rec(N).id
  <2>1. PICK i \in 1..N : i = N - 1
    BY <1>1, <1>5
  <2>2. operation[o].request = Rec(i).request
    BY <1>5, <2>1, OperationIs, Zenon
  <2>3. N \in 1..N /\ Before(N) = i /\ i # 0
    BY <1>1, <1>5, <2>1
  <2>4. Rec(N).opID = None
    BY <1>1, <1>5, <2>3, Zenon DEF Shared, RecordsAreLinked, Intent
  <2>5. Rec(N).status = "claimed"
    BY <1>1, <2>3, <2>4, Stored, Zenon
  <2> QED
    BY <1>1, <1>2, <1>5, <2>1, <2>2, <2>3, <2>5
<1> QED
  BY <1>3, <1>4, <1>5, Zenon

\* A settled record is what the Host has.
LEMMA SettledStandsIs == Inv => SettledAgreesWithHost
<1> SUFFICES ASSUME Inv, Latest # 0, Rec(Latest).status \in Settled
             PROVE  LET rec == Rec(Latest)
                        id  == RecordIdentity(rec)
                    IN  /\ id.found =>
                             /\ resource[id.uid].life = "live"
                             /\ resource[id.uid].generation = id.generation
                             /\ resource[id.uid].form = id.form
                             /\ resource[id.uid].op = rec.opID
                             /\ resource[id.uid].phase = IF rec.status = "applied" THEN "idle" ELSE "error"
                        /\ id.deleted => \A u \in UIDs : resource[u].life # "live"
  BY Zenon DEF SettledAgreesWithHost
<1>1. /\ TypeOK /\ Shared /\ Journal /\ HostIsSound /\ N \in Nat /\ Latest = N
      /\ \A i \in 1..N : Rec(i) \in Intent
  BY Typed, LatestIsLast, Zenon DEF Inv, Shared
<1>2. N \in 1..N /\ N > 0 /\ Rec(N).status \in Settled
  BY <1>1
<1>3. PICK o \in OperationIDs : o = Rec(N).opID
  BY <1>1, <1>2, Stored, Zenon DEF Settled, Intent
<1>4. /\ operation[o].key = Rec(N).id /\ operation[o].uid = Rec(N).opUID
      /\ operation[o].generation = Rec(N).opGeneration /\ o # None
  BY <1>1, <1>2, <1>3, NoneAssumption, Zenon DEF Shared, RecordsAreLinked
<1>5. operation[o].request = Rec(N).request /\ operation[o].uid \in UIDs
  BY <1>2, <1>4, OperationIs, Zenon
<1>6. Left(o, IF Rec(N).status = "failed-reserved" THEN "failed" ELSE "succeeded")
  BY <1>1, <1>2, <1>3, Zenon DEF Shared, SettledStands
<1>7. CASE Rec(N).status = "delete-confirmed"
  <2>1. RecordIdentity(Rec(N)) = Identity(FALSE, TRUE, None, 0, None)
    BY <1>7, Zenon DEF RecordIdentity
  <2>2. Rec(N).request.action = "delete"
    BY <1>1, <1>2, <1>7, Stored, Zenon
  <2>3. Live = {}
    BY <1>5, <1>6, <1>7, <2>2, Zenon DEF Left
  <2> QED
    BY <1>1, <2>1, <2>3 DEF Identity, Live
<1>8. CASE Rec(N).status # "delete-confirmed"
  <2>1. RecordIdentity(Rec(N)) = Identity(TRUE, FALSE, Rec(N).opUID, Rec(N).opGeneration, Rec(N).request.form)
    BY <1>1, <1>2, <1>8, Stored, Zenon DEF RecordIdentity, Settled
  <2>2. /\ resource[operation[o].uid].op = o
        /\ resource[operation[o].uid].phase = IF Rec(N).status = "applied" THEN "idle" ELSE "error"
    BY <1>1, <1>2, <1>5, <1>6, <1>8, Stored, Zenon DEF Left, Settled
  <2>3. /\ resource[operation[o].uid].generation = operation[o].generation
        /\ resource[operation[o].uid].form = operation[o].request.form
        /\ resource[operation[o].uid].life = "live"
    BY <1>1, <1>4, <1>5, <2>2 DEF HostIsSound, Live
  <2> QED
    BY <1>1, <1>3, <1>4, <1>5, <2>1, <2>2, <2>3 DEF Identity
<1> QED
  BY <1>7, <1>8, Zenon

-----------------------------------------------------------------------------
(* Steps that change neither the journal nor the Host: general facts.       *)


-----------------------------------------------------------------------------
(* What an address relies on, and what keeps it true.                       *)

\* A step of the journal: the intents and the imports stay, and so do the
\* Operation of a record and a confirmed Delete.
JournalGrows ==
  /\ N' \in Nat /\ N <= N'
  /\ \A i \in 1..N :
       /\ Rec(i)'.id = Rec(i).id /\ Rec(i)'.request = Rec(i).request
       /\ Rec(i).opID # None =>
            /\ Rec(i)'.opID = Rec(i).opID /\ Rec(i)'.opUID = Rec(i).opUID
            /\ Rec(i)'.opGeneration = Rec(i).opGeneration
       /\ Rec(i).status = "delete-confirmed" => Rec(i)'.status = "delete-confirmed"
  /\ Len(snapshot'.imports) \in Nat /\ Len(snapshot.imports) <= Len(snapshot'.imports)
  /\ \A i \in 1..Len(snapshot.imports) : snapshot'.imports[i] = snapshot.imports[i]

\* A step of the Host: an Operation stays what it is, an ended one stays ended,
\* and what the last record's Operation has left stays there.
HostKeeps ==
  /\ \A o \in OperationIDs :
       operation[o].key # None =>
         /\ operation'[o].key = operation[o].key
         /\ \A status \in {"succeeded", "failed"} :
              operation[o].status \in {status, "expired"} => operation'[o].status \in {status, "expired"}
  /\ \A o \in OperationIDs, status \in {"succeeded", "failed"} :
       N > 0 /\ operation[o].key = Rec(N).id /\ Left(o, status) => Left(o, status)'

\* A recorded request stays recorded.
LEMMA RecordedStays ==
  ASSUME N \in Nat, JournalGrows, NEW k, NEW r, Recorded(k, r)
  PROVE  Recorded(k, r)'
<1>1. PICK i \in 1..N : Rec(i).id = k /\ Rec(i).request = r
  BY Zenon DEF Recorded
<1>2. i \in 1..N' /\ Rec(i)'.id = k /\ Rec(i)'.request = r
  BY <1>1 DEF JournalGrows
<1> QED
  BY <1>2, Zenon DEF Recorded

\* A point of the line of custody stays one.
LEMMA CustodyStays ==
  ASSUME TypeOK, JournalGrows, NEW s, Custody(s)
  PROVE  Custody(s)'
<1>1. N \in Nat /\ Len(snapshot.imports) \in Nat
  BY Typed, Zenon
<1>2. ASSUME NEW i \in 1..N, Rec(i).opID # None, Rec(i).opUID = s.uid, Rec(i).opGeneration = s.generation
      PROVE  Custody(s)'
  <2>1. i \in 1..N' /\ Rec(i)'.opID # None /\ Rec(i)'.opUID = s.uid /\ Rec(i)'.opGeneration = s.generation
    BY <1>1, <1>2 DEF JournalGrows
  <2> QED
    BY <2>1, Zenon DEF Custody
<1>3. ASSUME NEW i \in 1..Len(snapshot.imports),
             snapshot.imports[i].uid = s.uid, snapshot.imports[i].generation = s.generation
      PROVE  Custody(s)'
  <2>1. /\ i \in 1..Len(snapshot'.imports)
        /\ snapshot'.imports[i].uid = s.uid /\ snapshot'.imports[i].generation = s.generation
    BY <1>1, <1>3 DEF JournalGrows
  <2> QED
    BY <2>1, Zenon DEF Custody
<1> QED
  BY <1>2, <1>3, Zenon DEF Custody

\* The evidence a call has about a record holds on.
LEMMA ObservedStays ==
  ASSUME TypeOK, RecordsAreLinked, JournalGrows, HostKeeps, NEW c, Observed(c)
  PROVE  Observed(c)'
<1>1. PICK i \in 1..N :
        /\ Rec(i).id = c.id /\ Rec(i).opID = c.ack.id /\ Rec(i).opID # None
        /\ c.ack.status \in {"succeeded", "failed"}
        /\ operation[c.ack.id].status \in {c.ack.status, "expired"}
        /\ i = N => Left(c.ack.id, c.ack.status)
  BY Zenon DEF Observed
<1>2. N \in Nat /\ Rec(i) \in Intent
  BY Typed, Zenon
<1>3. Rec(i).id \in Keys /\ c.ack.id \in OperationIDs
  BY <1>1, <1>2, Zenon DEF Intent
<1>4. operation[c.ack.id].key = Rec(i).id /\ operation[c.ack.id].key # None
  BY <1>1, <1>3, NoneAssumption, Zenon DEF RecordsAreLinked
<1>5. /\ i \in 1..N' /\ Rec(i)'.id = c.id /\ Rec(i)'.opID = c.ack.id /\ Rec(i)'.opID # None
      /\ i = N' => i = N
  BY <1>1, <1>2 DEF JournalGrows
<1>6. operation'[c.ack.id].status \in {c.ack.status, "expired"}
  BY <1>1, <1>3, <1>4, Zenon DEF HostKeeps
<1>7. i = N' => Left(c.ack.id, c.ack.status)'
  BY <1>1, <1>2, <1>3, <1>4, <1>5 DEF HostKeeps
<1> QED
  BY <1>1, <1>5, <1>6, <1>7, Zenon DEF Observed

\* What is true of a call and a state stays true while the journal grows and the
\* Host keeps its word.
LEMMA AddressStays ==
  ASSUME TypeOK, RecordsAreLinked, JournalGrows, HostKeeps,
         NEW c \in CallType, NEW s \in States, AddressOK(c, s)
  PROVE  AddressOK(c, s)'
<1>1. N \in Nat /\ \A i \in 1..N : Rec(i) \in Intent
  BY Typed, Zenon
<1>2. /\ N' \in Nat /\ N <= N'
      /\ \A i \in 1..N : Rec(i)'.id = Rec(i).id /\ i \in 1..N'
      /\ \A i \in 1..N : Rec(i).opID # None => Rec(i)'.opID # None /\ Rec(i)'.opUID = Rec(i).opUID
      /\ \A i \in 1..N : Rec(i).status = "delete-confirmed" => Rec(i)'.status = "delete-confirmed"
  BY <1>1 DEF JournalGrows
<1>3. CallOK(c)'
  <2>1. CallOK(c)
    BY Zenon DEF AddressOK
  <2>2. (c.pc \in {"send", "await"} => Recorded(c.id, c.request))'
    BY <1>1, <2>1, RecordedStays, Zenon DEF CallOK
  <2>3. (c.reply # None => c.pc = "await" /\ operation[c.reply].key = c.id)'
    <3> SUFFICES ASSUME c.reply # None
                 PROVE  c.pc = "await" /\ operation'[c.reply].key = c.id
      BY Zenon
    <3>1. c.pc = "await" /\ operation[c.reply].key = c.id /\ c.reply \in OperationIDs
      BY <2>1, Zenon DEF CallOK, CallType
    <3>2. c.id \in Keys
      BY <1>1, <2>1, <3>1, Zenon DEF CallOK, Recorded, Intent
    <3> QED
      BY <3>1, <3>2, NoneAssumption, Zenon DEF HostKeeps
  <2>4. (c.pc \in {"finish", "reread"} => \E i \in 1..N : Rec(i).id = c.id /\ Rec(i).opID # None)'
    <3> SUFFICES ASSUME c.pc \in {"finish", "reread"}
                 PROVE  \E i \in 1..N' : Rec(i)'.id = c.id /\ Rec(i)'.opID # None
      BY Zenon
    <3>1. PICK i \in 1..N : Rec(i).id = c.id /\ Rec(i).opID # None
      BY <2>1, Zenon DEF CallOK
    <3> QED
      BY <1>2, <3>1, Zenon
  <2>5. (c.pc = "settle" => Observed(c) /\ c.ack \in OperationAck /\ c.obs \in ResourceObservation)'
    BY <2>1, ObservedStays, Zenon DEF CallOK
  <2>6. /\ (c.pc \in {"fence", "claim"} => c.request \in BeginRequest /\ c.request.target = Slot)'
        /\ (c.pc = "import" => c.obs \in PresentResource /\ c.obs.route = c.obs.uid)'
    BY <2>1, Zenon DEF CallOK
  <2> QED
    BY <2>2, <2>3, <2>4, <2>5, <2>6, Zenon DEF CallOK
<1>4. (s # NoState => Custody(s))' /\ (c.resp # NoState => Custody(c.resp))'
  BY CustodyStays, Zenon DEF AddressOK
<1>5. Keeps(c, s)'
  <2> SUFFICES ASSUME s # NoState PROVE Keeps(c, s)'
    BY Zenon DEF Keeps
  <2>1. /\ c.pc \notin {"idle", "return"} => c.resp # NoState
        /\ c.pc \in {"fence", "claim", "send", "await"} => c.request.uid = s.uid /\ c.request.action # "create"
        /\ c.pc # "import"
    BY Zenon DEF AddressOK, Keeps
  <2>2. ASSUME c.pc \in {"finish", "settle", "reread"}
        PROVE  \E i \in 1..N' : Rec(i)'.id = c.id /\ Rec(i)'.opID # None /\ Rec(i)'.opUID = s.uid
    <3>1. PICK i \in 1..N : Rec(i).id = c.id /\ Rec(i).opID # None /\ Rec(i).opUID = s.uid
      BY <2>2, Zenon DEF AddressOK, Keeps
    <3> QED
      BY <1>2, <3>1, Zenon
  <2>3. ASSUME c.pc = "return" /\ c.resp = NoState
        PROVE  \E i \in 1..N' : /\ Rec(i)'.status = "delete-confirmed"
                               /\ Rec(i)'.opID # None /\ Rec(i)'.opUID = s.uid
    <3>1. PICK i \in 1..N : Rec(i).status = "delete-confirmed" /\ Rec(i).opID # None /\ Rec(i).opUID = s.uid
      BY <2>3, Zenon DEF AddressOK, Keeps
    <3> QED
      BY <1>2, <3>1, Zenon
  <2> QED
    BY <2>1, <2>2, <2>3, Zenon DEF Keeps
<1> QED
  BY <1>3, <1>4, <1>5, Zenon DEF AddressOK


-----------------------------------------------------------------------------
(* Steps that change a call and the saved state of its address only.        *)

\* What is shared does not depend on the calls and the saved states.
LEMMA SharedAlone ==
  ASSUME Shared, UNCHANGED <<snapshot, host, net, sent>>
  PROVE  Shared'
<1>1. /\ snapshot' = snapshot /\ resource' = resource /\ operation' = operation
      /\ net' = net /\ sent' = sent
  BY Zenon DEF host
<1>2. N' = N /\ \A i : Rec(i)' = Rec(i)
  BY <1>1, Zenon DEF N, Rec
<1>3. Live' = Live /\ \A o, status : Left(o, status)' <=> Left(o, status)
  BY <1>1, Zenon DEF Live, Left
<1>4. \A k, r : Recorded(k, r)' <=> Recorded(k, r)
  BY <1>2, Zenon DEF Recorded
<1>5. Journal' /\ GoneStays' /\ RecordsAreLinked'
  BY <1>1, <1>2, Zenon DEF Shared, Journal, GoneStays, RecordsAreLinked
<1>6. OperationsAreClaimed' /\ Requested'
  BY <1>1, <1>2, <1>4, Zenon DEF Shared, OperationsAreClaimed, Requested
<1>7. HostIsSound'
  BY <1>1, <1>3 DEF Shared, HostIsSound
<1>8. NothingBehind' /\ LatestStands' /\ SettledStands'
  BY <1>1, <1>2, <1>3, Zenon DEF Shared, NothingBehind, LatestStands, SettledStands
<1> QED
  BY <1>5, <1>6, <1>7, <1>8, Zenon DEF Shared

\* A step that leaves the journal and the Host alone and moves a call keeps the
\* invariant when the call and the state it leaves are sound.
LEMMA CallMoves ==
  ASSUME Inv, UNCHANGED <<snapshot, host>>, TypeOK', Shared', NEW w \in Workers,
         NEW c \in CallType, NEW s \in States, AddressOK(c, s),
         call' = [call EXCEPT ![w] = c], tf' = [tf EXCEPT ![w] = s]
  PROVE  Inv'
<1>1. TypeOK /\ Shared /\ \A v \in Workers : AddressOK(call[v], tf[v])
  BY Zenon DEF Inv
<1>2. JournalGrows /\ HostKeeps
  <2>1. /\ snapshot' = snapshot /\ resource' = resource /\ operation' = operation
    BY Zenon DEF host
  <2>2. N' = N /\ N \in Nat /\ Len(snapshot.imports) \in Nat /\ \A i : Rec(i)' = Rec(i)
    BY <1>1, <2>1, Typed, Zenon DEF N, Rec
  <2>3. \A o, status : Left(o, status)' <=> Left(o, status)
    BY <2>1, Zenon DEF Left, Live
  <2>4. JournalGrows
    BY <2>1, <2>2 DEF JournalGrows
  <2>5. HostKeeps
    BY <2>1, <2>3, Zenon DEF HostKeeps
  <2> QED
    BY <2>4, <2>5, Zenon
<1>3. ASSUME NEW d \in CallType, NEW t \in States, AddressOK(d, t) PROVE AddressOK(d, t)'
  BY <1>1, <1>2, <1>3, AddressStays, Zenon DEF Shared
<1>4. ASSUME NEW v \in Workers PROVE AddressOK(call[v], tf[v])'
  <2>1. PICK d \in CallType, t \in States :
          d = call'[v] /\ t = tf'[v] /\ AddressOK(d, t)
    <3>1. CASE v = w
      <4>1. call'[v] = c /\ tf'[v] = s
        BY <1>1, <3>1, Zenon DEF TypeOK
      <4> QED
        BY <4>1, Zenon
    <3>2. CASE v # w
      <4>1. call'[v] = call[v] /\ tf'[v] = tf[v] /\ call[v] \in CallType /\ tf[v] \in States
        BY <1>1, <3>2, Zenon DEF TypeOK
      <4> QED
        BY <1>1, <4>1, Zenon
    <3> QED
      BY <3>1, <3>2, Zenon
  <2> QED
    BY <1>3, <2>1, Zenon
<1> QED
  BY <1>4, Zenon DEF Inv

\* A step that only moves a call is such a step.
LEMMA CallStep ==
  ASSUME Inv, UNCHANGED <<snapshot, host, net, sent>>, NEW w \in Workers,
         NEW c \in CallType, NEW s \in States, AddressOK(c, s),
         call' = [call EXCEPT ![w] = c], tf' = [tf EXCEPT ![w] = s]
  PROVE  Inv'
<1>1. TypeOK'
  BY Zenon DEF Inv, TypeOK, host
<1>2. Shared'
  BY SharedAlone, Zenon DEF Inv
<1> QED
  BY <1>1, <1>2, CallMoves, Zenon

\* A call goes on to c.
LEMMA EnterStep ==
  ASSUME Inv, UNCHANGED <<snapshot, host, net, sent>>, NEW w \in Workers,
         NEW c \in CallType, Enter(w, c),
         CallOK(c), c.resp # NoState => Custody(c.resp), Keeps(c, tf[w])
  PROVE  Inv'
<1>1. tf[w] \in States /\ tf \in [Workers -> States] /\ AddressOK(c, tf[w])
  BY AddressHas, Zenon DEF AddressOK, TypeOK
<1>2. PICK s \in States : s = tf[w]
  BY <1>1, Zenon
<1>3. call' = [call EXCEPT ![w] = c] /\ tf' = [tf EXCEPT ![w] = s]
  BY <1>1, <1>2, Zenon DEF Enter
<1> QED
  BY <1>1, <1>2, <1>3, CallStep, Zenon

\* An idle call has nothing to keep.
LEMMA IdleOK ==
  /\ Idle \in CallType /\ CallOK(Idle) /\ Idle.resp = NoState /\ \A s : Keeps(Idle, s)
<1>1. Idle \in CallType
  BY BoundsAssumption DEF Idle, Call, CallType, Steps, Requests, States, NoState, State
<1>2. Idle.pc = "idle" /\ Idle.resp = NoState /\ Idle.reply = None
  BY Zenon DEF Idle, Call
<1> QED
  BY <1>1, <1>2, Zenon DEF CallOK, Keeps

\* A call returns the state s.
LEMMA ReturnStep ==
  ASSUME Inv, UNCHANGED <<snapshot, host, net, sent>>, NEW w \in Workers,
         NEW s \in States, Return(w, s), s # NoState => Custody(s)
  PROVE  Inv'
<1>1. AddressOK(Idle, s)
  BY IdleOK, Zenon DEF AddressOK
<1> QED
  BY <1>1, IdleOK, CallStep, Zenon DEF Return

\* A call that ends returns the state it has as its response.
LEMMA ResponseStep ==
  ASSUME Inv, UNCHANGED <<snapshot, host, net, sent>>, NEW w \in Workers,
         Return(w, call[w].resp)
  PROVE  Inv'
<1>1. PICK s \in States : s = call[w].resp
  BY AddressHas, Zenon
<1> QED
  BY <1>1, AddressHas, ReturnStep, Zenon

\* The call that names a settled or accepted record is sound.
LEMMA FollowOK ==
  ASSUME Inv, NEW w \in Workers, NEW step \in {"finish", "reread"}, NEW s \in States,
         NEW i \in 1..N, Rec(i).opID # None,
         s # NoState => Custody(s) /\ Rec(i).opUID = s.uid
  PROVE  LET c == Call(step, NoRequest, Rec(i).id, s)
         IN  /\ c \in CallType /\ CallOK(c) /\ c.resp = s /\ Keeps(c, s)
<1> DEFINE c == Call(step, NoRequest, Rec(i).id, s)
<1>1. Rec(i).id \in Keys
  BY Typed, Zenon DEF Inv, Intent
<1>2. c \in CallType
  BY <1>1, Zenon DEF Call, CallType, Steps, Requests
<1>3. c.pc = step /\ c.id = Rec(i).id /\ c.resp = s /\ c.reply = None
  BY Zenon DEF Call
<1>4. CallOK(c)
  <2> HIDE DEF c
  <2> QED
    BY <1>3, Zenon DEF CallOK
<1>5. Keeps(c, s)
  <2> HIDE DEF c
  <2> QED
    BY <1>3, Zenon DEF Keeps
<1> QED
  BY <1>2, <1>3, <1>4, <1>5, Zenon

-----------------------------------------------------------------------------
(* The steps of a call that leave the journal alone.                        *)

\* Create claims, or follows the Operation of an earlier one.
LEMMA CreateInv ==
  ASSUME Inv, NEW w \in Workers, Create(w)
  PROVE  Inv'
<1>1. TypeOK /\ Journal /\ Latest = N /\ N \in Nat /\ tf[w] = NoState
  BY AddressHas, LatestIsLast, Typed, Zenon DEF Create
<1>2. PICK p \in Payloads :
       IF Occupied
         THEN /\ MayAdopt(w, Rec(Latest), p)
              /\ Enter(w, Call("finish", NoRequest, Rec(Latest).id, NoState))
         ELSE Enter(w, Call("claim", Request(w, "create", NoState, None, p), None, NoState))
  BY Zenon DEF Create
<1>3. NoState \in States /\ UNCHANGED <<snapshot, host, net, sent>>
  BY BoundsAssumption DEF NoState, State, States, Create
<1>4. CASE Occupied
  <2>1. N \in 1..N /\ Rec(N).opID # None
    BY <1>1, <1>2, <1>4 DEF Occupied, MayAdopt
  <2>2. LET c == Call("finish", NoRequest, Rec(N).id, NoState)
        IN  /\ c \in CallType /\ CallOK(c) /\ c.resp = NoState /\ Keeps(c, NoState)
    BY <1>3, <2>1, FollowOK, Zenon
  <2> QED
    BY <1>1, <1>2, <1>3, <1>4, <2>2, EnterStep, Zenon
<1>5. CASE ~ Occupied
  <2> DEFINE r == Request(w, "create", NoState, None, p)
             c == Call("claim", r, None, NoState)
  <2>1. r \in BeginRequest /\ r.target = Slot
    BY BoundsAssumption, LifecycleAssumption
    DEF Request, BeginRequest, NoState, State, Actions
  <2>2. c \in CallType /\ c.pc = "claim" /\ c.request = r /\ c.reply = None /\ c.resp = NoState
    <3> HIDE DEF r
    <3> QED
      BY <1>3, <2>1, Zenon DEF Call, CallType, Steps, Requests
  <2>3. Enter(w, c)
    BY <1>2, <1>5, Zenon
  <2>4. CallOK(c) /\ Keeps(c, tf[w])
    <3> HIDE DEF r, c
    <3> QED
      BY <1>1, <2>1, <2>2, Zenon DEF CallOK, Keeps
  <2> QED
    BY <1>3, <2>2, <2>3, <2>4, EnterStep, Zenon
<1> QED
  BY <1>4, <1>5, Zenon

\* Update and Delete start with the fence the saved state gives.
LEMMA MutateInv ==
  ASSUME Inv, NEW w \in Workers, Mutate(w)
  PROVE  Inv'
<1> DEFINE supersedes == IF Latest # 0 /\ Rec(Latest).status = "failed-reserved"
                           THEN Rec(Latest).id ELSE None
<1>1. /\ TypeOK /\ Journal /\ Latest = N /\ N \in Nat /\ \A i \in 1..N : Rec(i) \in Intent
      /\ tf[w] # NoState /\ tf[w] \in States /\ Custody(tf[w])
  BY AddressHas, LatestIsLast, Typed, Zenon DEF Mutate
<1>2. UNCHANGED <<snapshot, host, net, sent>>
  BY Zenon DEF Mutate
<1>3. supersedes \in Keys \cup {None}
  BY <1>1 DEF Intent
<1>4. ASSUME NEW a \in {"update", "delete"}, NEW p \in Payloads \cup {None},
             Enter(w, Call("fence", Request(w, a, tf[w], supersedes, p), None, tf[w]))
      PROVE  Inv'
  <2> HIDE DEF supersedes
  <2> DEFINE r == Request(w, a, tf[w], supersedes, p)
             c == Call("fence", r, None, tf[w])
  <2>1. r \in BeginRequest /\ r.target = Slot /\ r.uid = tf[w].uid /\ r.action # "create"
    BY <1>1, <1>3, LifecycleAssumption, Zenon DEF Request, BeginRequest, States, Actions
  <2>2. c \in CallType /\ c.pc = "fence" /\ c.request = r /\ c.reply = None /\ c.resp = tf[w]
    <3> HIDE DEF r
    <3> QED
      BY <1>1, <2>1, Zenon DEF Call, CallType, Steps, Requests
  <2>3. CallOK(c) /\ Keeps(c, tf[w])
    <3> HIDE DEF r, c
    <3> QED
      BY <1>1, <2>1, <2>2, Zenon DEF CallOK, Keeps
  <2>4. Enter(w, c)
    BY <1>4, Zenon
  <2> QED
    BY <1>1, <1>2, <2>2, <2>3, <2>4, EnterStep, Zenon
<1>5. \/ \E p \in Payloads :
           Enter(w, Call("fence", Request(w, "update", tf[w], supersedes, p), None, tf[w]))
      \/ Enter(w, Call("fence", Request(w, "delete", tf[w], supersedes, None), None, tf[w]))
  BY Zenon DEF Mutate
<1> QED
  BY <1>4, <1>5, Zenon

\* The fence lets the call go on to its claim or ends it.
LEMMA FenceInv ==
  ASSUME Inv, NEW w \in Workers, Fence(w)
  PROVE  Inv'
<1> DEFINE c == [call[w] EXCEPT !.pc = "claim"]
<1>1. UNCHANGED <<snapshot, host, net, sent>> /\ (Enter(w, c) \/ Return(w, call[w].resp))
  BY Zenon DEF Fence
<1>2. CASE Enter(w, c)
  <2>1. call[w] \in CallType /\ call[w].pc = "fence"
    BY AddressHas, Zenon DEF Fence
  <2>2. /\ c \in CallType /\ c.pc = "claim" /\ c.request = call[w].request
        /\ c.reply = call[w].reply /\ c.resp = call[w].resp
    BY <2>1, Zenon DEF CallType, Steps
  <2>3. CallOK(c)
    <3>1. CallOK(call[w])
      BY AddressHas, Zenon
    <3> HIDE DEF c
    <3> QED
      BY <2>1, <2>2, <3>1, Zenon DEF CallOK
  <2>4. Keeps(c, tf[w])
    <3>1. Keeps(call[w], tf[w])
      BY AddressHas, Zenon
    <3> HIDE DEF c
    <3> QED
      BY <2>1, <2>2, <3>1, Zenon DEF Keeps
  <2> QED
    BY <1>1, <1>2, <2>2, <2>3, <2>4, AddressHas, EnterStep, Zenon
<1> QED
  BY <1>1, <1>2, ResponseStep, Zenon

\* Read follows the latest record when the saved state is one it recognizes.
LEMMA ReadInv ==
  ASSUME Inv, NEW w \in Workers, ReadFinishes(w) \/ ReadCompletes(w)
  PROVE  Inv'
<1>1. /\ TypeOK /\ Journal /\ Latest = N /\ N \in Nat /\ \A i \in 1..N : Rec(i) \in Intent
      /\ tf[w] # NoState /\ tf[w] \in States /\ Custody(tf[w])
      /\ UNCHANGED <<snapshot, host, net, sent>>
  BY AddressHas, LatestIsLast, Typed, Zenon DEF ReadFinishes, ReadCompletes
<1>2. PICK step \in {"finish", "reread"} :
        /\ Enter(w, Call(step, NoRequest, Rec(Latest).id, tf[w]))
        /\ ReadPath(w, tf[w]) = IF step = "finish" THEN "finish" ELSE "completed"
  BY Zenon DEF ReadFinishes, ReadCompletes
<1>3. N \in 1..N /\ Rec(N).status # "claimed" /\ Rec(N).opUID = tf[w].uid
  <2>1. Latest # 0
    BY <1>2, Zenon DEF ReadPath
  <2>2. Rec(Latest).status \in {"accepted", "accepted-failed"} \cup Settled
    BY <1>1, <1>2, <2>1, Zenon DEF ReadPath, Settled
  <2>3. \/ v2StaleStateMatchesLatest(w, tf[w]) \/ LinkedCompleted(w, tf[w])
        \/ Rec(Latest).opUID = tf[w].uid
    BY <1>1, <1>2, <2>1, <2>2, Zenon DEF ReadPath, Settled
  <2> QED
    BY <1>1, <2>1, <2>2, <2>3 DEF v2StaleStateMatchesLatest, LinkedCompleted, Settled
<1>4. Rec(N).opID # None
  BY <1>1, <1>3, Stored, Zenon
<1>5. PICK s \in States : s = tf[w]
  BY <1>1, Zenon
<1>6. LET c == Call(step, NoRequest, Rec(N).id, s)
      IN  /\ c \in CallType /\ CallOK(c) /\ c.resp = s /\ Keeps(c, s)
  BY <1>1, <1>3, <1>4, <1>5, FollowOK, Zenon
<1>7. PICK c \in CallType : c = Call(step, NoRequest, Rec(N).id, s) /\ CallOK(c) /\ c.resp = s /\ Keeps(c, s)
  BY <1>6, Zenon
<1> QED
  BY <1>1, <1>2, <1>5, <1>7, EnterStep, Zenon

\* A settled record is read again.
LEMMA CompletedInv ==
  ASSUME Inv, NEW w \in Workers, readCompletedOperation(w)
  PROVE  Inv'
<1> DEFINE c == [call[w] EXCEPT !.pc = "return", !.resp = Restored(Held(w))]
<1>1. /\ UNCHANGED <<snapshot, host, net, sent>> /\ call[w].pc = "reread"
      /\ Enter(w, c) \/ Return(w, call[w].resp)
  BY Zenon DEF readCompletedOperation
<1>2. CASE Enter(w, c)
  <2>1. PICK i \in 1..N :
           /\ Held(w) = Rec(i) /\ Rec(i).id = call[w].id /\ Rec(i).opID # None
           /\ tf[w] # NoState => Rec(i).opUID = tf[w].uid
    BY <1>1, HeldIs, Zenon
  <2>2. TypeOK /\ Journal /\ call[w] \in CallType /\ Rec(i) \in Intent
    BY AddressHas, Typed, Zenon
  <2>3. Rec(i).opUID \in UIDs
    BY <2>1, <2>2, Stored, Zenon
  <2>4. /\ Restored(Rec(i)) \in States
        /\ Restored(Rec(i)) # NoState => Custody(Restored(Rec(i)))
        /\ Restored(Rec(i)) = NoState => Rec(i).status = "delete-confirmed"
    <3>1. CASE Rec(i).status = "delete-confirmed"
      BY <3>1, BoundsAssumption DEF Restored, NoState, State, States
    <3>2. CASE Rec(i).status # "delete-confirmed"
      <4>1. /\ Restored(Rec(i)) \in States
            /\ Restored(Rec(i)).uid = Rec(i).opUID /\ Restored(Rec(i)).generation = Rec(i).opGeneration
        BY <2>2, <3>2, Zenon DEF Restored, Pending, State, States, Intent
      <4>2. Restored(Rec(i)) # NoState
        BY <2>3, <4>1, NoneAssumption DEF NoState, State
      <4> QED
        BY <2>1, <4>1, <4>2, Zenon DEF Custody
    <3> QED
      BY <3>1, <3>2, Zenon
  <2>5. /\ c \in CallType /\ c.pc = "return" /\ c.resp = Restored(Rec(i)) /\ c.reply = call[w].reply
    BY <2>1, <2>2, <2>4, Zenon DEF CallType, Steps
  <2>6. c.reply = None
    BY <1>1, <2>5, AddressHas, Zenon DEF CallOK
  <2>7. CallOK(c) /\ Keeps(c, tf[w])
    <3> HIDE DEF c
    <3> QED
      BY <2>1, <2>4, <2>5, <2>6, Zenon DEF CallOK, Keeps
  <2> QED
    BY <1>1, <1>2, <2>4, <2>5, <2>7, EnterStep, Zenon
<1> QED
  BY <1>1, <1>2, ResponseStep, Zenon

\* An import reads the Resource first.
LEMMA ImportReadInv ==
  ASSUME Inv, NEW w \in Workers, ImportRead(w)
  PROVE  Inv'
<1>1. PICK u \in UIDs :
        /\ ReadResource(u).code = 200
        /\ Enter(w, [Call("import", NoRequest, None, NoState) EXCEPT !.obs = ReadResource(u)])
  BY Zenon DEF ImportRead
<1>2. PICK seen \in PresentResource : seen = ReadResource(u) /\ seen.route = seen.uid
  BY <1>1, ReadType
<1> DEFINE c == [Call("import", NoRequest, None, NoState) EXCEPT !.obs = seen]
<1>3. UNCHANGED <<snapshot, host, net, sent>> /\ tf[w] = NoState
  BY Zenon DEF ImportRead
<1>4. c \in CallType /\ c.pc = "import" /\ c.reply = None /\ c.resp = NoState /\ c.obs = seen
  BY BoundsAssumption DEF Call, CallType, Steps, Requests, States, NoState, State, ResourceObservation
<1>5. CallOK(c) /\ Keeps(c, tf[w])
  <2> HIDE DEF c
  <2> QED
    BY <1>2, <1>3, <1>4, Zenon DEF CallOK, Keeps
<1> QED
  BY <1>1, <1>2, <1>3, <1>4, <1>5, EnterStep, Zenon

\* A call ends, or its process dies.
LEMMA EndInv ==
  ASSUME Inv, NEW w \in Workers, Finish(w) \/ NoAnswer(w) \/ Expired(w) \/ Abort(w) \/ Crash(w)
  PROVE  Inv'
<1>1. UNCHANGED <<snapshot, host, net, sent>>
  BY Zenon DEF Finish, NoAnswer, Expired, Abort, Crash
<1>2. CASE Crash(w)
  <2>1. Enter(w, Idle)
    BY <1>2, Zenon DEF Crash, Enter
  <2> QED
    BY <1>1, <2>1, IdleOK, EnterStep, Zenon
<1>3. CASE ~ Crash(w)
  <2>1. Return(w, call[w].resp)
    BY <1>3, Zenon DEF Finish, NoAnswer, Expired, Abort
  <2> QED
    BY <1>1, <2>1, ResponseStep, Zenon
<1> QED
  BY <1>2, <1>3, Zenon

\* The evidence finish takes is what the Operation has left.
LEMMA EvidenceIsLeft ==
  ASSUME Inv, NEW w \in Workers, NEW o \in OperationIDs, N > 0, operation[o].key = Rec(N).id,
         operation[o].status \in {"succeeded", "failed"},
         Evidence(w, o, ReadResource(operation[o].uid))
  PROVE  Left(o, operation[o].status)
<1> DEFINE u == operation[o].uid
<1>1. N \in 1..N /\ HostIsSound /\ LatestStands
  BY Typed DEF Inv, Shared
<1>2. u \in UIDs
  BY <1>1, OperationIs, Zenon
<1>3. /\ ReadResource(u).code = 200 <=> u \in Live
      /\ ReadResource(u).code = 200 => ReadResource(u).uid = u
  BY <1>2, ReadType, Zenon
<1>4. resource[u].op = o \/ Left(o, "succeeded")
  BY <1>1, Zenon DEF LatestStands
<1>5. CASE operation[o].request.action = "delete" /\ operation[o].status = "succeeded"
  <2>1. u \notin Live
    BY <1>3, <1>5, Zenon DEF Evidence
  <2>2. resource[u].op # o
    BY <1>1, <1>2, <2>1, NoneAssumption DEF HostIsSound
  <2> QED
    BY <1>4, <1>5, <2>2, Zenon
<1>6. CASE ~ (operation[o].request.action = "delete" /\ operation[o].status = "succeeded")
  <2>1. resource[u].op = o
    BY <1>3, <1>6, Zenon DEF Evidence
  <2>2. resource[u].phase = IF operation[o].status = "failed" THEN "error" ELSE "idle"
    BY <1>1, <1>2, <2>1, NoneAssumption DEF HostIsSound
  <2> QED
    BY <1>6, <2>1, <2>2, Zenon DEF Left
<1> QED
  BY <1>5, <1>6, Zenon

\* finish reads the ended Operation and its Resource.
LEMMA ObserveInv ==
  ASSUME Inv, NEW w \in Workers, Observe(w)
  PROVE  Inv'
<1>1. call[w].pc = "finish" /\ UNCHANGED <<snapshot, host, net, sent>>
  BY Zenon DEF Observe
<1>2. PICK i \in 1..N :
         /\ Held(w) = Rec(i) /\ Rec(i).id = call[w].id /\ Rec(i).opID # None
         /\ tf[w] # NoState => Rec(i).opUID = tf[w].uid
  BY <1>1, HeldIs, Zenon
<1>3. /\ TypeOK /\ Journal /\ Shared /\ Rec(i) \in Intent /\ N \in Nat
      /\ call[w] \in CallType /\ CallOK(call[w]) /\ Keeps(call[w], tf[w])
  BY AddressHas, Typed, Zenon
<1>4. PICK o \in OperationIDs : o = Rec(i).opID
  BY <1>2, <1>3, Zenon DEF Intent
<1>5. operation[o].key = Rec(i).id
  BY <1>2, <1>3, <1>4, Zenon DEF Shared, RecordsAreLinked
<1> DEFINE seen == ReadResource(operation[o].uid)
           c == [call[w] EXCEPT !.pc = "settle", !.ack = v2Ack(o), !.obs = seen]
<1>6. /\ operation[o].status \in {"succeeded", "failed"}
      /\ (Evidence(w, o, seen) /\ Enter(w, c)) \/ Return(w, call[w].resp)
  BY <1>2, <1>4, Zenon DEF Observe
<1>7. CASE Evidence(w, o, seen) /\ Enter(w, c)
  <2>1. /\ operation[o].request \in BeginRequest /\ operation[o].uid \in UIDs
        /\ operation[o].generation \in 1..MaxGeneration
    BY <1>5, OperationIs, Zenon
  <2>2. v2Ack(o) \in OperationAck /\ v2Ack(o).id = o /\ v2Ack(o).status = operation[o].status
    BY <1>6, <2>1 DEF v2Ack, OperationAck, OperationStatuses, OperationEffects, Effect, BeginRequest
  <2>3. seen \in ResourceObservation
    BY <2>1, ReadType, Zenon
  <2>4. /\ c \in CallType /\ c.pc = "settle" /\ c.ack = v2Ack(o) /\ c.obs = seen
        /\ c.id = call[w].id /\ c.resp = call[w].resp /\ c.reply = call[w].reply
    <3> HIDE DEF seen
    <3> QED
      BY <1>3, <2>2, <2>3, Zenon DEF CallType, Steps
  <2>5. i = N => Left(o, operation[o].status)
    BY <1>3, <1>5, <1>6, <1>7, EvidenceIsLeft
  <2> HIDE DEF c, seen
  <2>6. c.reply = None
    BY <1>1, <1>3, <2>4, Zenon DEF CallOK
  <2>7. Observed(c)
    BY <1>2, <1>4, <1>6, <2>2, <2>4, <2>5, Zenon DEF Observed
  <2>8. CallOK(c)
    BY <2>2, <2>3, <2>4, <2>6, <2>7, Zenon DEF CallOK
  <2>9. Keeps(c, tf[w])
    BY <1>1, <1>2, <1>3, <2>4, Zenon DEF Keeps
  <2> QED
    BY <1>1, <1>7, <2>4, <2>8, <2>9, AddressHas, EnterStep, Zenon
<1> QED
  BY <1>1, <1>6, <1>7, ResponseStep, Zenon

-----------------------------------------------------------------------------
(* The steps of the Host and of the network.                                *)


-----------------------------------------------------------------------------
(* Steps of the network and of the Host.                                    *)

\* A step that leaves the journal and the saved states alone keeps the invariant
\* when what is shared is sound again, the Host keeps its word, and a call changes
\* by an answer to it only.
LEMMA HostStep ==
  ASSUME Inv, TypeOK', Shared', HostKeeps, UNCHANGED <<snapshot, tf>>,
         \A v \in Workers :
           call'[v] # call[v] =>
             \E o \in OperationIDs :
               /\ call'[v] = [call[v] EXCEPT !.reply = o]
               /\ call[v].pc = "await" /\ operation'[o].key = call[v].id
  PROVE  Inv'
<1>1. TypeOK /\ Shared /\ \A v \in Workers : AddressOK(call[v], tf[v])
  BY Zenon DEF Inv
<1>2. JournalGrows
  <2>1. N' = N /\ N \in Nat /\ Len(snapshot.imports) \in Nat /\ \A i : Rec(i)' = Rec(i)
    BY <1>1, Typed, Zenon DEF N, Rec
  <2> QED
    BY <2>1 DEF JournalGrows
<1>3. ASSUME NEW d \in CallType, NEW t \in States, AddressOK(d, t) PROVE AddressOK(d, t)'
  BY <1>1, <1>2, <1>3, AddressStays, Zenon DEF Shared
<1>4. ASSUME NEW v \in Workers PROVE AddressOK(call[v], tf[v])'
  <2>1. PICK d \in CallType, t \in States : d = call[v] /\ t = tf[v] /\ t = tf'[v]
    BY <1>1, Zenon DEF TypeOK
  <2>2. AddressOK(d, t)'
    BY <1>1, <1>3, <2>1, Zenon
  <2>3. CASE call'[v] = d
    BY <2>1, <2>2, <2>3, Zenon
  <2>4. CASE call'[v] # d
    <3>1. PICK o \in OperationIDs :
            call'[v] = [d EXCEPT !.reply = o] /\ d.pc = "await" /\ operation'[o].key = d.id
      BY <2>1, <2>4, Zenon
    <3>2. [d EXCEPT !.reply = o] \in CallType
      BY Zenon DEF CallType
    <3>3. PICK e \in CallType :
            /\ e = call'[v] /\ e.pc = d.pc /\ e.request = d.request /\ e.id = d.id /\ e.resp = d.resp
            /\ e.reply = o
      BY <3>1, <3>2, Zenon DEF CallType
    <3>4. CallOK(e)'
      BY <2>2, <3>1, <3>3, Zenon DEF AddressOK, CallOK
    <3>5. Keeps(e, t)'
      BY <2>2, <3>1, <3>3, Zenon DEF AddressOK, Keeps
    <3>6. AddressOK(e, t)'
      BY <2>2, <3>3, <3>4, <3>5, Zenon DEF AddressOK
    <3> QED
      BY <2>1, <3>3, <3>6, Zenon
  <2> QED
    BY <2>3, <2>4, Zenon
<1> QED
  BY <1>4, Zenon DEF Inv

\* A request is sent under the key of its claim.
LEMMA SendInv ==
  ASSUME Inv, NEW w \in Workers, Send(w)
  PROVE  Inv'
<1>1. /\ TypeOK /\ Shared /\ Journal /\ call[w] \in CallType /\ CallOK(call[w])
      /\ Keeps(call[w], tf[w]) /\ tf[w] \in States /\ \A i \in 1..N : Rec(i) \in Intent
  BY AddressHas, Typed, Zenon
<1>2. call[w].pc = "send" /\ UNCHANGED <<snapshot, host, tf>>
  BY Zenon DEF Send, Enter
<1>3. PICK i \in 1..N : Rec(i).id = call[w].id /\ Rec(i).request = call[w].request
  BY <1>1, <1>2, Zenon DEF CallOK, Recorded
<1>4. PICK k \in Keys, r \in BeginRequest : k = call[w].id /\ r = call[w].request /\ Recorded(k, r)
  BY <1>1, <1>3, Zenon DEF Intent, Recorded
<1>5. /\ sent' = [sent EXCEPT ![k] = @ + 1]
      /\ net' = net \cup {[from |-> w, key |-> k, request |-> r]}
      /\ call' = [call EXCEPT ![w] = [call[w] EXCEPT !.pc = "await"]]
  BY <1>4, Zenon DEF Send, Enter
<1>6. PICK c \in CallType :
        /\ c = [call[w] EXCEPT !.pc = "await"] /\ c.pc = "await" /\ c.id = k /\ c.request = r
        /\ c.resp = call[w].resp /\ c.reply = None
  <2> DEFINE c == [call[w] EXCEPT !.pc = "await"]
  <2>1. /\ c \in CallType /\ c.pc = "await" /\ c.id = k /\ c.request = r
        /\ c.resp = call[w].resp /\ c.reply = call[w].reply
    BY <1>1, <1>4, Zenon DEF CallType, Steps
  <2>2. call[w].reply = None
    BY <1>1, <1>2, Zenon DEF CallOK
  <2> QED
    BY <2>1, <2>2, Zenon
<1>7. TypeOK'
  <2>1. sent' \in [Keys -> Nat]
    BY <1>1, <1>5 DEF TypeOK
  <2>2. net' \subseteq Message
    BY <1>1, <1>5 DEF TypeOK, Message
  <2>3. call' \in [Workers -> CallType]
    BY <1>1, <1>5, <1>6, Zenon DEF TypeOK
  <2> QED
    BY <1>1, <1>2, <2>1, <2>2, <2>3, Zenon DEF TypeOK, host
<1>8. Shared'
  <2>1. /\ snapshot' = snapshot /\ resource' = resource /\ operation' = operation
        /\ N' = N /\ \A j : Rec(j)' = Rec(j)
    BY <1>2, Zenon DEF host, N, Rec
  <2>2. Live' = Live /\ \A o, status : Left(o, status)' <=> Left(o, status)
    BY <2>1, Zenon DEF Live, Left
  <2>3. \A kk, rr : Recorded(kk, rr)' <=> Recorded(kk, rr)
    BY <2>1, Zenon DEF Recorded
  <2>4. Journal' /\ GoneStays' /\ RecordsAreLinked'
    BY <1>1, <2>1, Zenon DEF Shared, Journal, GoneStays, RecordsAreLinked
  <2>5. OperationsAreClaimed' /\ HostIsSound'
    <3>1. OperationsAreClaimed'
      BY <1>1, <2>1, <2>3, Zenon DEF Shared, OperationsAreClaimed
    <3>2. HostIsSound'
      BY <1>1, <2>1, <2>2, ZenonT(60) DEF Shared, HostIsSound
    <3> QED
      BY <3>1, <3>2, Zenon
  <2>6. NothingBehind' /\ LatestStands' /\ SettledStands'
    BY <1>1, <2>1, <2>2, Zenon DEF Shared, NothingBehind, LatestStands, SettledStands
  <2>7. \A m \in net' : Recorded(m.key, m.request)'
    BY <1>1, <1>4, <1>5, <2>3 DEF Shared, Requested
  <2>8. \A kk \in Keys : sent'[kk] > 0 => \E j \in 1..N' : Rec(j)'.id = kk
    <3> SUFFICES ASSUME NEW kk \in Keys, sent'[kk] > 0 PROVE \E j \in 1..N : Rec(j).id = kk
      BY <2>1, Zenon
    <3>1. CASE kk = k
      BY <1>3, <1>4, <3>1, Zenon
    <3>2. CASE kk # k
      <4>1. sent'[kk] = sent[kk]
        BY <1>1, <1>5, <3>2, Zenon DEF TypeOK
      <4> QED
        BY <1>1, <4>1, Zenon DEF Shared, Requested
    <3> QED
      BY <3>1, <3>2, Zenon
  <2>9. Requested'
    BY <2>7, <2>8, Zenon DEF Requested
  <2> QED
    BY <2>4, <2>5, <2>6, <2>9, Zenon DEF Shared
<1>9. AddressOK(c, tf[w])
  <2>1. CallOK(c)
    BY <1>4, <1>6, Zenon DEF CallOK
  <2>2. Keeps(c, tf[w])
    BY <1>1, <1>2, <1>4, <1>6, Zenon DEF Keeps
  <2> QED
    BY <1>6, <2>1, <2>2, AddressHas, Zenon DEF AddressOK
<1>10. PICK s \in States : s = tf[w]
  BY <1>1, Zenon
<1>11. tf' = [tf EXCEPT ![w] = s] /\ call' = [call EXCEPT ![w] = c]
  BY <1>1, <1>2, <1>5, <1>6, <1>10, Zenon DEF TypeOK
<1> QED
  BY <1>2, <1>7, <1>8, <1>9, <1>10, <1>11, CallMoves, Zenon

\* What an answer does to the calls.
LEMMA AnswerOK ==
  ASSUME Inv, NEW m \in net, NEW o \in OperationIDs, Answer(m, o), operation'[o].key = m.key
  PROVE  /\ call' \in [Workers -> CallType]
         /\ \A v \in Workers :
              call'[v] # call[v] =>
                \E p \in OperationIDs :
                  /\ call'[v] = [call[v] EXCEPT !.reply = p]
                  /\ call[v].pc = "await" /\ operation'[p].key = call[v].id
<1>1. call \in [Workers -> CallType] /\ m.from \in Workers
  BY Zenon DEF Inv, TypeOK, Message
<1>2. CASE call[m.from].pc = "await" /\ call[m.from].id = m.key
  <2>1. call' = [call EXCEPT ![m.from].reply = o]
    BY <1>2, Zenon DEF Answer
  <2>2. [call[m.from] EXCEPT !.reply = o] \in CallType
    BY <1>1 DEF CallType
  <2>3. /\ call' \in [Workers -> CallType] /\ call'[m.from] = [call[m.from] EXCEPT !.reply = o]
        /\ \A v \in Workers : v # m.from => call'[v] = call[v]
    BY <1>1, <2>1, <2>2, Zenon
  <2> QED
    BY <1>2, <2>3, Zenon
<1>3. CASE ~ (call[m.from].pc = "await" /\ call[m.from].id = m.key)
  BY <1>1, <1>3, Zenon DEF Answer
<1> QED
  BY <1>2, <1>3, Zenon

\* The Host answers a repeated key with the Operation it has.
LEMMA RepeatInv ==
  ASSUME Inv, NEW m \in net, HostRepeat(m)
  PROVE  Inv'
<1>1. PICK o \in OperationIDs : operation[o].key = m.key /\ Answer(m, o)
  BY Zenon DEF HostRepeat, Known
<1>2. net' = net \ {m} /\ UNCHANGED <<snapshot, tf, host, sent>>
  BY Zenon DEF HostRepeat
<1>3. /\ snapshot' = snapshot /\ resource' = resource /\ operation' = operation /\ tf' = tf
      /\ N' = N /\ \A j : Rec(j)' = Rec(j)
  BY <1>2, Zenon DEF host, N, Rec
<1>4. TypeOK /\ Shared
  BY Zenon DEF Inv
<1>5. TypeOK'
  BY <1>1, <1>2, <1>3, <1>4, AnswerOK, Zenon DEF TypeOK
<1>6. Live' = Live /\ \A p, status : Left(p, status)' <=> Left(p, status)
  BY <1>3, Zenon DEF Live, Left
<1>7. \A k, r : Recorded(k, r)' <=> Recorded(k, r)
  BY <1>3, Zenon DEF Recorded
<1>8. Shared'
  <2>1. Journal' /\ GoneStays' /\ RecordsAreLinked'
    BY <1>3, <1>4, Zenon DEF Shared, Journal, GoneStays, RecordsAreLinked
  <2>2. OperationsAreClaimed' /\ HostIsSound'
    <3>1. OperationsAreClaimed'
      BY <1>3, <1>4, <1>7, Zenon DEF Shared, OperationsAreClaimed
    <3>2. HostIsSound'
      BY <1>3, <1>4, <1>6, ZenonT(60) DEF Shared, HostIsSound
    <3> QED
      BY <3>1, <3>2, Zenon
  <2>3. NothingBehind' /\ LatestStands' /\ SettledStands'
    BY <1>3, <1>4, <1>6, Zenon DEF Shared, NothingBehind, LatestStands, SettledStands
  <2>4. Requested'
    BY <1>2, <1>3, <1>4, <1>7, Zenon DEF Shared, Requested
  <2> QED
    BY <2>1, <2>2, <2>3, <2>4, Zenon DEF Shared
<1>9. HostKeeps
  BY <1>3, <1>6, Zenon DEF HostKeeps
<1> QED
  BY <1>1, <1>3, <1>5, <1>8, <1>9, AnswerOK, HostStep, Zenon

\* An Operation that has started is a recorded one.
LEMMA StartedIs ==
  ASSUME Inv, NEW o \in OperationIDs, operation[o].status # "unused"
  PROVE  /\ operation[o] \in HostOperation /\ operation[o].key # None /\ operation[o].uid \in UIDs
         /\ operation[o].status \in Running =>
              resource[operation[o].uid].op = o /\ operation[o].uid \in Live
<1>1. operation[o] \in HostOperation /\ OperationsAreClaimed /\ HostIsSound
  BY Zenon DEF Inv, TypeOK, Shared
<1>2. operation[o].key # None
  BY <1>1 DEF OperationsAreClaimed, NoOperation
<1>3. operation[o].uid \in UIDs
  BY <1>1, <1>2, Zenon DEF OperationsAreClaimed
<1>4. operation[o].status \in Running =>
        resource[operation[o].uid].op = o /\ operation[o].uid \in Live
  BY <1>1, <1>3, NoneAssumption DEF HostIsSound
<1> QED
  BY <1>1, <1>2, <1>3, <1>4, Zenon

\* A step that only changes the status of an Operation: it goes on running, or is
\* forgotten once it has ended.
LEMMA StatusStep ==
  ASSUME Inv, NEW o \in OperationIDs, NEW status,
         \/ operation[o].status \in Running /\ status \in Running
         \/ operation[o].status \in {"succeeded", "failed"} /\ status = "expired",
         operation' = [operation EXCEPT ![o].status = status],
         UNCHANGED <<snapshot, tf, call, resource, net, sent>>
  PROVE  Inv'
<1>1. TypeOK /\ Shared /\ operation \in [OperationIDs -> HostOperation]
  BY Zenon DEF Inv, TypeOK
<1>2. operation[o] \in HostOperation /\ operation[o].key # None /\ operation[o].status # "unused"
  BY StartedIs, Zenon DEF Running
<1>3. /\ operation' \in [OperationIDs -> HostOperation]
      /\ operation'[o].status = status /\ status # "unused"
      /\ \A p \in OperationIDs :
           /\ operation'[p].key = operation[p].key /\ operation'[p].request = operation[p].request
           /\ operation'[p].uid = operation[p].uid /\ operation'[p].generation = operation[p].generation
           /\ p # o => operation'[p] = operation[p]
  <2>1. [operation[o] EXCEPT !.status = status] \in HostOperation
    BY <1>2, Zenon DEF HostOperation, Running
  <2>2. operation'[o] = [operation[o] EXCEPT !.status = status]
    BY <1>1, Zenon
  <2>3. operation' \in [OperationIDs -> HostOperation] /\ \A p \in OperationIDs : p # o => operation'[p] = operation[p]
    BY <1>1, <2>1, Zenon
  <2>4. /\ operation'[o].key = operation[o].key /\ operation'[o].request = operation[o].request
        /\ operation'[o].uid = operation[o].uid /\ operation'[o].generation = operation[o].generation
        /\ operation'[o].status = status
    BY <1>2, <2>2 DEF HostOperation
  <2> QED
    BY <2>3, <2>4, Zenon DEF Running
<1>4. TypeOK'
  BY <1>1, <1>3, Zenon DEF TypeOK
<1>5. N' = N /\ (\A j : Rec(j)' = Rec(j)) /\ Live' = Live /\ \A k, r : Recorded(k, r)' <=> Recorded(k, r)
  BY Zenon DEF N, Rec, Live, Recorded
<1>6. \A p \in OperationIDs, st \in {"succeeded", "failed"} :
        /\ operation[p].status \in {st, "expired"} => operation'[p].status \in {st, "expired"}
        /\ Left(p, st) => Left(p, st)'
  <2> SUFFICES ASSUME NEW p \in OperationIDs, NEW st \in {"succeeded", "failed"},
                      operation[p].status \in {st, "expired"}
               PROVE  /\ operation'[p].status \in {st, "expired"}
                      /\ Left(p, st) => Left(p, st)'
    BY ZenonT(30) DEF Left
  <2>1. operation'[p].status \in {st, "expired"}
    BY <1>3, Zenon DEF Running
  <2> QED
    BY <1>3, <1>5, <2>1 DEF Left
<1>7. HostKeeps
  BY <1>3, <1>6, ZenonT(60) DEF HostKeeps
<1>8. Journal' /\ GoneStays' /\ Requested'
  BY <1>1, <1>5, Zenon DEF Shared, Journal, GoneStays, Requested
<1>9. RecordsAreLinked'
  <2>1. \A i \in 1..N : Rec(i) \in Intent
    BY <1>1, Typed, Zenon
  <2> QED
    BY <1>1, <1>3, <1>5, <2>1 DEF Shared, RecordsAreLinked, Intent
<1>10. OperationsAreClaimed'
  <2> SUFFICES ASSUME NEW p \in OperationIDs
               PROVE  IF operation[p].key = None
                        THEN operation'[p] = NoOperation
                        ELSE /\ Recorded(operation[p].key, operation[p].request)
                             /\ operation[p].uid \in UIDs
                             /\ operation[p].generation = operation[p].request.generation + 1
                             /\ operation'[p].status # "unused"
                             /\ \A q \in OperationIDs : operation[q].key = operation[p].key => q = p
    BY <1>3, <1>5 DEF OperationsAreClaimed
  <2>1. IF operation[p].key = None
          THEN operation[p] = NoOperation
          ELSE /\ Recorded(operation[p].key, operation[p].request)
               /\ operation[p].uid \in UIDs
               /\ operation[p].generation = operation[p].request.generation + 1
               /\ operation[p].status # "unused"
               /\ \A q \in OperationIDs : operation[q].key = operation[p].key => q = p
    BY <1>1, Zenon DEF Shared, OperationsAreClaimed
  <2>2. CASE p = o
    BY <1>2, <1>3, <2>1, <2>2, Zenon
  <2>3. CASE p # o
    BY <1>3, <2>1, <2>3, Zenon
  <2> QED
    BY <2>2, <2>3, Zenon
<1>11. HostIsSound'
  <2>1. HostIsSound
    BY <1>1, Zenon DEF Shared
  <2>2. ASSUME NEW u \in UIDs, NEW p \in OperationIDs, p = resource[u].op
        PROVE  /\ operation'[p].uid = u /\ operation'[p].generation = resource[u].generation
               /\ operation'[p].request.form = resource[u].form
               /\ operation'[p].status \in Running <=> resource[u].phase = "other"
               /\ operation'[p].status = "succeeded" => resource[u].phase = "idle"
               /\ operation'[p].status = "failed" => resource[u].phase = "error"
    <3>1. /\ operation[p].uid = u /\ operation[p].generation = resource[u].generation
          /\ operation[p].request.form = resource[u].form
          /\ operation[p].status \in Running <=> resource[u].phase = "other"
          /\ operation[p].status = "succeeded" => resource[u].phase = "idle"
          /\ operation[p].status = "failed" => resource[u].phase = "error"
      BY <2>1, <2>2, NoneAssumption, Zenon DEF HostIsSound
    <3>2. CASE p = o
      BY <1>3, <3>1, <3>2, Zenon DEF Running
    <3>3. CASE p # o
      BY <1>3, <3>1, <3>3, Zenon
    <3> QED
      BY <3>2, <3>3, Zenon
  <2>3. \A p \in OperationIDs : operation'[p].status \in Running => resource[operation'[p].uid].op = p
    <3> SUFFICES ASSUME NEW p \in OperationIDs, operation'[p].status \in Running
                 PROVE  resource[operation[p].uid].op = p
      BY <1>3, Zenon
    <3>1. operation[p].status \in Running
      BY <1>3, Zenon DEF Running
    <3> QED
      BY <2>1, <3>1, Zenon DEF HostIsSound
  <2>4. \A u \in UIDs : resource[u].op \in OperationIDs \cup {None}
    BY <1>1, Zenon DEF TypeOK, HostResource
  <2>5. \A u \in UIDs : resource'[u].op # None =>
          /\ operation'[resource'[u].op].uid = u
          /\ operation'[resource'[u].op].generation = resource'[u].generation
          /\ operation'[resource'[u].op].request.form = resource'[u].form
          /\ operation'[resource'[u].op].status \in Running <=> resource'[u].phase = "other"
          /\ operation'[resource'[u].op].status = "succeeded" => resource'[u].phase = "idle"
          /\ operation'[resource'[u].op].status = "failed" => resource'[u].phase = "error"
    BY <2>2, <2>4
  <2>6. /\ \A u, v \in Live' : u = v
        /\ \A u \in Live' : resource'[u].generation \in 1..MaxGeneration /\ resource'[u].form \in Forms /\ resource'[u].phase # None
        /\ \A u \in UIDs \ Live' : resource'[u].op = None
    BY <1>5, <2>1, ZenonT(30) DEF HostIsSound
  <2>7. \A p \in OperationIDs : operation'[p].status \in Running => resource'[operation'[p].uid].op = p
    BY <2>3, Zenon
  <2> QED
    BY <2>5, <2>6, <2>7, Zenon DEF HostIsSound
<1>12. NothingBehind'
  <2>1. \A u \in UIDs : resource[u].op \in OperationIDs \cup {None}
    BY <1>1, Zenon DEF TypeOK, HostResource
  <2> QED
    BY <1>1, <1>3, <1>5, <2>1 DEF Shared, NothingBehind
<1>13. LatestStands'
  BY <1>1, <1>3, <1>5, <1>6 DEF Shared, LatestStands
<1>14. SettledStands'
  <2>1. N > 0 /\ Rec(N).status \in Settled => Rec(N).opID \in OperationIDs
    <3>1. N > 0 => N \in 1..N /\ Rec(N) \in Intent
      BY <1>1, Typed
    <3> QED
      BY <1>1, <3>1, Stored, Zenon DEF Shared, Settled, Intent
  <2> QED
    BY <1>1, <1>5, <1>6, <2>1, Zenon DEF Shared, SettledStands
<1>15. Shared'
  BY <1>8, <1>9, <1>10, <1>11, <1>12, <1>13, <1>14, Zenon DEF Shared
<1> QED
  BY <1>4, <1>7, <1>15, HostStep, Zenon

\* An Operation waits for private inputs, goes on with them, or is forgotten.
LEMMA WaitInv ==
  ASSUME Inv, \/ \E o \in OperationIDs : HostWait(o) \/ HostForget(o)
              \/ \E w \in Workers : ContinuePrivateInputs(w)
  PROVE  Inv'
<1>1. ASSUME NEW o \in OperationIDs, HostWait(o) PROVE Inv'
  BY <1>1, StatusStep, Zenon DEF HostWait, Running
<1>2. ASSUME NEW o \in OperationIDs, HostForget(o) PROVE Inv'
  BY <1>2, StatusStep, Zenon DEF HostForget
<1>3. ASSUME NEW w \in Workers, ContinuePrivateInputs(w) PROVE Inv'
  <2>1. PICK i \in 1..N : Held(w) = Rec(i) /\ Rec(i).opID # None
    BY <1>3, HeldIs, Zenon DEF ContinuePrivateInputs
  <2>2. PICK o \in OperationIDs : o = Held(w).opID
    BY <2>1, Typed, Zenon DEF Inv, Intent
  <2> QED
    BY <1>3, <2>2, StatusStep, Zenon DEF ContinuePrivateInputs, Running
<1> QED
  BY <1>1, <1>2, <1>3, Zenon

\* An Operation ends: it leaves its Resource idle, in error, or gone.
LEMMA RunInv ==
  ASSUME Inv, NEW o \in OperationIDs, HostRun(o)
  PROVE  Inv'
<1> DEFINE u == operation[o].uid
<1>1. /\ TypeOK /\ Shared /\ operation \in [OperationIDs -> HostOperation]
      /\ resource \in [UIDs -> HostResource] /\ HostIsSound
  BY Zenon DEF Inv, TypeOK, Shared
<1>2. /\ operation[o].status = "running" /\ operation[o] \in HostOperation /\ operation[o].key # None
      /\ u \in UIDs /\ resource[u].op = o /\ u \in Live /\ \A v \in Live : v = u
  BY <1>1, StartedIs DEF HostRun, Running, HostIsSound
<1>3. PICK status \in {"succeeded", "failed"} :
        /\ operation' = [operation EXCEPT ![o].status = status]
        /\ resource' = [resource EXCEPT ![u] =
             IF status = "failed" THEN [@ EXCEPT !.phase = "error"]
               ELSE IF operation[o].request.action = "delete" THEN [NoResource EXCEPT !.life = "gone"]
               ELSE [@ EXCEPT !.phase = "idle"]]
  BY Zenon DEF HostRun
<1>4. UNCHANGED <<snapshot, tf, call, net, sent>>
  BY Zenon DEF HostRun
<1> DEFINE gone == status = "succeeded" /\ operation[o].request.action = "delete"
<1>5. /\ operation' \in [OperationIDs -> HostOperation]
      /\ operation'[o].status = status
      /\ \A p \in OperationIDs :
           /\ operation'[p].key = operation[p].key /\ operation'[p].request = operation[p].request
           /\ operation'[p].uid = operation[p].uid /\ operation'[p].generation = operation[p].generation
           /\ p # o => operation'[p] = operation[p]
  <2>1. [operation[o] EXCEPT !.status = status] \in HostOperation
    BY <1>2, Zenon DEF HostOperation
  <2>2. operation'[o] = [operation[o] EXCEPT !.status = status]
    BY <1>1, <1>3, Zenon
  <2>3. operation' \in [OperationIDs -> HostOperation] /\ \A p \in OperationIDs : p # o => operation'[p] = operation[p]
    BY <1>1, <1>3, <2>1, Zenon
  <2>4. /\ operation'[o].key = operation[o].key /\ operation'[o].request = operation[o].request
        /\ operation'[o].uid = operation[o].uid /\ operation'[o].generation = operation[o].generation
        /\ operation'[o].status = status
    BY <1>2, <2>2, Zenon DEF HostOperation
  <2> QED
    BY <2>3, <2>4, Zenon
<1>6. /\ resource' \in [UIDs -> HostResource]
      /\ \A v \in UIDs : v # u => resource'[v] = resource[v]
      /\ gone => resource'[u].life = "gone" /\ resource'[u].op = None
      /\ ~ gone => /\ resource'[u].life = "live" /\ resource'[u].op = o
                   /\ resource'[u].form = resource[u].form
                   /\ resource'[u].generation = resource[u].generation
                   /\ resource'[u].phase = IF status = "failed" THEN "error" ELSE "idle"
  <2>1. resource[u] \in HostResource /\ resource[u].life = "live"
    BY <1>1, <1>2, Zenon DEF Live
  <2>2. CASE gone
    <3>1. resource'[u] = [NoResource EXCEPT !.life = "gone"] /\ resource' = [resource EXCEPT ![u] = [NoResource EXCEPT !.life = "gone"]]
      BY <1>1, <1>2, <1>3, <2>2, Zenon
    <3>2. [NoResource EXCEPT !.life = "gone"] \in HostResource
      BY BoundsAssumption DEF NoResource, HostResource
    <3> QED
      BY <1>1, <1>2, <2>2, <3>1, <3>2, Zenon DEF NoResource
  <2>3. CASE ~ gone
    <3> DEFINE ph == IF status = "failed" THEN "error" ELSE "idle"
    <3>1. resource' = [resource EXCEPT ![u] = [resource[u] EXCEPT !.phase = ph]]
      BY <1>1, <1>2, <1>3, <2>3, Zenon
    <3>2. [resource[u] EXCEPT !.phase = ph] \in HostResource
      BY <2>1, Zenon DEF HostResource
    <3>3. resource'[u] = [resource[u] EXCEPT !.phase = ph]
      BY <1>1, <1>2, <3>1, Zenon
    <3>4. resource' \in [UIDs -> HostResource] /\ \A v \in UIDs : v # u => resource'[v] = resource[v]
      BY <1>1, <1>2, <3>1, <3>2, Zenon
    <3>5. /\ resource'[u].life = "live" /\ resource'[u].op = o /\ resource'[u].form = resource[u].form
          /\ resource'[u].generation = resource[u].generation /\ resource'[u].phase = ph
      BY <1>2, <2>1, <3>3, Zenon DEF HostResource
    <3> QED
      BY <2>3, <3>4, <3>5, Zenon
  <2> QED
    BY <2>2, <2>3, Zenon
<1> HIDE DEF gone
<1>7. TypeOK'
  BY <1>1, <1>4, <1>5, <1>6, Zenon DEF TypeOK
<1>8. /\ N' = N /\ (\A j : Rec(j)' = Rec(j)) /\ \A k, r : Recorded(k, r)' <=> Recorded(k, r)
      /\ Live' \subseteq Live /\ (gone => Live' = {}) /\ (~ gone => Live' = Live)
  <2>1. N' = N /\ (\A j : Rec(j)' = Rec(j)) /\ \A k, r : Recorded(k, r)' <=> Recorded(k, r)
    BY <1>4, Zenon DEF N, Rec, Recorded
  <2>2. Live' \subseteq Live /\ (gone => Live' = {}) /\ (~ gone => Live' = Live)
    BY <1>2, <1>6 DEF Live
  <2> QED
    BY <2>1, <2>2, Zenon
<1>9. ASSUME NEW p \in OperationIDs, p # o, operation[p].uid \in UIDs, resource[operation[p].uid].op = p
      PROVE  operation[p].uid # u /\ resource'[operation[p].uid] = resource[operation[p].uid]
  BY <1>2, <1>6, <1>9, Zenon
<1>10. ASSUME NEW p \in OperationIDs, NEW st \in {"succeeded", "failed"}, operation[p].uid \in UIDs, Left(p, st)
       PROVE  Left(p, st)'
  <2>1. p # o
    BY <1>2, <1>10, Zenon DEF Left
  <2>2. resource[operation[p].uid].op = p /\ ~ (st = "succeeded" /\ operation[p].request.action = "delete")
    BY <1>2, <1>10, Zenon DEF Left
  <2> QED
    BY <1>5, <1>9, <1>10, <2>1, <2>2 DEF Left
<1>11. \A p \in OperationIDs : operation[p].key # None => operation[p].uid \in UIDs
  BY <1>1, Zenon DEF Shared, OperationsAreClaimed
<1>12. \A i \in 1..N : Rec(i) \in Intent /\ Rec(i).id # None /\ Rec(i).id \in Keys
  BY <1>1, Typed, NoneAssumption, SMTT(30) DEF Intent
<1>13. N \in Nat /\ (N > 0 => N \in 1..N)
  BY <1>1, Typed, SMTT(30)
<1>14. HostKeeps
  <2>1. \A p \in OperationIDs : operation[p].key # None =>
          /\ operation'[p].key = operation[p].key
          /\ \A st \in {"succeeded", "failed"} :
               operation[p].status \in {st, "expired"} => operation'[p].status \in {st, "expired"}
    BY <1>2, <1>5, Zenon
  <2>2. \A p \in OperationIDs, st \in {"succeeded", "failed"} :
          N > 0 /\ operation[p].key = Rec(N).id /\ Left(p, st) => Left(p, st)'
    BY <1>10, <1>11, <1>12, <1>13, Zenon
  <2> QED
    BY <2>1, <2>2, Zenon DEF HostKeeps
<1>15. Journal' /\ Requested'
  BY <1>1, <1>4, <1>8, Zenon DEF Shared, Journal, Requested
<1>16. GoneStays'
  <2> SUFFICES ASSUME NEW i \in 1..N, Rec(i).status = "delete-confirmed"
               PROVE  resource'[Rec(i).opUID].life = "gone"
    BY <1>8, Zenon DEF GoneStays
  <2>1. resource[Rec(i).opUID].life = "gone" /\ Rec(i).opUID \in UIDs
    BY <1>1, Stored, Zenon DEF Shared, GoneStays
  <2> QED
    BY <1>2, <1>6, <2>1, Zenon DEF Live
<1>17. RecordsAreLinked' /\ OperationsAreClaimed'
  <2>1. RecordsAreLinked'
    BY <1>1, <1>5, <1>8, <1>12, ZenonT(30) DEF Shared, RecordsAreLinked, Intent
  <2>2. \A p \in OperationIDs : operation[p].status # "unused" => operation'[p].status # "unused"
    BY <1>2, <1>5, Zenon
  <2>3. \A p \in OperationIDs : operation[p] = NoOperation => operation'[p] = NoOperation
    BY <1>2, <1>5, SMTT(30) DEF NoOperation
  <2>4. OperationsAreClaimed'
    BY <1>1, <1>5, <1>8, <2>2, <2>3, SMTT(30) DEF Shared, OperationsAreClaimed
  <2> QED
    BY <2>1, <2>4, Zenon
<1>18. \A v \in UIDs : resource[v].op \in OperationIDs \cup {None}
  BY <1>1, Zenon DEF HostResource
<1>19. HostIsSound'
  <2>1. \A v, x \in Live' : v = x
    BY <1>2, <1>8, Zenon
  <2>2. \A v \in Live' : resource'[v].generation \in 1..MaxGeneration /\ resource'[v].form \in Forms /\ resource'[v].phase # None
    <3> SUFFICES ASSUME NEW v \in Live', v = u, ~ gone
                 PROVE  resource'[v].generation \in 1..MaxGeneration /\ resource'[v].form \in Forms /\ resource'[v].phase # None
      BY <1>2, <1>8, Zenon
    <3> QED
      BY <1>1, <1>2, <1>6, NoneAssumption, Zenon DEF HostIsSound
  <2>3. \A v \in UIDs \ Live' : resource'[v].op = None
    BY <1>1, <1>2, <1>6, <1>8, SMTT(30) DEF HostIsSound
  <2>4. ASSUME NEW v \in UIDs, NEW p \in OperationIDs, p = resource'[v].op, p # None
        PROVE  /\ operation'[p].uid = v /\ operation'[p].generation = resource'[v].generation
               /\ operation'[p].request.form = resource'[v].form
               /\ operation'[p].status \in Running <=> resource'[v].phase = "other"
               /\ operation'[p].status = "succeeded" => resource'[v].phase = "idle"
               /\ operation'[p].status = "failed" => resource'[v].phase = "error"
    <3>1. p = resource[v].op
      BY <1>2, <1>6, <2>4, Zenon
    <3>2. /\ operation[p].uid = v /\ operation[p].generation = resource[v].generation
          /\ operation[p].request.form = resource[v].form
          /\ operation[p].status \in Running <=> resource[v].phase = "other"
          /\ operation[p].status = "succeeded" => resource[v].phase = "idle"
          /\ operation[p].status = "failed" => resource[v].phase = "error"
      BY <1>1, <2>4, <3>1, SMTT(30) DEF HostIsSound
    <3>3. CASE p = o
      <4>1. v = u /\ ~ gone
        BY <1>6, <2>4, <3>2, <3>3, Zenon
      <4>2. /\ operation'[p].uid = v /\ operation'[p].generation = resource'[v].generation
            /\ operation'[p].request.form = resource'[v].form
        BY <1>5, <1>6, <3>2, <3>3, <4>1, ZenonT(60)
      <4>3. operation'[p].status \in Running <=> resource'[v].phase = "other"
        BY <1>5, <1>6, <3>3, <4>1, Zenon DEF Running
      <4>4. /\ operation'[p].status = "succeeded" => resource'[v].phase = "idle"
            /\ operation'[p].status = "failed" => resource'[v].phase = "error"
        BY <1>5, <1>6, <3>3, <4>1, Zenon
      <4> QED
        BY <4>2, <4>3, <4>4, Zenon
    <3>4. CASE p # o
      <4>1. v # u
        BY <1>2, <3>1, <3>4, Zenon
      <4> QED
        BY <1>5, <1>6, <3>2, <3>4, <4>1, Zenon
    <3> QED
      BY <3>3, <3>4, Zenon
  <2>5. \A p \in OperationIDs : operation'[p].status \in Running => resource'[operation'[p].uid].op = p
    <3> SUFFICES ASSUME NEW p \in OperationIDs, operation'[p].status \in Running
                 PROVE  resource'[operation[p].uid].op = p
      BY <1>5, Zenon
    <3>1. p # o /\ operation[p].status \in Running
      BY <1>5, Zenon DEF Running
    <3>2. resource[operation[p].uid].op = p /\ operation[p].uid \in UIDs
      BY <3>1, StartedIs, Zenon DEF Running
    <3> QED
      BY <1>9, <3>1, <3>2, Zenon
  <2>6. \A v \in UIDs : resource'[v].op \in OperationIDs \cup {None}
    BY <1>6, Zenon DEF HostResource
  <2>7. \A v \in UIDs : resource'[v].op # None =>
          /\ operation'[resource'[v].op].uid = v
          /\ operation'[resource'[v].op].generation = resource'[v].generation
          /\ operation'[resource'[v].op].request.form = resource'[v].form
          /\ operation'[resource'[v].op].status \in Running <=> resource'[v].phase = "other"
          /\ operation'[resource'[v].op].status = "succeeded" => resource'[v].phase = "idle"
          /\ operation'[resource'[v].op].status = "failed" => resource'[v].phase = "error"
    BY <2>4, <2>6
  <2> QED
    BY <2>1, <2>2, <2>3, <2>5, <2>7, Zenon DEF HostIsSound
<1>20. NothingBehind'
  <2>1. \A v \in UIDs : resource'[v].op # None => resource'[v].op = resource[v].op
    BY <1>2, <1>6, Zenon
  <2> QED
    BY <1>1, <1>5, <1>8, <1>18, <2>1, SMTT(30) DEF Shared, NothingBehind
<1>21. LatestStands'
  <2> SUFFICES ASSUME NEW p \in OperationIDs, N > 0, operation[p].key = Rec(N).id
               PROVE  \/ resource'[operation[p].uid].op = p
                      \/ operation[p].request.action = "delete" /\ Left(p, "succeeded")'
    BY <1>5, <1>8, ZenonT(60) DEF LatestStands
  <2>1. operation[p].uid \in UIDs
    BY <1>11, <1>12, <1>13, Zenon
  <2>2. resource[operation[p].uid].op = p \/ (operation[p].request.action = "delete" /\ Left(p, "succeeded"))
    BY <1>1, Zenon DEF Shared, LatestStands
  <2>3. CASE p = o /\ gone
    BY <1>5, <1>6, <1>8, <2>3, Zenon DEF Left, gone
  <2>4. CASE p = o /\ ~ gone
    BY <1>6, <2>4, Zenon
  <2>5. CASE p # o
    BY <1>9, <1>10, <2>1, <2>2, <2>5, Zenon
  <2> QED
    BY <2>3, <2>4, <2>5, Zenon
<1>22. SettledStands'
  <2> SUFFICES ASSUME N > 0, Rec(N).status \in Settled
               PROVE  Left(Rec(N).opID, IF Rec(N).status = "failed-reserved" THEN "failed" ELSE "succeeded")'
    BY <1>8, Zenon DEF SettledStands
  <2>1. Rec(N).opID \in OperationIDs /\ operation[Rec(N).opID].key = Rec(N).id
    BY <1>1, <1>12, <1>13, Stored, Zenon DEF Shared, RecordsAreLinked, Settled, Intent
  <2>2. PICK p \in OperationIDs, st \in {"succeeded", "failed"} :
          p = Rec(N).opID /\ st = IF Rec(N).status = "failed-reserved" THEN "failed" ELSE "succeeded"
    BY <2>1, Zenon
  <2>3. Left(p, st)'
    BY <1>1, <1>10, <1>11, <1>12, <1>13, <2>1, <2>2, Zenon DEF Shared, SettledStands
  <2> QED
    BY <1>8, <2>2, <2>3, Zenon
<1>23. Shared'
  BY <1>15, <1>16, <1>17, <1>19, <1>20, <1>21, <1>22, Zenon DEF Shared
<1> QED
  BY <1>4, <1>7, <1>14, <1>23, HostStep, Zenon

=============================================================================
