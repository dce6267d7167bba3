--------------------------- MODULE ProviderProofs ---------------------------
(***************************************************************************)
(* The theorems about ProviderLifecycle: its invariant, for any number of  *)
(* addresses, and what a name that one address has to itself adds.  The    *)
(* steps that start an Operation or write the journal come first.          *)
(***************************************************************************)
EXTENDS AddressLemmas

-----------------------------------------------------------------------------
(* The Host accepts a new request.                                          *)

\* A request the Host does not know yet is the last record's, still unanswered.
LEMMA NewRequestIs ==
  ASSUME Inv, NEW m \in net, Known(m.key) = {}
  PROVE  /\ N \in 1..N /\ Rec(N).id = m.key /\ Rec(N).request = m.request /\ Rec(N).status = "claimed"
         /\ m.key \in Keys /\ m.request \in BeginRequest /\ m.request.generation + 1 \in 1..MaxGeneration
<1>1. TypeOK /\ Shared /\ Journal /\ N \in Nat /\ m \in Message /\ \A i \in 1..N : Rec(i) \in Intent
  BY Typed, Zenon DEF Inv, Shared, TypeOK
<1>2. PICK i \in 1..N : Rec(i).id = m.key /\ Rec(i).request = m.request
  BY <1>1, Zenon DEF Shared, Requested, Recorded
<1>3. Rec(i).opID = None
  <2> SUFFICES ASSUME Rec(i).opID # None PROVE FALSE
    BY Zenon
  <2>1. Rec(i).opID \in OperationIDs /\ operation[Rec(i).opID].key = m.key
    BY <1>1, <1>2, Zenon DEF Shared, RecordsAreLinked, Intent
  <2> QED
    BY <2>1, Zenon DEF Known
<1>4. Rec(i).status = "claimed" /\ validateBegin(Rec(i).request)
  BY <1>1, <1>3, Stored, Zenon
<1>5. i = N
  BY <1>1, <1>4 DEF Journal, Settled
<1>6. m.key \in Keys /\ m.request \in BeginRequest
  BY <1>1, Zenon DEF Message
<1>7. m.request.generation + 1 \in 1..MaxGeneration
  <2>1. m.request.generation \in 0..MaxGeneration /\ m.request.action \in Actions
    BY <1>6, Zenon DEF BeginRequest
  <2>2. m.request.generation < MaxGeneration
    BY <1>2, <1>4, <2>1, BoundsAssumption DEF validateBegin, validExpectedGeneration, Actions
  <2> QED
    BY <2>1, <2>2, BoundsAssumption
<1> QED
  BY <1>2, <1>4, <1>5, <1>6, <1>7, Zenon

\* The Host accepts a request: a new Operation runs on its Resource.
LEMMA AcceptInv ==
  ASSUME Inv, NEW m \in net, HostAccept(m)
  PROVE  Inv'
<1>1. /\ TypeOK /\ Shared /\ Journal /\ HostIsSound /\ operation \in [OperationIDs -> HostOperation]
      /\ resource \in [UIDs -> HostResource] /\ N \in Nat /\ \A i \in 1..N : Rec(i) \in Intent
  BY Typed, Zenon DEF Inv, TypeOK, Shared
<1>2. /\ Known(m.key) = {} /\ net' = net \ {m} /\ UNCHANGED <<snapshot, tf, sent>>
  BY Zenon DEF HostAccept
<1>3. /\ N \in 1..N /\ Rec(N).id = m.key /\ Rec(N).request = m.request /\ Rec(N).status = "claimed"
      /\ m.key \in Keys /\ m.request \in BeginRequest /\ m.request.generation + 1 \in 1..MaxGeneration
  BY <1>2, NewRequestIs, Zenon
<1>4. PICK o \in OperationIDs, u \in UIDs :
       /\ operation[o] = NoOperation
       /\ Accepts(m.request, u)
       /\ operation' = [operation EXCEPT
            ![o] = [key |-> m.key, request |-> m.request, uid |-> u,
                    generation |-> m.request.generation + 1, status |-> "running"]]
       /\ resource' = [resource EXCEPT
            ![u] = [life |-> "live", form |-> m.request.form,
                    generation |-> m.request.generation + 1, phase |-> "other", op |-> o]]
       /\ Answer(m, o)
  BY Zenon DEF HostAccept
<1>5. /\ operation' \in [OperationIDs -> HostOperation]
      /\ operation'[o].key = m.key /\ operation'[o].request = m.request /\ operation'[o].uid = u
      /\ operation'[o].generation = m.request.generation + 1 /\ operation'[o].status = "running"
      /\ \A p \in OperationIDs : p # o => operation'[p] = operation[p]
  <2> DEFINE new == [key |-> m.key, request |-> m.request, uid |-> u,
                     generation |-> m.request.generation + 1, status |-> "running"]
  <2>1. new \in HostOperation
    BY <1>3, BoundsAssumption DEF HostOperation, Requests
  <2>2. operation' = [operation EXCEPT ![o] = new]
    BY <1>4, Zenon
  <2>3. operation'[o] = new /\ \A p \in OperationIDs : p # o => operation'[p] = operation[p]
    BY <1>1, <2>2, Zenon
  <2>4. operation' \in [OperationIDs -> HostOperation]
    BY <1>1, <2>1, <2>2, Zenon
  <2> QED
    BY <2>3, <2>4
<1>6. /\ resource' \in [UIDs -> HostResource]
      /\ resource'[u].life = "live" /\ resource'[u].form = m.request.form /\ resource'[u].op = o
      /\ resource'[u].generation = m.request.generation + 1 /\ resource'[u].phase = "other"
      /\ \A v \in UIDs : v # u => resource'[v] = resource[v]
  <2> DEFINE new == [life |-> "live", form |-> m.request.form,
                     generation |-> m.request.generation + 1, phase |-> "other", op |-> o]
  <2>1. new \in HostResource
    BY <1>3, BoundsAssumption DEF HostResource, BeginRequest
  <2>2. resource' = [resource EXCEPT ![u] = new]
    BY <1>4, Zenon
  <2>3. resource'[u] = new /\ \A v \in UIDs : v # u => resource'[v] = resource[v]
    BY <1>1, <2>2, Zenon
  <2>4. resource' \in [UIDs -> HostResource]
    BY <1>1, <2>1, <2>2, Zenon
  <2> QED
    BY <2>3, <2>4
<1>7. operation[o].key = None /\ operation[o].uid = None /\ \A p \in OperationIDs : operation[p].key # m.key
  BY <1>2, <1>4 DEF NoOperation, Known
<1>8. call' \in [Workers -> CallType]
  BY <1>4, <1>5, AnswerOK, Zenon
<1>9. TypeOK'
  BY <1>1, <1>2, <1>5, <1>6, <1>8, Zenon DEF TypeOK
<1>10. N' = N /\ (\A j : Rec(j)' = Rec(j)) /\ \A k, r : Recorded(k, r)' <=> Recorded(k, r)
  BY <1>2, Zenon DEF N, Rec, Recorded
<1>11. /\ \A v \in Live : v = u
       /\ resource[u].life # "gone" /\ Live' = {u}
       /\ \A p \in OperationIDs : operation[p].status \in Running => operation[p].uid # u
  <2>1. \A p \in OperationIDs : operation[p].status \in Running =>
          /\ resource[operation[p].uid].op = p /\ operation[p].uid \in Live
          /\ resource[operation[p].uid].phase = "other"
    <3> SUFFICES ASSUME NEW p \in OperationIDs, operation[p].status \in Running
                 PROVE  /\ resource[operation[p].uid].op = p /\ operation[p].uid \in Live
                        /\ resource[operation[p].uid].phase = "other"
      BY Zenon
    <3>1. resource[operation[p].uid].op = p /\ operation[p].uid \in Live /\ operation[p].uid \in UIDs
      BY StartedIs, Zenon DEF Running
    <3> QED
      BY <1>1, <3>1, NoneAssumption DEF HostIsSound
  <2>2. CASE m.request.action = "create"
    <3>1. resource[u].life = "unused" /\ Live = {}
      BY <1>4, <2>2, Zenon DEF Accepts, Live
    <3> QED
      BY <1>6, <2>1, <3>1, Zenon DEF Live
  <2>3. CASE m.request.action # "create"
    <3>1. resource[u].life = "live" /\ resource[u].phase # "other"
      BY <1>4, <2>3, Zenon DEF Accepts
    <3>2. u \in Live /\ \A v \in Live : v = u
      BY <1>1, <3>1 DEF HostIsSound, Live
    <3> QED
      BY <1>6, <2>1, <3>1, <3>2, Zenon DEF Live
  <2> QED
    BY <2>2, <2>3, Zenon
<1>12. HostKeeps
  BY <1>3, <1>5, <1>7, Zenon DEF HostKeeps
<1>13. Journal' /\ Requested'
  BY <1>1, <1>2, <1>10, Zenon DEF Shared, Journal, Requested
<1>14. GoneStays'
  <2> SUFFICES ASSUME NEW i \in 1..N, Rec(i).status = "delete-confirmed"
               PROVE  resource'[Rec(i).opUID].life = "gone"
    BY <1>10, Zenon DEF GoneStays
  <2>1. resource[Rec(i).opUID].life = "gone" /\ Rec(i).opUID \in UIDs
    BY <1>1, Stored, Zenon DEF Shared, GoneStays
  <2> QED
    BY <1>6, <1>11, <2>1, Zenon
<1>15. RecordsAreLinked'
  <2> SUFFICES ASSUME NEW i \in 1..N, Rec(i).opID # None
               PROVE  /\ operation'[Rec(i).opID].key = Rec(i).id
                      /\ operation'[Rec(i).opID].uid = Rec(i).opUID
                      /\ operation'[Rec(i).opID].generation = Rec(i).opGeneration
    BY <1>10, Zenon DEF RecordsAreLinked
  <2>1. /\ operation[Rec(i).opID].key = Rec(i).id
        /\ operation[Rec(i).opID].uid = Rec(i).opUID
        /\ operation[Rec(i).opID].generation = Rec(i).opGeneration
        /\ Rec(i).opID \in OperationIDs /\ Rec(i).id # None
    BY <1>1, NoneAssumption, Zenon DEF Shared, RecordsAreLinked, Intent
  <2> QED
    BY <1>5, <1>7, <2>1, Zenon
<1>16. OperationsAreClaimed'
  <2> SUFFICES ASSUME NEW p \in OperationIDs
               PROVE  IF operation'[p].key = None
                        THEN operation'[p] = NoOperation
                        ELSE /\ Recorded(operation'[p].key, operation'[p].request)
                             /\ operation'[p].uid \in UIDs
                             /\ operation'[p].generation = operation'[p].request.generation + 1
                             /\ operation'[p].status # "unused"
                             /\ \A q \in OperationIDs : operation'[q].key = operation'[p].key => q = p
    BY <1>10, Zenon DEF OperationsAreClaimed
  <2>1. CASE p = o
    <3>1. Recorded(m.key, m.request)
      BY <1>3, Zenon DEF Recorded
    <3> QED
      BY <1>3, <1>5, <1>7, <2>1, <3>1, NoneAssumption, ZenonT(60)
  <2>2. CASE p # o
    BY <1>1, <1>5, <1>7, <2>2 DEF Shared, OperationsAreClaimed
  <2> QED
    BY <2>1, <2>2, Zenon
<1>17. HostIsSound'
  <2>1. \A v, x \in Live' : v = x
    BY <1>11, Zenon
  <2>2. \A v \in Live' : resource'[v].generation \in 1..MaxGeneration /\ resource'[v].form \in Forms /\ resource'[v].phase # None
    <3>1. resource'[u].generation \in 1..MaxGeneration
      BY <1>3, <1>6 DEF BeginRequest
    <3>2. resource'[u].form \in Forms /\ resource'[u].phase # None
      BY <1>3, <1>6, NoneAssumption, Zenon DEF BeginRequest
    <3> QED
      BY <1>11, <3>1, <3>2, Zenon
  <2>3. \A v \in UIDs \ Live' : v # u /\ v \notin Live
    BY <1>11, Zenon
  <2>4. \A v \in UIDs \ Live' : resource'[v].op = None
    BY <1>1, <1>6, <2>3 DEF HostIsSound
  <2>5. ASSUME NEW v \in UIDs, NEW p \in OperationIDs, p = resource'[v].op, p # None
        PROVE  /\ operation'[p].uid = v /\ operation'[p].generation = resource'[v].generation
               /\ operation'[p].request.form = resource'[v].form
               /\ operation'[p].status \in Running <=> resource'[v].phase = "other"
               /\ operation'[p].status = "succeeded" => resource'[v].phase = "idle"
               /\ operation'[p].status = "failed" => resource'[v].phase = "error"
    <3>1. v = u /\ p = o
      BY <1>6, <1>11, <2>4, <2>5, Zenon
    <3> QED
      BY <1>5, <1>6, <3>1, Zenon DEF Running
  <2>6. \A p \in OperationIDs : operation'[p].status \in Running => resource'[operation'[p].uid].op = p
    <3> SUFFICES ASSUME NEW p \in OperationIDs, operation'[p].status \in Running
                 PROVE  resource'[operation'[p].uid].op = p
      BY Zenon
    <3>1. CASE p = o
      BY <1>5, <1>6, <3>1, Zenon
    <3>2. CASE p # o
      <4>1. operation[p].status \in Running /\ operation'[p] = operation[p]
        BY <1>5, <3>2, Zenon
      <4>2. operation[p].uid # u /\ resource[operation[p].uid].op = p /\ operation[p].uid \in UIDs
        BY <1>11, <4>1, StartedIs, Zenon DEF Running
      <4> QED
        BY <1>6, <4>1, <4>2, Zenon
    <3> QED
      BY <3>1, <3>2, Zenon
  <2>7. \A v \in UIDs : resource'[v].op \in OperationIDs \cup {None}
    BY <1>6, Zenon DEF HostResource
  <2> QED
    BY <2>1, <2>2, <2>4, <2>5, <2>6, <2>7 DEF HostIsSound
<1>18. NothingBehind'
  <2> SUFFICES ASSUME NEW v \in UIDs, resource'[v].op # None
               PROVE  operation'[resource'[v].op].key = Rec(N).id /\ N > 0
    BY <1>10, Zenon DEF NothingBehind
  <2>1. v = u
    <3>1. v \in Live'
      BY <1>17, Zenon DEF HostIsSound
    <3> QED
      BY <1>11, <3>1, Zenon
  <2> QED
    BY <1>3, <1>5, <1>6, <2>1
<1>19. LatestStands' /\ SettledStands'
  <2>1. \A p \in OperationIDs : operation'[p].key = m.key => p = o
    BY <1>5, <1>7, Zenon
  <2>2. LatestStands'
    BY <1>3, <1>5, <1>6, <1>10, <2>1, Zenon DEF LatestStands
  <2>3. SettledStands'
    BY <1>3, <1>10, Zenon DEF SettledStands, Settled
  <2> QED
    BY <2>2, <2>3, Zenon
<1>20. Shared'
  BY <1>13, <1>14, <1>15, <1>16, <1>17, <1>18, <1>19, Zenon DEF Shared
<1> QED
  BY <1>2, <1>4, <1>5, <1>9, <1>12, <1>20, AnswerOK, HostStep, Zenon

-----------------------------------------------------------------------------
(* Steps that change the journal.                                           *)


-----------------------------------------------------------------------------
(* Steps that change the journal.                                           *)

\* A step that journals and moves the call keeps the invariant when what is shared
\* is sound again, and so is the call.
LEMMA JournalStep ==
  ASSUME Inv, JournalGrows, UNCHANGED <<host, net, sent>>, snapshot' \in Snapshot, Shared',
         NEW w \in Workers, NEW c \in CallType, Enter(w, c),
         CallOK(c)', (c.resp # NoState => Custody(c.resp))', Keeps(c, tf[w])'
  PROVE  Inv'
<1>1. TypeOK /\ Shared /\ \A v \in Workers : AddressOK(call[v], tf[v])
  BY Zenon DEF Inv
<1>2. call' = [call EXCEPT ![w] = c] /\ tf' = tf
  BY Zenon DEF Enter
<1>3. TypeOK'
  BY <1>1, <1>2, Zenon DEF TypeOK, host
<1>4. HostKeeps
  <2>1. resource' = resource /\ operation' = operation
    BY Zenon DEF host
  <2>2. \A o, status : Left(o, status)' <=> Left(o, status)
    BY <2>1, ZenonT(60) DEF Left, Live
  <2> QED
    BY <2>1, <2>2, Zenon DEF HostKeeps
<1>5. ASSUME NEW d \in CallType, NEW t \in States, AddressOK(d, t) PROVE AddressOK(d, t)'
  BY <1>1, <1>4, <1>5, AddressStays, Zenon DEF Shared
<1>6. (tf[w] # NoState => Custody(tf[w]))'
  <2>1. PICK t \in States : t = tf[w] /\ (t # NoState => Custody(t))
    BY AddressHas, Zenon
  <2> QED
    BY <1>1, <1>2, <2>1, CustodyStays, Zenon
<1>7. AddressOK(c, tf[w])'
  BY <1>6, Zenon DEF AddressOK
<1>8. ASSUME NEW v \in Workers PROVE AddressOK(call[v], tf[v])'
  <2>1. CASE v = w
    <3>1. call'[v] = c
      BY <1>1, <1>2, <2>1, Zenon DEF TypeOK
    <3> QED
      BY <1>7, <2>1, <3>1, Zenon
  <2>2. CASE v # w
    <3>1. PICK d \in CallType, t \in States :
            d = call[v] /\ t = tf[v] /\ d = call'[v] /\ t = tf'[v] /\ AddressOK(d, t)
      BY <1>1, <1>2, <2>2, Zenon DEF TypeOK
    <3> QED
      BY <1>5, <3>1, Zenon
  <2> QED
    BY <2>1, <2>2, Zenon
<1> QED
  BY <1>3, <1>8, Zenon DEF Inv

\* Another version of a record takes its place: it keeps what was stored, is
\* linked to the Host's Operation, and settled only as that has left things.
LEMMA ReplaceShared ==
  ASSUME Inv, UNCHANGED <<host, net, sent>>, NEW i \in 1..N, NEW new \in Intent,
         snapshot' = WithRecord(snapshot, i, new),
         new.id = Rec(i).id, new.request = Rec(i).request, validStoredIntent(new),
         i < N => new.status \in Settled,
         Rec(i).opID # None =>
           new.opID = Rec(i).opID /\ new.opUID = Rec(i).opUID /\ new.opGeneration = Rec(i).opGeneration,
         Rec(i).status = "delete-confirmed" => new.status = "delete-confirmed",
         new.opID # None =>
           /\ operation[new.opID].key = new.id /\ operation[new.opID].uid = new.opUID
           /\ operation[new.opID].generation = new.opGeneration,
         i = N /\ new.status \in Settled =>
           Left(new.opID, IF new.status = "failed-reserved" THEN "failed" ELSE "succeeded"),
         new.status = "delete-confirmed" => resource[new.opUID].life = "gone"
  PROVE  snapshot' \in Snapshot /\ JournalGrows /\ Shared'
<1>1. TypeOK /\ Shared /\ snapshot \in Snapshot /\ N \in Nat /\ Len(snapshot.imports) \in Nat
  BY Typed, Zenon DEF Inv
<1>2. i \in 1..Len(snapshot.records)
  BY Zenon DEF N
<1>3. /\ snapshot' \in Snapshot /\ snapshot'.binding = snapshot.binding
      /\ snapshot'.imports = snapshot.imports
      /\ snapshot'.records = [snapshot.records EXCEPT ![i] = new]
      /\ Len(snapshot'.records) = Len(snapshot.records)
  BY <1>1, <1>2, WithRecordType, ZenonT(60)
<1>4. N' = N /\ Rec(i)' = new /\ \A j \in 1..N : j # i => Rec(j)' = Rec(j)
  <2>1. snapshot.records \in Seq(Intent)
    BY <1>1, Zenon DEF Snapshot
  <2>2. \A s \in Seq(Intent) : i \in 1..Len(s) =>
           /\ [s EXCEPT ![i] = new][i] = new
           /\ \A j \in 1..Len(s) : j # i => [s EXCEPT ![i] = new][j] = s[j]
    OBVIOUS
  <2>3. N' = N
    BY <1>3, Zenon DEF N
  <2>4. /\ snapshot'.records[i] = new
        /\ \A j \in 1..Len(snapshot.records) : j # i => snapshot'.records[j] = snapshot.records[j]
    BY <1>2, <1>3, <2>1, <2>2
  <2> QED
    BY <2>3, <2>4, Zenon DEF N, Rec
<1>5. JournalGrows
  BY <1>1, <1>3, <1>4 DEF JournalGrows
<1>6. /\ resource' = resource /\ operation' = operation /\ net' = net /\ sent' = sent
      /\ Live' = Live /\ \A o, status : Left(o, status)' <=> Left(o, status)
  BY ZenonT(60) DEF host, Left, Live
<1>7. /\ \A j \in 1..N : Rec(j)'.id = Rec(j).id /\ Rec(j)'.request = Rec(j).request
      /\ \A k, r : Recorded(k, r) => Recorded(k, r)'
  BY <1>4 DEF Recorded
<1>8. Journal'
  <2>1. Journal
    BY <1>1, Zenon DEF Shared
  <2>2. /\ snapshot'.binding = Slot.hostAPI
        /\ \A j \in 1..N : Rec(j)'.request.target = Slot /\ validStoredIntent(Rec(j)')
        /\ \A j \in 1..N : j < N => Rec(j)'.status \in Settled
        /\ \A j, m \in 1..N : Rec(j)'.id = Rec(m)'.id => j = m
        /\ \A j \in 1..Len(snapshot'.imports) : snapshot'.imports[j].target = Slot
    <3>1. \A j \in 1..N : Rec(j)'.request.target = Slot /\ validStoredIntent(Rec(j)')
      BY <1>4, <1>7, <2>1, Zenon DEF Journal
    <3>2. \A j \in 1..N : j < N => Rec(j)'.status \in Settled
      BY <1>4, <2>1, Zenon DEF Journal
    <3> QED
      BY <1>3, <1>7, <2>1, <3>1, <3>2 DEF Journal
  <2> QED
    BY <1>4, <2>2, Zenon DEF Journal
<1>9. OperationsAreClaimed' /\ Requested'
  BY <1>1, <1>4, <1>6, <1>7, ZenonT(30) DEF Shared, OperationsAreClaimed, Requested
<1>10. RecordsAreLinked' /\ GoneStays'
  BY <1>1, <1>4, <1>6, ZenonT(30) DEF Shared, RecordsAreLinked, GoneStays
<1>11. HostIsSound'
  BY <1>1, <1>6, Zenon DEF Shared, HostIsSound
<1>12. NothingBehind' /\ LatestStands'
  <2>1. /\ N > 0 => Rec(N)'.id = Rec(N).id
        /\ N > 1 => Rec(N - 1)'.id = Rec(N - 1).id
    <3>1. (N > 0 => N \in 1..N) /\ (N > 1 => N - 1 \in 1..N)
      BY <1>1
    <3> QED
      BY <1>4, <1>7, <3>1, Zenon
  <2>2. NothingBehind'
    BY <1>1, <1>4, <1>6, <2>1, Zenon DEF Shared, NothingBehind
  <2>3. LatestStands'
    BY <1>1, <1>4, <1>6, <2>1, Zenon DEF Shared, LatestStands
  <2> QED
    BY <2>2, <2>3, Zenon
<1>13. SettledStands'
  <2>1. N > 0 => N \in 1..N
    BY <1>1
  <2>2. CASE i = N
    BY <1>4, <1>6, <2>2, Zenon DEF SettledStands
  <2>3. CASE i # N
    BY <1>1, <1>4, <1>6, <2>1, <2>3, Zenon DEF Shared, SettledStands
  <2> QED
    BY <2>2, <2>3, Zenon
<1> QED
  BY <1>3, <1>5, <1>8, <1>9, <1>10, <1>11, <1>12, <1>13, Zenon DEF Shared

\* The pending state of a record is a point of the line of custody.
LEMMA PendingOK ==
  ASSUME NEW rec \in Intent, rec.opUID \in UIDs
  PROVE  /\ Pending(rec) \in States /\ Pending(rec) # NoState
         /\ Pending(rec).uid = rec.opUID /\ Pending(rec).generation = rec.opGeneration
<1>1. /\ Pending(rec) \in States
      /\ Pending(rec).uid = rec.opUID /\ Pending(rec).generation = rec.opGeneration
  BY Zenon DEF Pending, State, States, Intent
<1>2. Pending(rec) # NoState
  BY <1>1, NoneAssumption DEF NoState, State
<1> QED
  BY <1>1, <1>2, Zenon

\* The call that goes on with such a record is about the UID of the saved state.
LEMMA PendingCall ==
  ASSUME Inv, NEW w \in Workers, call[w].pc = "await",
         NEW i \in 1..N, Rec(i).id = call[w].id, Rec(i).request = call[w].request,
         NEW rec \in Intent, rec.request = Rec(i).request, rec.opUID \in UIDs,
         rec.request.action # "create" => rec.opUID = rec.request.uid
  PROVE  /\ \E c \in CallType :
              /\ c = Awaited(w, rec)
              /\ c.pc = "finish" /\ c.id = Rec(i).id /\ c.resp = Pending(rec)
              /\ c.reply = None /\ c.resp # NoState
         /\ tf[w] # NoState => rec.opUID = tf[w].uid
<1>1. call[w] \in CallType /\ Keeps(call[w], tf[w])
  BY AddressHas, Zenon
<1>2. Pending(rec) \in States /\ Pending(rec) # NoState
  BY PendingOK, Zenon
<1>3. tf[w] # NoState => rec.opUID = tf[w].uid
  BY <1>1, Zenon DEF Keeps
<1>4. /\ Awaited(w, rec) \in CallType /\ Awaited(w, rec).pc = "finish"
      /\ Awaited(w, rec).id = Rec(i).id /\ Awaited(w, rec).resp = Pending(rec)
      /\ Awaited(w, rec).reply = None
  BY <1>1, <1>2, Zenon DEF Awaited, CallType, Steps
<1> QED
  BY <1>2, <1>3, <1>4, Zenon

\* The acknowledgement is journaled, found there, or refused.
LEMMA AcknowledgeInv ==
  ASSUME Inv, NEW w \in Workers, Acknowledge(w)
  PROVE  Inv'
<1>1. /\ call[w].pc = "await" /\ call[w].reply # None /\ UNCHANGED <<host, net, sent>>
      /\ operation[call[w].reply].status # "expired"
  BY Zenon DEF Acknowledge
<1>2. PICK i \in 1..N, o \in OperationIDs :
        /\ o = call[w].reply /\ findIntent(snapshot, call[w].id) = i
        /\ Rec(i).id = call[w].id /\ Rec(i).request = call[w].request
        /\ operation[o].key = Rec(i).id /\ v2Ack(o) \in OperationAck
  BY <1>1, AnswerIs, Zenon
<1>3. PICK ack \in OperationAck : ack = v2Ack(o)
  BY <1>2, Zenon
<1>4. TypeOK /\ Shared /\ Journal /\ Rec(i) \in Intent /\ N \in Nat /\ snapshot \in Snapshot
  BY AddressHas, Typed, Zenon
<1>5. \/ /\ MayAccept(snapshot, i, ack)
         /\ snapshot' = RecordAccepted(snapshot, i, ack)
         /\ Enter(w, Awaited(w, AcceptedRecord(Rec(i), ack)))
      \/ /\ AcceptReplays(snapshot, i, ack)
         /\ Enter(w, Awaited(w, Rec(i)))
         /\ UNCHANGED snapshot
      \/ /\ Return(w, call[w].resp)
         /\ UNCHANGED snapshot
  BY <1>2, <1>3, Zenon DEF Acknowledge, Awaited
<1>6. CASE /\ MayAccept(snapshot, i, ack)
           /\ snapshot' = RecordAccepted(snapshot, i, ack)
           /\ Enter(w, Awaited(w, AcceptedRecord(Rec(i), ack)))
  <2>1. PICK new \in Intent : new = AcceptedRecord(Rec(i), ack)
    BY <1>4, AcceptedType, Zenon
  <2>2. Rec(i).status = "claimed" /\ validateOperationForIntent(Rec(i), ack)
    BY <1>6, Zenon DEF MayAccept, Rec
  <2>3. i = N /\ Rec(i).opID = None
    <3>1. Rec(i).status \notin Settled
      BY <2>2, Zenon DEF Settled
    <3> QED
      BY <1>4, <2>2, <3>1, Stored, UnsettledIsLast, Zenon
  <2>4. validStoredIntent(new)
    <3>1. i \in 1..Len(snapshot.records) /\ snapshot.records[i] = Rec(i)
      BY Zenon DEF N, Rec
    <3>2. validStoredIntent(snapshot.records[i]) /\ snapshot.records[i] \in Intent
      BY <1>4, <3>1, Zenon DEF Journal
    <3> QED
      BY <1>4, <1>6, <2>1, <3>1, <3>2, AcceptedValid, Zenon
  <2>5. /\ new.id = Rec(i).id /\ new.request = Rec(i).request
        /\ new.status \in {"accepted", "accepted-failed"}
        /\ new.opID = o /\ new.opUID = operation[o].uid /\ new.opGeneration = operation[o].generation
    BY <1>3, <1>4, <2>1 DEF AcceptedRecord, v2Ack, Intent
  <2>6. snapshot' = WithRecord(snapshot, i, new)
    BY <1>6, <2>1, Zenon DEF RecordAccepted, Rec
  <2>7. new.opUID \in UIDs /\ new.opID # None /\ new.opID \in OperationIDs
    BY <1>2, <2>5, OperationIs, NoneAssumption, ZenonT(60)
  <2>8. new.request.action # "create" => new.opUID = new.request.uid
    BY <2>2, <2>5, <1>3, Zenon DEF validateOperationForIntent, v2Ack
  <2>9. snapshot' \in Snapshot /\ JournalGrows /\ Shared'
    <3>1. new.status \notin Settled /\ new.status # "delete-confirmed" /\ Rec(i).status # "delete-confirmed"
      BY <2>2, <2>5, Zenon DEF Settled
    <3>2. ~ (i < N)
      BY <1>4, <2>3
    <3>3. /\ operation[new.opID].key = new.id /\ operation[new.opID].uid = new.opUID
          /\ operation[new.opID].generation = new.opGeneration
      BY <1>2, <2>5, Zenon
    <3> QED
      BY <1>1, <2>1, <2>3, <2>4, <2>5, <2>6, <3>1, <3>2, <3>3, ReplaceShared, Zenon
  <2>10. PICK c \in CallType :
           /\ c = Awaited(w, new) /\ c.pc = "finish" /\ c.id = Rec(i).id /\ c.resp = Pending(new)
           /\ c.reply = None /\ c.resp # NoState
    BY <1>1, <1>2, <2>5, <2>7, <2>8, PendingCall, Zenon
  <2>11. /\ tf' = tf /\ Enter(w, c)
         /\ tf[w] # NoState => new.opUID = tf[w].uid
    BY <1>1, <1>2, <1>6, <2>1, <2>5, <2>7, <2>8, <2>10, PendingCall, ZenonT(60) DEF Enter
  <2>12. i \in 1..N' /\ Rec(i)' = new
    <3>1. i \in 1..Len(snapshot.records) /\ snapshot.records \in Seq(Intent)
      BY <1>4, Typed, Zenon DEF N
    <3>2. snapshot'.records = [snapshot.records EXCEPT ![i] = new]
      BY <1>4, <2>1, <2>6, <3>1, WithRecordType
    <3> QED
      BY <3>1, <3>2 DEF N, Rec
  <2>13. CallOK(c)' /\ Keeps(c, tf[w])'
    BY <2>5, <2>7, <2>10, <2>11, <2>12, Zenon DEF CallOK, Keeps
  <2>14. Custody(c.resp)'
    BY <2>1, <2>7, <2>10, <2>12, PendingOK, Zenon DEF Custody
  <2> QED
    BY <1>1, <2>9, <2>10, <2>11, <2>13, <2>14, JournalStep, Zenon
<1>7. CASE /\ AcceptReplays(snapshot, i, ack)
           /\ Enter(w, Awaited(w, Rec(i)))
           /\ UNCHANGED snapshot
  <2>1. Rec(i).opID # None
    BY <1>4, <1>7, Stored, Zenon DEF AcceptReplays, Rec
  <2>2. Rec(i).opUID \in UIDs /\ (Rec(i).request.action # "create" => Rec(i).opUID = Rec(i).request.uid)
    BY <1>4, <2>1, Stored, Zenon
  <2>3. /\ \E c \in CallType :
             /\ c = Awaited(w, Rec(i)) /\ c.pc = "finish" /\ c.id = Rec(i).id /\ c.resp = Pending(Rec(i))
             /\ c.reply = None /\ c.resp # NoState
        /\ tf[w] # NoState => Rec(i).opUID = tf[w].uid
    <3>1. PICK rec \in Intent : rec = Rec(i)
      BY <1>4, Zenon
    <3> QED
      BY <1>1, <1>2, <2>2, <3>1, PendingCall, ZenonT(60)
  <2>4. PICK c \in CallType :
          /\ c = Awaited(w, Rec(i)) /\ c.pc = "finish" /\ c.id = Rec(i).id /\ c.resp = Pending(Rec(i))
          /\ c.reply = None /\ c.resp # NoState
    BY <2>3, Zenon
  <2>5. Custody(c.resp)
    BY <1>4, <2>1, <2>2, <2>4, PendingOK, Zenon DEF Custody
  <2>6. Enter(w, c) /\ UNCHANGED <<snapshot, host, net, sent>>
    BY <1>1, <1>7, <2>4, Zenon
  <2>7. CallOK(c) /\ Keeps(c, tf[w])
    BY <2>1, <2>3, <2>4, Zenon DEF CallOK, Keeps
  <2> QED
    BY <2>5, <2>6, <2>7, EnterStep, Zenon
<1>8. CASE Return(w, call[w].resp) /\ UNCHANGED snapshot
  BY <1>1, <1>8, ResponseStep, Zenon
<1> QED
  BY <1>5, <1>6, <1>7, <1>8, Zenon

\* The state finish writes: none for a confirmed Delete, else the record's.
LEMMA OutcomeOK ==
  ASSUME NEW rec \in Intent, NEW ack \in OperationAck, sameOperation(rec, ack),
         rec.opUID \in UIDs, ack.status \in {"succeeded", "failed"}
  PROVE  /\ Outcome(rec, ack) \in States
         /\ Outcome(rec, ack) = NoState => SettledStatus(rec, ack) = "delete-confirmed"
         /\ Outcome(rec, ack) # NoState =>
              Outcome(rec, ack).uid = rec.opUID /\ Outcome(rec, ack).generation = rec.opGeneration
         /\ SettledStatus(rec, ack) \in Settled
         /\ SettledStatus(rec, ack) = "failed-reserved" <=> ack.status = "failed"
         /\ SettledStatus(rec, ack) = "delete-confirmed" <=>
              ack.status = "succeeded" /\ rec.request.action = "delete"
<1>1. /\ rec.opUID = ack.uid /\ rec.opGeneration = ack.generation
      /\ rec.request.action = ack.action
  BY Zenon DEF sameOperation
<1>2. /\ SettledStatus(rec, ack) \in Settled
      /\ SettledStatus(rec, ack) = "failed-reserved" <=> ack.status = "failed"
      /\ SettledStatus(rec, ack) = "delete-confirmed" <=>
           ack.status = "succeeded" /\ rec.request.action = "delete"
  BY Zenon DEF SettledStatus, Settled
<1>3. CASE ack.status = "failed"
  BY <1>2, <1>3, PendingOK, Zenon DEF Outcome
<1>4. CASE ack.status # "failed" /\ ack.action = "delete"
  BY <1>1, <1>2, <1>4, BoundsAssumption DEF Outcome, NoState, State, States
<1>5. CASE ack.status # "failed" /\ ack.action # "delete"
  <2>1. Outcome(rec, ack) = State(ack.uid, ack.generation, None, None)
    BY <1>5, Zenon DEF Outcome
  <2>2. /\ Outcome(rec, ack) \in States
        /\ Outcome(rec, ack).uid = rec.opUID /\ Outcome(rec, ack).generation = rec.opGeneration
    BY <1>1, <2>1 DEF State, States, OperationAck
  <2>3. Outcome(rec, ack) # NoState
    BY <2>2, NoneAssumption DEF NoState, State
  <2> QED
    BY <1>2, <2>2, <2>3, Zenon
<1> QED
  BY <1>2, <1>3, <1>4, <1>5, Zenon

\* finish settles its record.
LEMMA SettleInv ==
  ASSUME Inv, NEW w \in Workers, Settle(w)
  PROVE  Inv'
<1>1. call[w].pc = "settle" /\ UNCHANGED <<host, net, sent>>
  BY Zenon DEF Settle
<1>2. /\ TypeOK /\ Shared /\ Journal /\ N \in Nat /\ snapshot \in Snapshot
      /\ call[w] \in CallType /\ CallOK(call[w]) /\ Keeps(call[w], tf[w])
  BY AddressHas, Typed, Zenon
<1>3. PICK ack \in OperationAck, obs \in ResourceObservation :
        ack = call[w].ack /\ obs = call[w].obs
  BY <1>1, <1>2, Zenon DEF CallOK
<1>4. PICK i \in 1..N :
        /\ Rec(i).id = call[w].id /\ Rec(i).opID = ack.id /\ Rec(i).opID # None
        /\ ack.status \in {"succeeded", "failed"}
        /\ i = N => Left(ack.id, ack.status)
  BY <1>1, <1>2, <1>3, Zenon DEF CallOK, Observed
<1>5. findIntent(snapshot, call[w].id) = i /\ Rec(i) \in Intent
  BY <1>2, <1>4, FindIs, Typed, Zenon
<1> DEFINE out == Outcome(Rec(i), ack)
<1>6. \/ /\ \/ MayComplete(snapshot, i, ack, obs) /\ snapshot' = Complete(snapshot, i, ack, obs)
            \/ MayExtend(snapshot, i, ack, obs) /\ snapshot' = Extend(snapshot, i, ack)
         /\ Enter(w, [call[w] EXCEPT !.pc = "return", !.resp = out])
      \/ /\ Return(w, call[w].resp)
         /\ UNCHANGED snapshot
  BY <1>3, <1>5, Zenon DEF Settle
<1>7. CASE /\ \/ MayComplete(snapshot, i, ack, obs) /\ snapshot' = Complete(snapshot, i, ack, obs)
              \/ MayExtend(snapshot, i, ack, obs) /\ snapshot' = Extend(snapshot, i, ack)
           /\ Enter(w, [call[w] EXCEPT !.pc = "return", !.resp = out])
  <2>1. sameOperation(Rec(i), ack)
    BY <1>2, <1>7, SettledRecord, Zenon
  <2>2. PICK new \in Intent :
          snapshot' = WithRecord(snapshot, i, new) /\ SettledVersion(new, Rec(i), ack)
    BY <1>2, <1>7, SettledRecord, Zenon
  <2>3. /\ Rec(i).opUID \in UIDs /\ operation[Rec(i).opID].key = Rec(i).id
        /\ operation[Rec(i).opID].uid = Rec(i).opUID
        /\ operation[Rec(i).opID].generation = Rec(i).opGeneration
        /\ Rec(i).opID \in OperationIDs
    BY <1>2, <1>4, <1>5, Stored, Zenon DEF Shared, RecordsAreLinked, Intent
  <2>4. operation[Rec(i).opID].request = Rec(i).request
    BY <2>3, OperationIs, Zenon
  <2>5. PICK rec \in Intent : rec = Rec(i)
    BY <1>5, Zenon
  <2>6. /\ new.id = rec.id /\ new.request = rec.request
        /\ new.opID = rec.opID /\ new.opUID = rec.opUID /\ new.opGeneration = rec.opGeneration
        /\ validStoredIntent(new) /\ new.status = SettledStatus(rec, ack)
        /\ rec.status \in Settled => new.status = rec.status
    BY <2>2, <2>5, Zenon DEF SettledVersion
  <2>7. PICK s \in States :
          /\ s = out
          /\ s = NoState => SettledStatus(rec, ack) = "delete-confirmed"
          /\ s # NoState => s.uid = rec.opUID /\ s.generation = rec.opGeneration
    BY <1>4, <2>1, <2>3, <2>5, OutcomeOK, Zenon
  <2>8. /\ SettledStatus(rec, ack) \in Settled
        /\ SettledStatus(rec, ack) = "failed-reserved" <=> ack.status = "failed"
        /\ SettledStatus(rec, ack) = "delete-confirmed" <=>
             ack.status = "succeeded" /\ rec.request.action = "delete"
    BY <1>4, <2>1, <2>3, <2>5, OutcomeOK, Zenon
  <2>9. i = N => Left(new.opID, IF new.status = "failed-reserved" THEN "failed" ELSE "succeeded")
    BY <1>4, <2>5, <2>6, <2>8, Zenon
  <2>10. new.status = "delete-confirmed" => resource[new.opUID].life = "gone"
    <3>1. CASE i = N
      BY <1>4, <2>3, <2>4, <2>5, <2>6, <2>8, <3>1 DEF Left
    <3>2. CASE i # N
      <4>1. Rec(i).status \in Settled
        BY <1>2, <3>2, SMTT(30) DEF Journal
      <4> QED
        BY <1>2, <2>5, <2>6, <4>1, Zenon DEF Shared, GoneStays
    <3> QED
      BY <3>1, <3>2, Zenon
  <2>11. snapshot' \in Snapshot /\ JournalGrows /\ Shared'
    BY <1>1, <2>2, <2>3, <2>5, <2>6, <2>8, <2>9, <2>10, ReplaceShared, Zenon DEF Settled
  <2>12. i \in 1..N' /\ Rec(i)' = new
    <3>1. i \in 1..Len(snapshot.records) /\ snapshot.records \in Seq(Intent)
      BY <1>2, Typed, Zenon DEF N
    <3>2. snapshot'.records = [snapshot.records EXCEPT ![i] = new]
      BY <1>2, <2>2, <3>1, WithRecordType
    <3> QED
      BY <3>1, <3>2 DEF N, Rec
  <2>13. [call[w] EXCEPT !.pc = "return", !.resp = s] \in CallType
    BY <1>2, Zenon DEF CallType, Steps
  <2>14. PICK c \in CallType :
           c = [call[w] EXCEPT !.pc = "return", !.resp = s] /\ c.pc = "return" /\ c.resp = s /\ c.reply = None
    BY <1>1, <1>2, <2>13, Zenon DEF CallOK, CallType
  <2>15. Enter(w, c) /\ tf' = tf
    BY <1>7, <2>7, <2>14, Zenon DEF Enter
  <2>16. (c.resp # NoState => Custody(c.resp))'
    BY <1>4, <2>5, <2>6, <2>7, <2>12, <2>14 DEF Custody
  <2>17. tf[w] # NoState => Rec(i).opUID = tf[w].uid
    BY <1>1, <1>2, <1>4, Zenon DEF Keeps, Journal
  <2>18. CallOK(c)' /\ Keeps(c, tf[w])'
    <3>1. CallOK(c)'
      BY <2>14, Zenon DEF CallOK
    <3>2. c.resp = NoState /\ tf[w] # NoState =>
            Rec(i)'.status = "delete-confirmed" /\ Rec(i)'.opID # None /\ Rec(i)'.opUID = tf[w].uid
      BY <1>4, <2>5, <2>6, <2>7, <2>12, <2>14, <2>17, Zenon
    <3>3. Keeps(c, tf[w])'
      BY <2>12, <2>14, <2>15, <3>2, Zenon DEF Keeps
    <3> QED
      BY <3>1, <3>3, Zenon
  <2> QED
    BY <1>1, <2>11, <2>15, <2>16, <2>18, JournalStep, Zenon
<1>8. CASE Return(w, call[w].resp) /\ UNCHANGED snapshot
  BY <1>1, <1>8, ResponseStep, Zenon
<1> QED
  BY <1>6, <1>7, <1>8, Zenon

\* A new claim is a record that decodes.
LEMMA ClaimValid ==
  ASSUME NEW r \in BeginRequest, NEW k \in Keys, validateBegin(r)
  PROVE  validStoredIntent(Claim(r, k))
<1>1. /\ Claim(r, k).request = r /\ Claim(r, k).status = "claimed" /\ Claim(r, k).opID = None
      /\ Claim(r, k).opUID = None /\ Claim(r, k).opGeneration = 0 /\ Claim(r, k).opStatus = None
      /\ Claim(r, k).opEffect = None /\ Claim(r, k).initialRetain = 0 /\ Claim(r, k).retain = 0
      /\ Claim(r, k).resultUID = None /\ Claim(r, k).resultGeneration = 0
      /\ Claim(r, k).observedGeneration = 0
  BY Zenon DEF Claim
<1> QED
  BY <1>1, Zenon DEF validStoredIntent, StatusShape

\* A claim is made when the journal is settled, under a key that is new.
LEMMA ClaimShared ==
  ASSUME Inv, UNCHANGED <<host, net, sent>>, NEW r \in BeginRequest, r.target = Slot, NEW k \in Keys,
         BeginClaims(snapshot, r), findIntent(snapshot, k) = 0, snapshot' = Begin(snapshot, r, k)
  PROVE  /\ snapshot' \in Snapshot /\ JournalGrows /\ Shared'
         /\ N' = N + 1 /\ snapshot'.records[N'] = Claim(r, k)
<1>1. /\ TypeOK /\ Shared /\ Journal /\ snapshot \in Snapshot /\ N \in Nat
      /\ snapshot.records \in Seq(Intent) /\ Len(snapshot.imports) \in Nat
      /\ \A i \in 1..N : Rec(i) \in Intent
  BY Typed, Zenon DEF Inv, Shared
<1>0. PICK n \in Nat : n = N
  BY <1>1, Zenon
<1>2. PICK new \in Intent :
        new = Claim(r, k) /\ new.id = k /\ new.request = r /\ new.status = "claimed" /\ new.opID = None
  BY ClaimType, Zenon DEF Claim
<1>3. snapshot' = WithRecords(snapshot, Append(snapshot.records, new))
  BY <1>2, Zenon DEF Begin
<1>4. Append(snapshot.records, new) \in Seq(Intent)
  BY <1>1
<1>5. /\ snapshot' \in Snapshot /\ snapshot'.binding = snapshot.binding
      /\ snapshot'.imports = snapshot.imports /\ snapshot'.records = Append(snapshot.records, new)
  <2>1. PICK recs \in Seq(Intent) : recs = Append(snapshot.records, new)
    BY <1>4, Zenon
  <2>2. /\ WithRecords(snapshot, recs) \in Snapshot
        /\ WithRecords(snapshot, recs).binding = snapshot.binding
        /\ WithRecords(snapshot, recs).imports = snapshot.imports
        /\ WithRecords(snapshot, recs).records = recs
    BY <1>1, WithRecordsType, Zenon
  <2>3. snapshot' = WithRecords(snapshot, recs)
    BY <1>3, <2>1, Zenon
  <2> QED
    BY <2>1, <2>2, <2>3, Zenon
<1>6. N' = n + 1 /\ Rec(n + 1)' = new /\ \A i \in 1..n : Rec(i)' = Rec(i)
  <2>1. Len(snapshot'.records) = n + 1 /\ snapshot'.records[n + 1] = new
    BY <1>0, <1>1, <1>5 DEF N
  <2>2. \A i \in 1..n : snapshot'.records[i] = snapshot.records[i]
    BY <1>0, <1>1, <1>5 DEF N
  <2> QED
    BY <2>1, <2>2, Zenon DEF N, Rec
<1>7. JournalGrows
  BY <1>0, <1>1, <1>5, <1>6 DEF JournalGrows
<1>8. /\ resource' = resource /\ operation' = operation /\ net' = net /\ sent' = sent
      /\ Live' = Live /\ \A o, status : Left(o, status)' <=> Left(o, status)
  BY Zenon DEF host, Left, Live
<1>9. \A i \in 1..N : Rec(i).status \in Settled /\ Rec(i).id # k
  <2>1. \A i \in 1..N : Rec(i).status \notin Unresolved
    <3>1. History(snapshot, Slot) = 1..N
      BY <1>1, LatestIsLast, Zenon
    <3> QED
      BY <3>1, Zenon DEF BeginClaims, HasUnresolved, Rec
  <2>2. \A i \in 1..N : Rec(i).id # k
    BY <1>1, FindIs, Zenon
  <2> QED
    BY <1>1, <2>1, <2>2, Zenon DEF Intent, Statuses
<1>10. /\ \A o \in OperationIDs : operation[o].key # k
       /\ \A i \in 1..N : /\ Rec(i).opID \in OperationIDs /\ Rec(i).opID # None
                          /\ operation[Rec(i).opID].key = Rec(i).id
  <2>1. \A o \in OperationIDs : operation[o].key # k
    <3> SUFFICES ASSUME NEW o \in OperationIDs, operation[o].key = k PROVE FALSE
      BY Zenon
    <3>1. Recorded(operation[o].key, operation[o].request)
      BY <1>1, NoneAssumption, Zenon DEF Shared, OperationsAreClaimed
    <3> QED
      BY <1>9, <3>1, Zenon DEF Recorded
  <2>2. \A i \in 1..N : Rec(i).opID # None
    BY <1>1, <1>9, Stored, Zenon DEF Settled
  <2> QED
    BY <1>1, <2>1, <2>2, Zenon DEF Shared, RecordsAreLinked, Intent
<1>11. Journal'
  <2>1. validStoredIntent(new)
    BY <1>2, ClaimValid, Zenon DEF BeginClaims
  <2>a. \A i \in 1..(n + 1) : (i \in 1..n /\ Rec(i)' = Rec(i)) \/ (i = n + 1 /\ Rec(i)' = new)
    BY <1>0, <1>6
  <2>b. \A i \in 1..(n + 1) : i < n + 1 => i \in 1..n
    BY <1>0
  <2>2. /\ \A i \in 1..(n + 1) : Rec(i)'.request.target = Slot /\ validStoredIntent(Rec(i)')
        /\ \A i \in 1..(n + 1) : i < n + 1 => Rec(i)'.status \in Settled
    <3>1. \A i \in 1..(n + 1) : Rec(i)'.request.target = Slot /\ validStoredIntent(Rec(i)')
      BY <1>0, <1>1, <1>2, <2>1, <2>a, Zenon DEF Journal
    <3>2. \A i \in 1..(n + 1) : i < n + 1 => Rec(i)'.status \in Settled
      BY <1>0, <1>6, <1>9, <2>b, Zenon
    <3> QED
      BY <3>1, <3>2, Zenon
  <2>3. \A i, j \in 1..(n + 1) : Rec(i)'.id = Rec(j)'.id => i = j
    <3> SUFFICES ASSUME NEW i \in 1..(n + 1), NEW j \in 1..(n + 1), Rec(i)'.id = Rec(j)'.id
                 PROVE  i = j
      BY Zenon
    <3>1. CASE i \in 1..n /\ j \in 1..n
      BY <1>0, <1>1, <1>6, <3>1, Zenon DEF Journal
    <3>2. CASE i = n + 1 /\ j \in 1..n
      BY <1>0, <1>2, <1>6, <1>9, <3>2, Zenon
    <3>3. CASE i \in 1..n /\ j = n + 1
      BY <1>0, <1>2, <1>6, <1>9, <3>3, Zenon
    <3> QED
      BY <2>a, <3>1, <3>2, <3>3, Zenon
  <2> QED
    BY <1>0, <1>1, <1>5, <1>6, <2>2, <2>3, ZenonT(30) DEF Journal
<1>12. OperationsAreClaimed' /\ Requested'
  <2>1. \A kk, rr : Recorded(kk, rr) => Recorded(kk, rr)'
    BY <1>1, <1>7, RecordedStays, Zenon
  <2>2. \A kk : (\E i \in 1..N : Rec(i).id = kk) => (\E i \in 1..N' : Rec(i)'.id = kk)
    BY <1>0, <1>1, <1>6
  <2>3. OperationsAreClaimed'
    BY <1>1, <1>8, <2>1, Zenon DEF Shared, OperationsAreClaimed
  <2>4. Requested'
    BY <1>1, <1>8, <2>1, <2>2, Zenon DEF Shared, Requested
  <2> QED
    BY <2>3, <2>4, Zenon
<1>13. RecordsAreLinked' /\ GoneStays'
  <2>1. \A i \in 1..N' : (i \in 1..N /\ Rec(i)' = Rec(i)) \/ Rec(i)' = new
    BY <1>0, <1>6
  <2>2. RecordsAreLinked'
    BY <1>1, <1>2, <1>8, <2>1, Zenon DEF Shared, RecordsAreLinked
  <2>3. GoneStays'
    BY <1>1, <1>2, <1>8, <2>1, Zenon DEF Shared, GoneStays
  <2> QED
    BY <2>2, <2>3, Zenon
<1>14. HostIsSound'
  BY <1>1, <1>8, ZenonT(60) DEF Shared, HostIsSound
<1>15. NothingBehind'
  <2> SUFFICES ASSUME NEW u \in UIDs, resource[u].op # None
               PROVE  /\ n > 0 /\ operation[resource[u].op].key = Rec(n)'.id
                      /\ \A o \in OperationIDs : operation[o].key # Rec(n + 1)'.id
    <3>1. /\ N' > 0 /\ N' = n + 1 /\ N' - 1 = n
          /\ n > 0 => N' > 1
      BY <1>0, <1>6
    <3> QED
      BY <1>8, <3>1, Zenon DEF NothingBehind
  <2>1. /\ N > 0
        /\ \/ operation[resource[u].op].key = Rec(N).id
           \/ \A o \in OperationIDs : operation[o].key # Rec(N).id
    BY <1>1, Zenon DEF Shared, NothingBehind
  <2>2. N \in 1..N /\ N \in 1..n
    BY <1>0, <1>1, <2>1
  <2>3. operation[resource[u].op].key = Rec(N).id
    BY <1>10, <2>1, <2>2, Zenon
  <2> QED
    BY <1>0, <1>2, <1>6, <1>10, <2>1, <2>2, <2>3, Zenon
<1>16. LatestStands' /\ SettledStands'
  BY <1>0, <1>1, <1>2, <1>6, <1>8, <1>10, Zenon DEF LatestStands, SettledStands, Settled
<1> QED
  BY <1>0, <1>2, <1>5, <1>6, <1>7, <1>11, <1>12, <1>13, <1>14, <1>15, <1>16, Zenon DEF Shared, Rec

\* Begin replays a record of exactly the same request.
LEMMA ReplayIs ==
  ASSUME TypeOK, Journal, NEW r, BeginReplays(snapshot, r)
  PROVE  LoopStop(snapshot, r) \in 1..N /\ Rec(LoopStop(snapshot, r)).request = r
<1> DEFINE I == {i \in History(snapshot, r.target) :
                   \/ Boundary(snapshot.records[i], r)
                   \/ Replays(snapshot.records[i], r)
                   \/ Conflicts(snapshot.records[i], r)}
<1>1. N \in Nat /\ I \in SUBSET (1..N)
  BY Typed, Zenon DEF History, N
<1>2. LoopStop(snapshot, r) = LastOf(I) /\ LoopStop(snapshot, r) # 0
  BY Zenon DEF LoopStop, BeginReplays
<1>3. LastOf(I) \in I
  <2> HIDE DEF I
  <2> QED
    BY <1>1, <1>2, LastOfMax, LastOfZero, Zenon
<1>4. LoopStop(snapshot, r) \in 1..N
  BY <1>1, <1>2, <1>3, Zenon
<1> QED
  BY <1>4, Zenon DEF BeginReplays, Replays, sameRequest, Rec

\* Begin claims, finds the claim of the same request, or refuses.
LEMMA ClaimInv ==
  ASSUME Inv, NEW w \in Workers, ClaimIntent(w)
  PROVE  Inv'
<1>1. call[w].pc = "claim" /\ UNCHANGED <<host, net, sent>>
  BY Zenon DEF ClaimIntent
<1>2. /\ TypeOK /\ Shared /\ Journal /\ N \in Nat /\ \A i \in 1..N : Rec(i) \in Intent
      /\ call[w] \in CallType /\ CallOK(call[w]) /\ Keeps(call[w], tf[w])
  BY AddressHas, Typed, Zenon
<1>3. PICK r \in BeginRequest : r = call[w].request /\ r.target = Slot
  BY <1>1, <1>2, Zenon DEF CallOK
<1>4. call[w].reply = None
  BY <1>1, <1>2, Zenon DEF CallOK
<1>5. ASSUME NEW k \in Keys
      PROVE  \E c \in CallType :
               /\ c = [call[w] EXCEPT !.pc = "send", !.id = k]
               /\ c.pc = "send" /\ c.id = k /\ c.request = r /\ c.reply = None /\ c.resp = call[w].resp
  <2> DEFINE c == [call[w] EXCEPT !.pc = "send", !.id = k]
  <2>1. /\ c \in CallType /\ c.pc = "send" /\ c.id = k /\ c.request = r
        /\ c.reply = None /\ c.resp = call[w].resp
    BY <1>2, <1>3, <1>4, Zenon DEF CallType, Steps
  <2> QED
    BY <2>1, Zenon
<1>6. \/ /\ BeginReplays(snapshot, r)
         /\ Enter(w, [call[w] EXCEPT !.pc = "send", !.id = Rec(LoopStop(snapshot, r)).id])
         /\ UNCHANGED snapshot
      \/ /\ BeginClaims(snapshot, r)
         /\ \E k \in Keys :
              /\ findIntent(snapshot, k) = 0
              /\ snapshot' = Begin(snapshot, r, k)
              /\ Enter(w, [call[w] EXCEPT !.pc = "send", !.id = k])
      \/ /\ Return(w, call[w].resp)
         /\ UNCHANGED snapshot
  BY <1>3, Zenon DEF ClaimIntent
<1>7. CASE /\ BeginReplays(snapshot, r)
           /\ Enter(w, [call[w] EXCEPT !.pc = "send", !.id = Rec(LoopStop(snapshot, r)).id])
           /\ UNCHANGED snapshot
  <2>1. LoopStop(snapshot, r) \in 1..N /\ Rec(LoopStop(snapshot, r)).request = r
    BY <1>2, <1>7, ReplayIs, Zenon
  <2>2. PICK k \in Keys : k = Rec(LoopStop(snapshot, r)).id
    BY <1>2, <2>1, Zenon DEF Intent
  <2>3. PICK c \in CallType :
               /\ c = [call[w] EXCEPT !.pc = "send", !.id = k]
               /\ c.pc = "send" /\ c.id = k /\ c.request = r /\ c.reply = None /\ c.resp = call[w].resp
    BY <1>5, Zenon
  <2>4. CallOK(c)
    BY <2>1, <2>2, <2>3, Zenon DEF CallOK, Recorded
  <2>5. Keeps(c, tf[w])
    BY <1>1, <1>2, <1>3, <2>3, Zenon DEF Keeps
  <2>6. Enter(w, c)
    BY <1>7, <2>2, <2>3, Zenon
  <2> QED
    BY <1>1, <1>7, <2>3, <2>4, <2>5, <2>6, AddressHas, EnterStep, Zenon
<1>8. ASSUME BeginClaims(snapshot, r), NEW k \in Keys, findIntent(snapshot, k) = 0,
             snapshot' = Begin(snapshot, r, k), Enter(w, [call[w] EXCEPT !.pc = "send", !.id = k])
      PROVE  Inv'
  <2>1. /\ snapshot' \in Snapshot /\ JournalGrows /\ Shared'
        /\ N' = N + 1 /\ snapshot'.records[N'] = Claim(r, k)
    BY <1>1, <1>3, <1>8, ClaimShared, Zenon
  <2>2. PICK c \in CallType :
               /\ c = [call[w] EXCEPT !.pc = "send", !.id = k]
               /\ c.pc = "send" /\ c.id = k /\ c.request = r /\ c.reply = None /\ c.resp = call[w].resp
    BY <1>5, Zenon
  <2>3. Enter(w, c) /\ tf' = tf
    BY <1>8, <2>2, Zenon DEF Enter
  <2>4. CallOK(c)'
    <3>1. PICK m \in 1..N' : m = N' /\ Rec(m)'.id = k /\ Rec(m)'.request = r
      BY <1>2, <2>1 DEF Claim, Rec
    <3>2. Recorded(k, r)'
      BY <3>1, Zenon DEF Recorded
    <3> QED
      BY <2>2, <3>2, Zenon DEF CallOK
  <2>5. Keeps(c, tf[w])'
    BY <1>1, <1>2, <1>3, <2>2, <2>3, Zenon DEF Keeps
  <2>6. (c.resp # NoState => Custody(c.resp))'
    BY <1>2, <2>1, <2>2, AddressHas, CustodyStays, Zenon
  <2> QED
    BY <1>1, <2>1, <2>3, <2>4, <2>5, <2>6, JournalStep, Zenon
<1>9. CASE Return(w, call[w].resp) /\ UNCHANGED snapshot
  BY <1>1, <1>9, ResponseStep, Zenon
<1> QED
  BY <1>6, <1>7, <1>8, <1>9, Zenon

\* An import is bound while the journal has no record, found there, or refused.
LEMMA ImportInv ==
  ASSUME Inv, NEW w \in Workers, ImportBind(w)
  PROVE  Inv'
<1>1. call[w].pc = "import" /\ UNCHANGED <<host, net, sent>>
  BY Zenon DEF ImportBind
<1>2. /\ TypeOK /\ Shared /\ Journal /\ snapshot \in Snapshot /\ N \in Nat
      /\ snapshot.imports \in Seq(ImportBinding) /\ Len(snapshot.imports) \in Nat
      /\ call[w] \in CallType /\ CallOK(call[w]) /\ Keeps(call[w], tf[w])
  BY AddressHas, Typed, Zenon
<1>3. PICK seen \in PresentResource : seen = call[w].obs
  BY <1>1, <1>2, Zenon DEF CallOK
<1>4. call[w].reply = None /\ tf[w] = NoState
  BY <1>1, <1>2, Zenon DEF CallOK, Keeps
<1> DEFINE ev == [hostAPI |-> Slot.hostAPI, route |-> seen.route, code |-> seen.code,
                  uid |-> seen.uid, form |-> seen.form, name |-> seen.name,
                  generation |-> seen.generation]
<1>5. PICK b \in ImportBinding :
        b = ImportOf(Slot, ev) /\ b.target = Slot /\ b.uid = seen.uid /\ b.generation = seen.generation
  <2>1. /\ ImportOf(Slot, ev) \in ImportBinding /\ ImportOf(Slot, ev).target = Slot
        /\ ImportOf(Slot, ev).uid = seen.uid /\ ImportOf(Slot, ev).generation = seen.generation
    BY LifecycleAssumption, Zenon DEF ImportOf, ImportBinding, PresentResource
  <2> QED
    BY <2>1, Zenon
<1>6. PICK s \in States :
        s = State(seen.uid, seen.generation, None, None) /\ s.uid = seen.uid /\ s.generation = seen.generation
  <2>1. State(seen.uid, seen.generation, None, None) \in States
    BY DEF State, States, PresentResource
  <2> QED
    BY <2>1, Zenon DEF State
<1>7. PICK c \in CallType :
        /\ c = [call[w] EXCEPT !.pc = "return", !.resp = s]
        /\ c.pc = "return" /\ c.resp = s /\ c.reply = None
  <2> DEFINE c == [call[w] EXCEPT !.pc = "return", !.resp = s]
  <2>1. c \in CallType /\ c.pc = "return" /\ c.resp = s /\ c.reply = None
    BY <1>2, <1>4, Zenon DEF CallType, Steps
  <2> QED
    BY <2>1, Zenon
<1>8. \/ /\ MayImport(snapshot, Slot, seen.uid, FormOf[w], ev)
         /\ snapshot' = BindImportedResource(snapshot, Slot, ev)
         /\ Enter(w, c)
      \/ /\ \E i \in ImportsOf(snapshot, Slot) : snapshot.imports[i] = b
         /\ Enter(w, c)
         /\ UNCHANGED snapshot
      \/ /\ Return(w, NoState)
         /\ UNCHANGED snapshot
  BY <1>3, <1>5, <1>6, <1>7, Zenon DEF ImportBind
<1>9. CASE /\ MayImport(snapshot, Slot, seen.uid, FormOf[w], ev)
           /\ snapshot' = BindImportedResource(snapshot, Slot, ev)
           /\ Enter(w, c)
  <2>1. /\ snapshot'.binding = snapshot.binding /\ snapshot'.records = snapshot.records
        /\ snapshot'.imports = Append(snapshot.imports, b)
    BY <1>5, <1>9, Zenon DEF BindImportedResource
  <2>2. snapshot' \in Snapshot
    <3>1. Append(snapshot.imports, b) \in Seq(ImportBinding)
      BY <1>2
    <3>2. snapshot.records \in Seq(Intent) /\ snapshot.binding \in Hosts \cup {None}
      BY <1>2, Zenon DEF Snapshot
    <3> QED
      BY <1>5, <1>9, <3>1, <3>2, Zenon DEF BindImportedResource, Snapshot
  <2>3. PICK n \in Nat : n = Len(snapshot.imports)
    BY <1>2, Zenon
  <2>4. /\ Len(snapshot'.imports) = n + 1 /\ snapshot'.imports[n + 1] = b
        /\ \A i \in 1..n : snapshot'.imports[i] = snapshot.imports[i]
    BY <1>2, <2>1, <2>3
  <2>5. N' = N /\ \A i : Rec(i)' = Rec(i)
    BY <2>1, Zenon DEF N, Rec
  <2>6. JournalGrows
    BY <1>2, <2>3, <2>4, <2>5 DEF JournalGrows
  <2>7. /\ resource' = resource /\ operation' = operation /\ net' = net /\ sent' = sent
        /\ Live' = Live /\ \A o, status : Left(o, status)' <=> Left(o, status)
    BY <1>1, Zenon DEF host, Left, Live
  <2>8. \A k, r : Recorded(k, r)' <=> Recorded(k, r)
    BY <2>5, Zenon DEF Recorded
  <2>9. Shared'
    <3>1. Journal'
      <4>1. \A i \in 1..(n + 1) : snapshot'.imports[i].target = Slot
        <5>1. \A i \in 1..(n + 1) : i \in 1..n \/ i = n + 1
          BY <2>3
        <5>2. \A i \in 1..n : snapshot.imports[i].target = Slot
          BY <1>2, <2>3, Zenon DEF Journal
        <5> QED
          BY <1>5, <2>4, <5>1, <5>2, Zenon
      <4> QED
        BY <1>2, <2>1, <2>4, <2>5, <4>1, Zenon DEF Journal
    <3>2. OperationsAreClaimed' /\ Requested'
      BY <1>2, <2>5, <2>7, <2>8, Zenon DEF Shared, OperationsAreClaimed, Requested
    <3>3. RecordsAreLinked' /\ GoneStays'
      BY <1>2, <2>5, <2>7, Zenon DEF Shared, RecordsAreLinked, GoneStays
    <3>4. HostIsSound'
      BY <1>2, <2>7, ZenonT(60) DEF Shared, HostIsSound
    <3>5. NothingBehind' /\ LatestStands' /\ SettledStands'
      BY <1>2, <2>5, <2>7, Zenon DEF Shared, NothingBehind, LatestStands, SettledStands
    <3> QED
      BY <3>1, <3>2, <3>3, <3>4, <3>5, Zenon DEF Shared
  <2>10. Custody(s)'
    <3>1. n + 1 \in 1..Len(snapshot'.imports)
      BY <2>4
    <3> QED
      BY <1>5, <1>6, <2>4, <3>1, Zenon DEF Custody
  <2>11. CallOK(c)'
    BY <1>7, Zenon DEF CallOK
  <2>12. Keeps(c, tf[w])'
    BY <1>4, <1>9, Zenon DEF Keeps, Enter
  <2> QED
    BY <1>1, <1>7, <1>9, <2>2, <2>6, <2>9, <2>10, <2>11, <2>12, JournalStep, Zenon
<1>10. CASE /\ \E i \in ImportsOf(snapshot, Slot) : snapshot.imports[i] = b
            /\ Enter(w, c)
            /\ UNCHANGED snapshot
  <2>1. Custody(s)
    BY <1>5, <1>6, <1>10, Zenon DEF Custody, ImportsOf
  <2>2. CallOK(c) /\ Keeps(c, tf[w])
    BY <1>4, <1>7, Zenon DEF CallOK, Keeps
  <2> QED
    BY <1>1, <1>7, <1>10, <2>1, <2>2, EnterStep, Zenon
<1>11. CASE Return(w, NoState) /\ UNCHANGED snapshot
  <2>1. NoState \in States
    BY BoundsAssumption DEF NoState, State, States
  <2> QED
    BY <1>1, <1>11, <2>1, ReturnStep, Zenon
<1> QED
  BY <1>8, <1>9, <1>10, <1>11, Zenon

-----------------------------------------------------------------------------
(* The invariant, and the properties of any number of addresses.            *)


-----------------------------------------------------------------------------
(* The invariant.                                                           *)

\* Initially the journal is empty and nobody has a state.
LEMMA InitInv ==
  ASSUME Init
  PROVE  Inv
<1>1. /\ snapshot = EmptySnapshot(Slot.hostAPI) /\ tf = [w \in Workers |-> NoState]
      /\ call = [w \in Workers |-> Idle] /\ operation = [o \in OperationIDs |-> NoOperation]
      /\ net = {} /\ sent = [k \in Keys |-> 0]
  BY Zenon DEF Init
<1>2. /\ snapshot.binding = Slot.hostAPI /\ snapshot.records = <<>> /\ snapshot.imports = <<>>
      /\ N = 0 /\ Len(snapshot.imports) = 0
  BY <1>1, Zenon DEF EmptySnapshot, N
<1>3. NoState \in States /\ NoOperation \in HostOperation /\ NoResource \in HostResource /\ Idle \in CallType
  BY BoundsAssumption, IdleOK, SMTT(30)
  DEF NoState, State, States, NoOperation, HostOperation, NoResource, HostResource, Requests
<1>4. snapshot \in Snapshot
  <2>1. Slot.hostAPI \in Hosts
    BY LifecycleAssumption, Zenon DEF Target
  <2> QED
    BY <1>1, <2>1 DEF EmptySnapshot, Snapshot
<1>5. /\ resource \in [UIDs -> HostResource]
      /\ \A u \in UIDs : resource[u].op = None
      /\ \A u, v \in Live : u = v
      /\ \A u \in Live : resource[u].generation \in 1..MaxGeneration /\ resource[u].form \in Forms /\ resource[u].phase # None
  <2>1. CASE resource = [u \in UIDs |-> NoResource]
    BY <1>3, <2>1, Zenon DEF NoResource, Live
  <2>2. ASSUME NEW u \in UIDs, NEW f \in Forms,
               resource = [[v \in UIDs |-> NoResource] EXCEPT
                        ![u] = [NoResource EXCEPT !.life = "live", !.form = f,
                                                  !.generation = 1, !.phase = "idle"]]
        PROVE  <1>5
    <3> DEFINE new == [NoResource EXCEPT !.life = "live", !.form = f, !.generation = 1, !.phase = "idle"]
    <3>1. new \in HostResource /\ new.op = None /\ new.generation = 1 /\ new.form = f /\ new.phase = "idle"
      <4>1. PICK a \in HostResource : /\ a = [[NoResource EXCEPT !.life = "live"] EXCEPT !.form = f]
                                      /\ a.life = "live" /\ a.form = f /\ a.op = None
        <5>1. NoResource \in HostResource /\ NoResource.op = None
          BY <1>3, Zenon DEF NoResource
        <5>2. \A r \in HostResource :
                LET a == [[r EXCEPT !.life = "live"] EXCEPT !.form = f]
                IN  a \in HostResource /\ a.life = "live" /\ a.form = f /\ a.op = r.op
          BY Zenon DEF HostResource
        <5> QED
          BY <5>1, <5>2, Zenon
      <4>2. new = [[a EXCEPT !.generation = 1] EXCEPT !.phase = "idle"]
        BY <4>1, Zenon
      <4>3. 1 \in 0..MaxGeneration
        BY BoundsAssumption
      <4> QED
        BY <4>1, <4>2, <4>3, Zenon DEF HostResource
    <3>2. resource[u] = new /\ \A v \in UIDs : v # u => resource[v] = NoResource
      BY <2>2, Zenon
    <3>3. resource \in [UIDs -> HostResource]
      BY <1>3, <2>2, <3>1, Zenon
    <3>4. NoResource.life = "unused" /\ NoResource.op = None
      BY Zenon DEF NoResource
    <3>5. \A v \in Live : v = u
      BY <3>2, <3>4, Zenon DEF Live
    <3> HIDE DEF new
    <3> QED
      BY <3>1, <3>2, <3>3, <3>4, <3>5, BoundsAssumption, NoneAssumption
  <2> QED
    BY <2>1, <2>2, Zenon DEF Init
<1>6. TypeOK
  BY <1>1, <1>3, <1>4, <1>5, Zenon DEF TypeOK
<1>7. \A o \in OperationIDs : operation[o] = NoOperation /\ operation[o].key = None /\ operation[o].status = "unused"
  BY <1>1, Zenon DEF NoOperation
<1>8. Journal /\ RecordsAreLinked /\ GoneStays /\ SettledStands /\ LatestStands
  BY <1>2 DEF Journal, RecordsAreLinked, GoneStays, SettledStands, LatestStands
<1>9. OperationsAreClaimed /\ Requested
  BY <1>1, <1>7 DEF OperationsAreClaimed, Requested
<1>10. HostIsSound
  BY <1>5, <1>7, Zenon DEF HostIsSound, Running, Live
<1>11. NothingBehind
  BY <1>5, Zenon DEF NothingBehind
<1>12. \A w \in Workers : AddressOK(call[w], tf[w])
  BY <1>1, IdleOK, Zenon DEF AddressOK
<1> QED
  BY <1>6, <1>8, <1>9, <1>10, <1>11, <1>12, Zenon DEF Inv, Shared

\* Every step keeps the invariant.
LEMMA NextInv ==
  ASSUME Inv, [Next]_vars
  PROVE  Inv'
<1>1. ASSUME NEW w \in Workers, Advance(w) PROVE Inv'
  BY <1>1, FenceInv, ClaimInv, SendInv, AcknowledgeInv, EndInv, WaitInv, ObserveInv, SettleInv,
     CompletedInv, ImportInv, Zenon
  DEF Advance
<1>2. ASSUME NEW w \in Workers,
             \/ Create(w) \/ Mutate(w) \/ ReadFinishes(w) \/ ReadCompletes(w) \/ ImportRead(w)
             \/ Abort(w) \/ Crash(w)
      PROVE  Inv'
  BY <1>2, CreateInv, MutateInv, ReadInv, ImportReadInv, EndInv, Zenon
<1>3. ASSUME NEW m \in net, HostAccept(m) \/ HostRepeat(m) PROVE Inv'
  BY <1>3, AcceptInv, RepeatInv, Zenon
<1>4. ASSUME NEW o \in OperationIDs, HostRun(o) \/ HostWait(o) \/ HostForget(o) PROVE Inv'
  BY <1>4, RunInv, WaitInv, Zenon
<1>5. CASE UNCHANGED vars
  <2>1. UNCHANGED <<snapshot, host, net, sent>> /\ call' = call /\ tf' = tf
    BY <1>5, Zenon DEF vars, host
  <2>2. CASE Workers = {}
    <3>1. TypeOK'
      BY <2>1, Zenon DEF Inv, TypeOK, host
    <3> QED
      BY <2>1, <2>2, <3>1, SharedAlone, Zenon DEF Inv
  <2>3. ASSUME NEW w \in Workers PROVE Inv'
    <3>1. PICK c \in CallType, s \in States : c = call[w] /\ s = tf[w] /\ AddressOK(c, s)
      BY Zenon DEF Inv, TypeOK
    <3>2. call' = [call EXCEPT ![w] = c] /\ tf' = [tf EXCEPT ![w] = s]
      BY <2>1, <3>1, Zenon DEF Inv, TypeOK
    <3> QED
      BY <2>1, <3>1, <3>2, CallStep, Zenon
  <2> QED
    BY <2>2, <2>3, Zenon
<1> QED
  BY <1>1, <1>2, <1>3, <1>4, <1>5, Zenon DEF Next

\* The inductive invariant of the lifecycle holds for every number of addresses.
THEOREM ProviderInvariant == Spec => []Inv
<1>1. Init => Inv
  BY InitInv, Zenon
<1>2. Inv /\ [Next]_vars => Inv'
  BY NextInv, Zenon
<1> QED
  BY <1>1, <1>2, PTL DEF Spec

\* No mutation takes effect at the Host behind the journal's back, whatever is
\* lost, delayed or repeated, and whoever dies.
THEOREM ProviderNoEffectBehindJournal == Spec => []NoEffectBehindJournal
<1>1. Inv => NoEffectBehindJournal
  BY NothingBehindIs, Zenon
<1> QED
  BY <1>1, ProviderInvariant, PTL

\* What the journal has settled last is what the Host has.
THEOREM ProviderSettledAgreesWithHost == Spec => []SettledAgreesWithHost
<1>1. Inv => SettledAgreesWithHost
  BY SettledStandsIs, Zenon
<1> QED
  BY <1>1, ProviderInvariant, PTL

\* Terraform only ever holds a point of the journal's line of custody.
THEOREM ProviderStateHasCustody == Spec => []StateHasCustody
<1>1. ASSUME Inv PROVE StateHasCustody
  <2>1. /\ History(snapshot, Slot) = 1..N
        /\ ImportsOf(snapshot, Slot) = 1..Len(snapshot.imports)
    BY <1>1, LatestIsLast, Zenon DEF Inv, Shared
  <2>2. \A w \in Workers : tf[w] # NoState => Custody(tf[w])
    BY <1>1, AddressHas, Zenon
  <2> QED
    BY <2>1, <2>2, Zenon DEF StateHasCustody, Custody
<1> QED
  BY <1>1, ProviderInvariant, PTL

\* How a step leaves the saved states: untouched, or that of one address is replaced
\* by the response of its call (a refused import has no state to replace).
Saved ==
  \/ tf' = tf
  \/ \E w \in Workers : call[w].pc \notin {"idle", "import"} /\ tf' = [tf EXCEPT ![w] = call[w].resp]
  \/ \E w \in Workers : call[w].pc = "import" /\ tf' = [tf EXCEPT ![w] = NoState]

\* An address is saved by the end of its call.
LEMMA SavedIs ==
  ASSUME [Next]_vars
  PROVE  Saved
<1>1. ASSUME NEW w \in Workers, Fence(w) PROVE Saved
  BY <1>1, Zenon DEF Fence, Return, Enter, Saved
<1>2. ASSUME NEW w \in Workers, ClaimIntent(w) PROVE Saved
  <2>1. call[w].pc = "claim" /\ (tf' = tf \/ tf' = [tf EXCEPT ![w] = call[w].resp])
    BY <1>2, Zenon DEF ClaimIntent, Return, Enter
  <2> QED
    BY <2>1, Zenon DEF Saved
<1>3. ASSUME NEW w \in Workers, Acknowledge(w) PROVE Saved
  <2>1. call[w].pc = "await" /\ (tf' = tf \/ tf' = [tf EXCEPT ![w] = call[w].resp])
    BY <1>3, Zenon DEF Acknowledge, Return, Enter
  <2> QED
    BY <2>1, Zenon DEF Saved
<1>4. ASSUME NEW w \in Workers, Observe(w) \/ Settle(w) \/ readCompletedOperation(w) PROVE Saved
  <2>1. /\ call[w].pc \in {"finish", "settle", "reread"}
        /\ tf' = tf \/ tf' = [tf EXCEPT ![w] = call[w].resp]
    BY <1>4, Zenon DEF Observe, Settle, readCompletedOperation, Return, Enter
  <2> QED
    BY <2>1, Zenon DEF Saved
<1>5. ASSUME NEW w \in Workers, ImportBind(w) PROVE Saved
  <2>1. call[w].pc = "import" /\ (tf' = tf \/ tf' = [tf EXCEPT ![w] = NoState])
    BY <1>5, Zenon DEF ImportBind, Return, Enter
  <2> QED
    BY <2>1, Zenon DEF Saved
<1>6. ASSUME NEW w \in Workers, NoAnswer(w) \/ Expired(w) \/ Finish(w) \/ Abort(w) PROVE Saved
  BY <1>6, Zenon DEF NoAnswer, Expired, Finish, Abort, Return, Saved
<1>7. ASSUME NEW w \in Workers,
             \/ Send(w) \/ ContinuePrivateInputs(w) \/ Create(w) \/ Mutate(w) \/ ReadFinishes(w)
             \/ ReadCompletes(w) \/ ImportRead(w) \/ Crash(w)
      PROVE  Saved
  <2>1. tf' = tf
    BY <1>7, Zenon DEF Send, ContinuePrivateInputs, Create, Mutate, ReadFinishes, ReadCompletes, ImportRead,
                Crash, Enter
  <2> QED
    BY <2>1, Zenon DEF Saved
<1>8. ASSUME NEW m \in net, HostAccept(m) \/ HostRepeat(m) PROVE Saved
  BY <1>8, Zenon DEF HostAccept, HostRepeat, Saved
<1>9. ASSUME NEW o \in OperationIDs, HostRun(o) \/ HostWait(o) \/ HostForget(o) PROVE Saved
  BY <1>9, Zenon DEF HostRun, HostWait, HostForget, Saved
<1>10. CASE UNCHANGED vars
  BY <1>10, Zenon DEF vars, Saved
<1> QED
  BY <1>1, <1>2, <1>3, <1>4, <1>5, <1>6, <1>7, <1>8, <1>9, <1>10, Zenon DEF Next, Advance

\* Terraform forgets an address only when its Resource is gone and the journal says so.
LEMMA ClearedIs ==
  ASSUME Inv, [Next]_vars, NEW w \in Workers, tf[w] # NoState, tf'[w] = NoState
  PROVE  /\ resource[tf[w].uid].life = "gone"
         /\ \E i \in History(snapshot, Slot) :
              Rec(i).status = "delete-confirmed" /\ Rec(i).opUID = tf[w].uid
<1>1. /\ TypeOK /\ Shared /\ N \in Nat /\ History(snapshot, Slot) = 1..N /\ GoneStays
      /\ tf \in [Workers -> States] /\ Keeps(call[w], tf[w])
  BY LatestIsLast, Typed, Zenon DEF Inv, Shared, TypeOK, AddressOK
<1>2. \A v \in Workers : \A s : tf' = [tf EXCEPT ![v] = s] => v = w
  BY <1>1, Zenon
<1>3. Saved
  BY SavedIs, Zenon
<1>4. \/ call[w].pc \notin {"idle", "import"} /\ call[w].resp = NoState
      \/ call[w].pc = "import"
  BY <1>1, <1>2, <1>3, Zenon DEF Saved
<1>5. call[w].pc = "return" /\ call[w].resp = NoState
  BY <1>1, <1>4, Zenon DEF Keeps
<1>6. PICK i \in 1..N : Rec(i).status = "delete-confirmed" /\ Rec(i).opID # None /\ Rec(i).opUID = tf[w].uid
  BY <1>1, <1>5, Zenon DEF Keeps
<1>7. resource[tf[w].uid].life = "gone"
  BY <1>1, <1>6, Zenon DEF GoneStays
<1> QED
  BY <1>1, <1>6, <1>7, Zenon

\* A state is dropped only after the deletion was confirmed, and the Resource is then
\* gone for good.
THEOREM ProviderClearedOnlyWhenGone == Spec => ClearedOnlyWhenGone
<1>1. Inv /\ [Next]_vars =>
        [\A w \in Workers :
           tf[w] # NoState /\ tf'[w] = NoState =>
             /\ resource[tf[w].uid].life = "gone"
             /\ \E i \in History(snapshot, Slot) :
                  Rec(i).status = "delete-confirmed" /\ Rec(i).opUID = tf[w].uid]_vars
  BY ClearedIs, Zenon
<1> QED
  BY <1>1, ProviderInvariant, PTL DEF Spec, ClearedOnlyWhenGone

-----------------------------------------------------------------------------
(* The properties of one address.                                           *)

\* With one address, its state and its call always fit the journal.
THEOREM AddressInvariant == ASSUME OneAddress PROVE Spec => [](Inv /\ Solo)
<1>1. Init => Inv /\ Solo
  BY InitInv, SoloInit, Zenon
<1>2. Inv /\ Solo /\ [Next]_vars => (Inv /\ Solo)'
  BY NextInv, SoloNext, Zenon
<1> QED
  BY <1>1, <1>2, PTL DEF Spec

\* The pre-ACK claim is halted, whatever crashes and restarts its one address goes
\* through.
THEOREM AddressPreAckIsHalted == ASSUME OneAddress PROVE Spec => []PreAckIsHalted
<1>1. Inv /\ Solo => PreAckIsHalted
  BY HaltedIs, Zenon
<1> QED
  BY <1>1, AddressInvariant, PTL

\* Whatever crashes and lost answers the one address of a name meets, a refresh goes
\* on from the state it is left with, unless the claim has no Operation or the state
\* links to an Operation applied since.
THEOREM AddressRefreshedRecovers == ASSUME OneAddress PROVE Spec => []RefreshedRecovers
<1>1. Inv /\ Solo => RefreshedRecovers
  BY RecoversIs, Zenon
<1> QED
  BY <1>1, AddressInvariant, PTL

=============================================================================
