---------------------------- MODULE AddressLemmas ----------------------------
(***************************************************************************)
(* The lifecycle of a name that one address has to itself: whatever crashes *)
(* and lost answers it meets, its claim is sent once, and its saved state   *)
(* is one a refresh can go on from.                                         *)
(***************************************************************************)
EXTENDS LifecycleLemmas

\* The saved state is the fence of the last intent: Terraform does not know what
\* the intent has led to.  The last alternative is the state that links to an
\* Operation applied since, which Read refuses.
IsFence(s) ==
  LET rec == Rec(N)
  IN  /\ rec.request.action # "create"
      /\ rec.request.uid = s.uid /\ rec.request.generation = s.generation
      /\ \/ s.intent = None /\ rec.request.supersedes = None
         \/ /\ N > 1 /\ s = Pending(Rec(N - 1)) /\ Rec(N - 1).opID # None
            /\ Rec(N - 1).status = "failed-reserved" /\ rec.request.supersedes = s.intent
         \/ N > 1 /\ s.intent = Rec(N - 1).id /\ Rec(N - 1).status = "applied"

\* The saved state is the result of the last intent, or links to its Operation.
IsResult(s) ==
  LET rec == Rec(N)
  IN  \/ rec.opID # None /\ s = Pending(rec)
      \/ rec.status = "applied" /\ s = State(rec.opUID, rec.opGeneration, None, None)

\* Before the first intent the saved state is the imported Resource.
IsImport(w, s) ==
  /\ s.intent = None
  /\ Imported(s.uid, FormOf[w])
  /\ s.uid \in Live /\ resource[s.uid].generation = s.generation

Fits(w, s) ==
  s # NoState => IF N = 0 THEN IsImport(w, s) ELSE IsResult(s) \/ IsFence(s)

\* The intent a call is about to claim is that of the state, as the journal still
\* stands.
Superseded == IF N > 0 /\ Rec(N).status = "failed-reserved" THEN Rec(N).id ELSE None

MayClaim(w, r, s) ==
  IF s = NoState
    THEN ~ Occupied /\ r.action = "create" /\ r.form = FormOf[w]
    ELSE /\ MayMutate(w, s)
         /\ r.action # "create" /\ r.form = FormOf[w]
         /\ r.uid = s.uid /\ r.generation = s.generation /\ r.supersedes = Superseded

\* What the only address of the name knows of it.
Alone(w, c, s) ==
  /\ Fits(w, s) /\ Fits(w, c.resp)
  /\ c.pc \in {"fence", "claim", "send", "await"} => c.resp = s
  /\ c.pc \in {"fence", "claim"} => MayClaim(w, c.request, s)
  /\ c.pc = "send" => sent[c.id] = 0 \/ \A i \in 1..N : Rec(i).id = c.id => Rec(i).status # "claimed"
  /\ c.pc \in {"finish", "settle", "reread"} => N > 0 /\ c.id = Rec(N).id
  /\ c.pc = "reread" => Rec(N).status \in Settled
  /\ c.pc = "import" => c.obs.form = FormOf[w]
  /\ c.pc = "import" /\ N = 0 => c.obs.uid \in Live /\ resource[c.obs.uid].generation = c.obs.generation

OwnForm(w) == \A i \in 1..N : Rec(i).request.form = FormOf[w]

Solo == \A w \in Workers : OwnForm(w) /\ Alone(w, call[w], tf[w])

OneAddress == \A v, w \in Workers : v = w


-----------------------------------------------------------------------------
(* Steps that leave the journal alone.                                      *)

\* What the address knows is about the journal, what was sent, and, before the
\* first intent, the Resources.
LEMMA AloneStays ==
  ASSUME snapshot' = snapshot, N = 0 => resource' = resource, NEW w
  PROVE  /\ N' = N /\ \A i : Rec(i)' = Rec(i)
         /\ OwnForm(w)' <=> OwnForm(w)
         /\ \A s : Fits(w, s)' <=> Fits(w, s)
         /\ \A r, s : MayClaim(w, r, s)' <=> MayClaim(w, r, s)
<1>1. N' = N /\ \A i : Rec(i)' = Rec(i)
  BY Zenon DEF N, Rec
<1>2. /\ \A u, f : Imported(u, f)' <=> Imported(u, f)
      /\ Latest' = Latest
  BY Zenon DEF Imported, Latest
<1>3. \A s : IsResult(s)' <=> IsResult(s)
  BY <1>1, Zenon DEF IsResult
<1>4. \A s : IsFence(s)' <=> IsFence(s)
  BY <1>1, Zenon DEF IsFence
<1>5. N = 0 => \A s : IsImport(w, s)' <=> IsImport(w, s)
  BY <1>2, Zenon DEF IsImport, Live
<1>6. \A s : MayMutate(w, s)' <=> MayMutate(w, s)
  BY <1>1, <1>2, Zenon DEF MayMutate
<1>7. Occupied' <=> Occupied
  BY <1>1, <1>2, Zenon DEF Occupied
<1>8. Superseded' = Superseded
  BY <1>1, Zenon DEF Superseded
<1>9. \A s : Fits(w, s)' <=> Fits(w, s)
  BY <1>1, <1>3, <1>4, <1>5, Zenon DEF Fits
<1>10. \A r, s : MayClaim(w, r, s)' <=> MayClaim(w, r, s)
  BY <1>6, <1>7, <1>8, Zenon DEF MayClaim
<1>11. OwnForm(w)' <=> OwnForm(w)
  BY <1>1, Zenon DEF OwnForm
<1> QED
  BY <1>1, <1>9, <1>10, <1>11, Zenon

\* The one address moves to a call c and a state s that fit the journal.
LEMMA CallAlone ==
  ASSUME OneAddress, Inv, Solo, snapshot' = snapshot, sent' = sent, N = 0 => resource' = resource,
         NEW w \in Workers, NEW c, NEW s, Alone(w, c, s),
         call' = [call EXCEPT ![w] = c], tf' = [tf EXCEPT ![w] = s]
  PROVE  Solo'
<1>1. call'[w] = c /\ tf'[w] = s
  BY Zenon DEF Inv, TypeOK
<1>2. /\ N' = N /\ \A i : Rec(i)' = Rec(i)
      /\ OwnForm(w)' <=> OwnForm(w)
      /\ \A x : Fits(w, x)' <=> Fits(w, x)
      /\ \A r, x : MayClaim(w, r, x)' <=> MayClaim(w, r, x)
  BY AloneStays, Zenon
<1>3. OwnForm(w)'
  BY <1>2, Zenon DEF Solo
<1>4. N = 0 => Live' = Live /\ resource' = resource
  BY Zenon DEF Live
<1>5. Alone(w, c, s)'
  BY <1>2, <1>4, Zenon DEF Alone
<1>6. Alone(w, call[w], tf[w])'
  BY <1>1, <1>5, Zenon
<1> QED
  BY <1>3, <1>6, Zenon DEF OneAddress, Solo

\* The address has no call, or a call that ends.
LEMMA IdleAlone ==
  ASSUME NEW w, NEW s, Fits(w, s)
  PROVE  Alone(w, Idle, s)
<1>1. Idle.pc = "idle" /\ Idle.resp = NoState
  BY Zenon DEF Idle, Call
<1> QED
  BY <1>1, Zenon DEF Alone, Fits

\* The call returns its response, or dies.
LEMMA EndAlone ==
  ASSUME OneAddress, Inv, Solo, UNCHANGED <<snapshot, host, sent>>, NEW w \in Workers,
         \/ Return(w, call[w].resp)
         \/ call' = [call EXCEPT ![w] = Idle] /\ tf' = tf
         \/ Return(w, NoState)
  PROVE  Solo'
<1>1. PICK s : /\ Fits(w, s) /\ call' = [call EXCEPT ![w] = Idle] /\ tf' = [tf EXCEPT ![w] = s]
  <2>1. Fits(w, tf[w]) /\ Fits(w, call[w].resp) /\ Fits(w, NoState)
    BY Zenon DEF Solo, Alone, Fits
  <2>2. tf \in [Workers -> States]
    BY Zenon DEF Inv, TypeOK
  <2>3. tf = [tf EXCEPT ![w] = tf[w]]
    BY <2>2, Zenon
  <2> QED
    BY <2>1, <2>3, Zenon DEF Return
<1>2. Alone(w, Idle, s)
  BY <1>1, IdleAlone, Zenon
<1>3. snapshot' = snapshot /\ sent' = sent /\ resource' = resource
  BY Zenon DEF host
<1> QED
  BY <1>1, <1>2, <1>3, CallAlone, Zenon

\* The call goes on as c.
LEMMA EnterAlone ==
  ASSUME OneAddress, Inv, Solo, UNCHANGED <<snapshot, host, sent>>, NEW w \in Workers,
         NEW c, Enter(w, c), Alone(w, c, tf[w])
  PROVE  Solo'
<1>1. PICK s : s = tf[w]
  BY Zenon
<1>2. tf' = [tf EXCEPT ![w] = s] /\ call' = [call EXCEPT ![w] = c] /\ Alone(w, c, s)
  BY <1>1, Zenon DEF Enter, Inv, TypeOK
<1>3. snapshot' = snapshot /\ sent' = sent /\ resource' = resource
  BY Zenon DEF host
<1> QED
  BY <1>2, <1>3, CallAlone, Zenon

\* The parts of the invariants for one address.
LEMMA AloneHas ==
  ASSUME Inv, Solo, NEW w \in Workers
  PROVE  /\ TypeOK /\ Shared /\ Journal /\ N \in Nat /\ \A i \in 1..N : Rec(i) \in Intent
         /\ Latest = N
         /\ N > 0 => N \in 1..N
         /\ OwnForm(w) /\ Alone(w, call[w], tf[w])
         /\ Fits(w, tf[w]) /\ Fits(w, call[w].resp) /\ Fits(w, NoState)
         /\ call[w] \in CallType
<1>1. TypeOK /\ Shared /\ Journal /\ call[w] \in CallType
  BY AddressHas, Zenon
<1>2. N \in Nat /\ \A i \in 1..N : Rec(i) \in Intent
  BY <1>1, Typed, Zenon
<1>3. Latest = N
  BY <1>1, LatestIsLast, Zenon
<1> QED
  BY <1>1, <1>2, <1>3 DEF Solo, Alone, Fits

\* A call enters at the last record, or on its way to a new claim.
LEMMA CreateAlone ==
  ASSUME OneAddress, Inv, Solo, NEW w \in Workers, Create(w)
  PROVE  Solo'
<1>1. /\ N \in Nat /\ Latest = N
      /\ N > 0 => N \in 1..N
      /\ tf[w] = NoState /\ Fits(w, NoState) /\ UNCHANGED <<snapshot, host, sent>>
  BY AloneHas, Zenon DEF Create
<1>2. ASSUME Occupied, Enter(w, Call("finish", NoRequest, Rec(Latest).id, NoState)) PROVE Solo'
  <2>1. N > 0
    BY <1>1, <1>2 DEF Occupied
  <2>2. PICK c : c = Call("finish", NoRequest, Rec(Latest).id, NoState)
    BY Zenon
  <2>3. c.pc = "finish" /\ c.resp = NoState /\ c.id = Rec(N).id
    BY <1>1, <2>2, Zenon DEF Call
  <2>4. Alone(w, c, tf[w])
    BY <1>1, <2>1, <2>3, Zenon DEF Alone
  <2> QED
    BY <1>1, <1>2, <2>2, <2>4, EnterAlone, Zenon
<1>3. ASSUME NEW p \in Payloads, ~ Occupied,
             Enter(w, Call("claim", Request(w, "create", NoState, None, p), None, NoState))
      PROVE  Solo'
  <2>1. PICK c : c = Call("claim", Request(w, "create", NoState, None, p), None, NoState)
    BY Zenon
  <2>2. /\ c.pc = "claim" /\ c.resp = NoState /\ c.request.action = "create" /\ c.request.form = FormOf[w]
    BY <2>1, Zenon DEF Call, Request
  <2>3. Alone(w, c, tf[w])
    BY <1>1, <1>3, <2>2, Zenon DEF Alone, MayClaim
  <2> QED
    BY <1>1, <1>3, <2>1, <2>3, EnterAlone, Zenon
<1> QED
  BY <1>2, <1>3, Zenon DEF Create

\* Update and Delete start from the saved state, which MayMutate accepts.
LEMMA MutateAlone ==
  ASSUME OneAddress, Inv, Solo, NEW w \in Workers, Mutate(w)
  PROVE  Solo'
<1>1. /\ N \in Nat /\ Latest = N /\ Fits(w, tf[w]) /\ tf[w] # NoState /\ MayMutate(w, tf[w])
      /\ UNCHANGED <<snapshot, host, sent>>
  BY AloneHas, Zenon DEF Mutate
<1>2. PICK a \in {"update", "delete"}, p \in Payloads \cup {None} :
        Enter(w, Call("fence", Request(w, a, tf[w], Superseded, p), None, tf[w]))
  BY <1>1 DEF Mutate, Superseded
<1>3. PICK c : c = Call("fence", Request(w, a, tf[w], Superseded, p), None, tf[w])
  BY Zenon
<1>4. /\ c.pc = "fence" /\ c.resp = tf[w] /\ c.request.action = a /\ c.request.form = FormOf[w]
      /\ c.request.uid = tf[w].uid /\ c.request.generation = tf[w].generation
      /\ c.request.supersedes = Superseded
  BY <1>3, Zenon DEF Call, Request
<1>5. MayClaim(w, c.request, tf[w])
  BY <1>1, <1>4, Zenon DEF MayClaim
<1>6. Alone(w, c, tf[w])
  BY <1>1, <1>4, <1>5, Zenon DEF Alone
<1> QED
  BY <1>1, <1>2, <1>3, <1>6, EnterAlone, Zenon

\* The read before a mutation (requireCurrentHost) leaves the journal and the request alone.
LEMMA FenceAlone ==
  ASSUME OneAddress, Inv, Solo, NEW w \in Workers, Fence(w)
  PROVE  Solo'
<1>1. call[w] \in CallType /\ Alone(w, call[w], tf[w]) /\ UNCHANGED <<snapshot, host, sent>>
  BY AloneHas, Zenon DEF Fence
<1>2. CASE Return(w, call[w].resp)
  BY <1>1, <1>2, EndAlone, Zenon
<1>3. CASE Enter(w, [call[w] EXCEPT !.pc = "claim"])
  <2>1. PICK c : c = [call[w] EXCEPT !.pc = "claim"]
    BY Zenon
  <2>2. c.pc = "claim" /\ c.resp = call[w].resp /\ c.request = call[w].request
    BY <1>1, <2>1, Zenon DEF CallType
  <2>3. Alone(w, c, tf[w])
    BY <1>1, <2>2, Zenon DEF Alone, Fence
  <2> QED
    BY <1>1, <1>3, <2>1, <2>3, EnterAlone, Zenon
<1> QED
  BY <1>2, <1>3, Zenon DEF Fence

\* Read returns the saved state, nothing, or follows the last intent.
LEMMA ReadAlone ==
  ASSUME OneAddress, Inv, Solo, NEW w \in Workers, ReadFinishes(w) \/ ReadCompletes(w)
  PROVE  Solo'
<1>1. /\ N \in Nat /\ Latest = N
      /\ N > 0 => N \in 1..N
      /\ Fits(w, tf[w]) /\ UNCHANGED <<snapshot, host, sent>>
  BY AloneHas, Zenon DEF ReadFinishes, ReadCompletes
<1>2. PICK step \in {"finish", "reread"} :
        /\ N > 0
        /\ step = "reread" => Rec(N).status \in Settled
        /\ Enter(w, Call(step, NoRequest, Rec(Latest).id, tf[w]))
  <2>1. CASE ReadFinishes(w)
    <3>1. N > 0
      BY <1>1, <2>1 DEF ReadFinishes, ReadPath
    <3> QED
      BY <2>1, <3>1, Zenon DEF ReadFinishes
  <2>2. CASE ReadCompletes(w)
    <3>1. N > 0 /\ Rec(N).status \in Settled
      BY <1>1, <2>2 DEF ReadCompletes, ReadPath
    <3> QED
      BY <2>2, <3>1, Zenon DEF ReadCompletes
  <2> QED
    BY <2>1, <2>2, Zenon
<1>3. PICK c : c = Call(step, NoRequest, Rec(Latest).id, tf[w])
  BY Zenon
<1>4. c.pc = step /\ c.resp = tf[w] /\ c.id = Rec(N).id
  BY <1>1, <1>3, Zenon DEF Call
<1>5. Alone(w, c, tf[w])
  BY <1>1, <1>2, <1>4, Zenon DEF Alone
<1> QED
  BY <1>1, <1>2, <1>3, <1>5, EnterAlone, Zenon

\* What import has read is of the configured Form and the Host's own.
LEMMA ImportReadAlone ==
  ASSUME OneAddress, Inv, Solo, NEW w \in Workers, ImportRead(w)
  PROVE  Solo'
<1>1. Fits(w, tf[w]) /\ Fits(w, NoState) /\ tf[w] = NoState /\ UNCHANGED <<snapshot, host, sent>>
  BY AloneHas, Zenon DEF ImportRead
<1>2. PICK u \in UIDs :
        /\ ReadResource(u).code = 200 /\ ReadResource(u).form = FormOf[w]
        /\ Enter(w, [Call("import", NoRequest, None, NoState) EXCEPT !.obs = ReadResource(u)])
  BY Zenon DEF ImportRead
<1> DEFINE c == [Call("import", NoRequest, None, NoState) EXCEPT !.obs = ReadResource(u)]
<1>3. c.pc = "import" /\ c.resp = NoState /\ c.obs = ReadResource(u)
  BY <1>2, Zenon DEF Call
<1>4. ReadResource(u).uid = u /\ u \in Live /\ ReadResource(u).generation = resource[u].generation
  BY <1>2, ReadType DEF ReadResource, Live
<1>5. Alone(w, c, tf[w])
  BY <1>1, <1>2, <1>3, <1>4 DEF Alone
<1> QED
  BY <1>1, <1>2, <1>5, EnterAlone, Zenon

\* What a call is left with when it ends fits the journal.
LEMMA EndsAlone ==
  ASSUME OneAddress, Inv, Solo, NEW w \in Workers,
         Finish(w) \/ NoAnswer(w) \/ Expired(w) \/ Abort(w) \/ Crash(w)
  PROVE  Solo'
<1>1. UNCHANGED <<snapshot, host, sent>>
  BY Zenon DEF Finish, NoAnswer, Expired, Abort, Crash
<1>2. Return(w, call[w].resp) \/ (call' = [call EXCEPT ![w] = Idle] /\ tf' = tf)
  BY Zenon DEF Finish, NoAnswer, Expired, Abort, Crash
<1> QED
  BY <1>1, <1>2, EndAlone, Zenon

\* An Operation that is observed as ended leads to the settlement of the last intent.
LEMMA ObserveAlone ==
  ASSUME OneAddress, Inv, Solo, NEW w \in Workers, Observe(w)
  PROVE  Solo'
<1>1. call[w] \in CallType /\ Alone(w, call[w], tf[w]) /\ UNCHANGED <<snapshot, host, sent>>
  BY AloneHas, Zenon DEF Observe
<1>2. CASE Return(w, call[w].resp)
  BY <1>1, <1>2, EndAlone, Zenon
<1>3. ASSUME NEW ack, NEW obs, Enter(w, [call[w] EXCEPT !.pc = "settle", !.ack = ack, !.obs = obs])
      PROVE  Solo'
  <2>1. PICK c : c = [call[w] EXCEPT !.pc = "settle", !.ack = ack, !.obs = obs]
    BY Zenon
  <2>2. c.pc = "settle" /\ c.resp = call[w].resp /\ c.id = call[w].id
    BY <1>1, <2>1, Zenon DEF CallType
  <2>3. Alone(w, c, tf[w])
    BY <1>1, <2>2, Zenon DEF Alone, Observe
  <2> QED
    BY <1>1, <1>3, <2>1, <2>3, EnterAlone, Zenon
<1> QED
  BY <1>2, <1>3, Zenon DEF Observe

\* A Read that finds the last intent settled goes on from it.
LEMMA CompletedAlone ==
  ASSUME OneAddress, Inv, Solo, NEW w \in Workers, readCompletedOperation(w)
  PROVE  Solo'
<1>1. /\ TypeOK /\ Journal /\ N \in Nat /\ call[w] \in CallType /\ Alone(w, call[w], tf[w])
      /\ UNCHANGED <<snapshot, host, sent>> /\ call[w].pc = "reread"
  BY AloneHas, Zenon DEF readCompletedOperation
<1>2. N > 0 /\ N \in 1..N /\ call[w].id = Rec(N).id /\ Rec(N).status \in Settled
  BY <1>1 DEF Alone
<1>3. Held(w) = Rec(N)
  BY <1>1, <1>2, FindIs, Zenon DEF Held
<1>4. CASE Return(w, call[w].resp)
  BY <1>1, <1>4, EndAlone, Zenon
<1>5. CASE Enter(w, [call[w] EXCEPT !.pc = "return", !.resp = Restored(Held(w))])
  <2>1. PICK c : c = [call[w] EXCEPT !.pc = "return", !.resp = Restored(Held(w))]
    BY Zenon
  <2>2. c.pc = "return" /\ c.resp = Restored(Rec(N))
    BY <1>1, <1>3, <2>1, Zenon DEF CallType
  <2>3. Rec(N).opID # None
    BY <1>1, <1>2, Stored, Zenon DEF Settled
  <2>4. Fits(w, Restored(Rec(N)))
    BY <1>1, <1>2, <2>3 DEF Fits, IsResult, Restored, Settled
  <2>5. Alone(w, c, tf[w])
    BY <1>1, <2>2, <2>4, Zenon DEF Alone
  <2> QED
    BY <1>1, <1>5, <2>1, <2>5, EnterAlone, Zenon
<1> QED
  BY <1>4, <1>5, Zenon DEF readCompletedOperation

\* A claim is sent once.
LEMMA SendAlone ==
  ASSUME OneAddress, Inv, Solo, NEW w \in Workers, Send(w)
  PROVE  Solo'
<1>1. /\ call[w] \in CallType /\ OwnForm(w) /\ Alone(w, call[w], tf[w]) /\ call[w].pc = "send"
      /\ snapshot' = snapshot /\ resource' = resource
  BY AloneHas, Zenon DEF Send, host
<1>2. PICK c, s : c = [call[w] EXCEPT !.pc = "await"] /\ s = tf[w]
  BY Zenon
<1>3. c.pc = "await" /\ c.resp = call[w].resp
  BY <1>1, <1>2, Zenon DEF CallType
<1>4. call'[w] = c /\ tf'[w] = s
  BY <1>2, Zenon DEF Send, Enter, Inv, TypeOK
<1>5. /\ OwnForm(w)' <=> OwnForm(w)
      /\ \A x : Fits(w, x)' <=> Fits(w, x)
  BY <1>1, AloneStays, Zenon
<1>6. Fits(w, s) /\ Fits(w, c.resp) /\ c.resp = s
  BY <1>1, <1>2, <1>3, Zenon DEF Alone
<1>7. Alone(w, c, s)'
  BY <1>3, <1>5, <1>6, Zenon DEF Alone
<1>8. Alone(w, call[w], tf[w])'
  BY <1>4, <1>7, Zenon
<1> QED
  BY <1>1, <1>5, <1>8, Zenon DEF OneAddress, Solo

\* A call changes by an answer to it only.
Answered == \A v \in Workers : call'[v] = call[v] \/ \E o : call'[v] = [call[v] EXCEPT !.reply = o]

\* The Host answers, or works on its own: it has nothing to work on before the
\* first intent.
LEMMA HostAlone ==
  ASSUME OneAddress, Inv, Solo, snapshot' = snapshot, tf' = tf, sent' = sent,
         N = 0 => resource' = resource,
         Answered
  PROVE  Solo'
<1> SUFFICES ASSUME NEW w \in Workers PROVE (OwnForm(w) /\ Alone(w, call[w], tf[w]))'
  BY Zenon DEF Solo
<1>1. call[w] \in CallType /\ OwnForm(w) /\ Alone(w, call[w], tf[w])
  BY AloneHas, Zenon
<1>2. /\ call'[w].pc = call[w].pc /\ call'[w].resp = call[w].resp /\ call'[w].id = call[w].id
      /\ call'[w].request = call[w].request /\ call'[w].obs = call[w].obs
  BY <1>1, Zenon DEF CallType, Answered
<1>3. /\ N' = N /\ \A i : Rec(i)' = Rec(i)
      /\ OwnForm(w)' <=> OwnForm(w)
      /\ \A x : Fits(w, x)' <=> Fits(w, x)
      /\ \A r, x : MayClaim(w, r, x)' <=> MayClaim(w, r, x)
  BY AloneStays, Zenon
<1>4. N = 0 => Live' = Live /\ resource' = resource
  BY Zenon DEF Live
<1>5. PICK c, d, s : c = call[w] /\ d = call'[w] /\ s = tf[w]
  BY Zenon
<1>6. Alone(w, d, s)'
  <2>1. /\ d.pc = c.pc /\ d.resp = c.resp /\ d.id = c.id /\ d.request = c.request /\ d.obs = c.obs
        /\ Alone(w, c, s)
    BY <1>1, <1>2, <1>5, Zenon
  <2>2. Fits(w, s)' /\ Fits(w, d.resp)'
    BY <1>3, <2>1, Zenon DEF Alone
  <2>3. MayClaim(w, d.request, s)' <=> MayClaim(w, c.request, s)
    BY <1>3, <2>1, Zenon
  <2> QED
    BY <1>3, <1>4, <2>1, <2>2, <2>3, Zenon DEF Alone
<1> QED
  BY <1>1, <1>3, <1>5, <1>6, Zenon

\* No step of the Host or the network changes what the address knows.
LEMMA HostStepsAlone ==
  ASSUME OneAddress, Inv, Solo,
         \/ \E m \in net : HostAccept(m) \/ HostRepeat(m)
         \/ \E o \in OperationIDs : HostRun(o) \/ HostWait(o) \/ HostForget(o)
         \/ \E w \in Workers : ContinuePrivateInputs(w)
  PROVE  Solo'
<1>1. call \in [Workers -> CallType] /\ Shared /\ N \in Nat /\ net \subseteq Message
  BY Typed, Zenon DEF Inv, TypeOK
<1>2. ASSUME NEW m \in net, NEW o, Answer(m, o)
      PROVE  Answered
  BY <1>1, <1>2, Zenon DEF Answer, Answered
<1>3. \A m \in net : N > 0
  BY <1>1 DEF Shared, Requested, Recorded
<1>4. \A o \in OperationIDs : operation[o].status = "running" => N > 0
  BY <1>1 DEF Shared, OperationsAreClaimed, Recorded, NoOperation
<1>5. ASSUME NEW m \in net, HostAccept(m) PROVE Solo'
  <2>1. /\ snapshot' = snapshot /\ tf' = tf /\ sent' = sent /\ N > 0
    BY <1>3, <1>5, Zenon DEF HostAccept
  <2>2. PICK o : Answer(m, o)
    BY <1>5, Zenon DEF HostAccept
  <2>3. Answered
    BY <1>2, <2>2, Zenon
  <2> QED
    BY <1>1, <2>1, <2>3, HostAlone
<1>6. ASSUME NEW m \in net, HostRepeat(m) PROVE Solo'
  <2>1. /\ snapshot' = snapshot /\ tf' = tf /\ sent' = sent /\ N > 0
    BY <1>3, <1>6, Zenon DEF HostRepeat
  <2>2. PICK o : Answer(m, o)
    BY <1>6, Zenon DEF HostRepeat
  <2>3. Answered
    BY <1>2, <2>2, Zenon
  <2> QED
    BY <1>1, <2>1, <2>3, HostAlone
<1>7. ASSUME NEW o \in OperationIDs, HostRun(o) PROVE Solo'
  <2>1. snapshot' = snapshot /\ tf' = tf /\ sent' = sent /\ Answered /\ N > 0
    BY <1>4, <1>7, Zenon DEF HostRun, Answered
  <2> QED
    BY <1>1, <2>1, HostAlone
<1>8. CASE \/ \E o \in OperationIDs : HostWait(o) \/ HostForget(o)
           \/ \E w \in Workers : ContinuePrivateInputs(w)
  <2>1. snapshot' = snapshot /\ tf' = tf /\ sent' = sent /\ Answered /\ resource' = resource
    BY <1>8, Zenon DEF HostWait, HostForget, ContinuePrivateInputs, Answered
  <2> QED
    BY <2>1, HostAlone, Zenon
<1> QED
  BY <1>5, <1>6, <1>7, <1>8, Zenon


-----------------------------------------------------------------------------
(* Steps of the journal.                                                    *)

\* A new version of the last record fits the states its predecessor did.
LEMMA FitsUpdated ==
  ASSUME Inv, NEW n \in 1..N, n = N, NEW new \in Intent, snapshot' = WithRecord(snapshot, n, new),
         new.id = Rec(n).id, new.request = Rec(n).request,
         Rec(n).opID # None =>
           new.opID = Rec(n).opID /\ new.opUID = Rec(n).opUID /\ new.opGeneration = Rec(n).opGeneration,
         Rec(n).status = "applied" => new.status = "applied"
  PROVE  /\ N' = n /\ Rec(n)' = new
         /\ \A w : OwnForm(w) => OwnForm(w)'
         /\ \A w, s : Fits(w, s) => Fits(w, s)'
<1>1. /\ TypeOK /\ N \in Nat /\ snapshot.records \in Seq(Intent) /\ Journal
      /\ \A i \in 1..N : Rec(i) \in Intent
  BY Typed, Zenon DEF Inv, Shared
<1>2. snapshot'.records = [snapshot.records EXCEPT ![n] = new]
  BY Zenon DEF WithRecord, WithRecords
<1>3. N' = n /\ Rec(n)' = new /\ \A i \in 1..n : i # n => Rec(i)' = Rec(i)
  BY <1>1, <1>2 DEF N, Rec
<1>4. \A w : OwnForm(w) => OwnForm(w)'
  BY <1>3, Zenon DEF OwnForm
<1>5. \A s : IsResult(s) => IsResult(s)'
  <2> SUFFICES ASSUME NEW s, IsResult(s) PROVE IsResult(s)'
    BY Zenon
  <2>1. Rec(n).opID # None
    BY <1>1, Stored, Zenon DEF IsResult
  <2>2. CASE s = Pending(Rec(n))
    <3>1. s = Pending(new)
      BY <2>1, <2>2, Zenon DEF Pending
    <3> QED
      BY <1>3, <2>1, <3>1, Zenon DEF IsResult
  <2>3. CASE Rec(n).status = "applied" /\ s = State(Rec(n).opUID, Rec(n).opGeneration, None, None)
    <3>1. s = State(new.opUID, new.opGeneration, None, None)
      BY <2>1, <2>3, Zenon
    <3> QED
      BY <1>3, <2>3, <3>1, Zenon DEF IsResult
  <2> QED
    BY <2>2, <2>3, Zenon DEF IsResult
<1>6. \A s : IsFence(s) => IsFence(s)'
  <2>1. n > 1 => n - 1 \in 1..n /\ n - 1 # n
    BY <1>1
  <2>2. N > 1 => Rec(N - 1)' = Rec(N - 1)
    <3>1. ASSUME N > 1 PROVE Rec(N - 1)' = Rec(N - 1)
      <4>1. PICK j \in 1..n : j = n - 1 /\ j # n
        BY <2>1, <3>1, Zenon
      <4>2. Rec(j)' = Rec(j)
        BY <1>3, <4>1, Zenon
      <4> QED
        BY <1>3, <4>1, <4>2, Zenon DEF Rec
    <3> QED
      BY <3>1, Zenon
  <2>3. Rec(N)' = new
    BY <1>3, Zenon DEF Rec
  <2> QED
    BY <1>3, <2>2, <2>3, Zenon DEF IsFence
<1> QED
  BY <1>1, <1>3, <1>4, <1>5, <1>6 DEF Fits

\* A state from which a mutation may go on is the result of the last intent, which
\* the state's own fence is not.
LEMMA MayMutateIs ==
  ASSUME Inv, Solo, NEW w \in Workers, NEW s \in States, s # NoState, Fits(w, s), MayMutate(w, s), N > 0
  PROVE  /\ IsResult(s) /\ Rec(N).opID # None
         /\ Rec(N).status \in {"applied", "failed-reserved"}
         /\ Rec(N).status = "failed-reserved" => s = Pending(Rec(N))
<1>1. /\ TypeOK /\ Journal /\ N \in 1..N /\ Latest = N /\ Rec(N) \in Intent
  BY AloneHas, Zenon
<1>2. /\ Rec(N).status \in {"applied", "failed-reserved"}
      /\ Rec(N).status = "applied" => Rec(N).resultGeneration = s.generation
      /\ Rec(N).status = "failed-reserved" => Rec(N).observedGeneration = s.generation
  BY <1>1 DEF MayMutate
<1>3. Rec(N).opID # None
  BY <1>1, <1>2, Stored, Zenon
<1>4. s.generation = Rec(N).request.generation + 1 /\ Rec(N).request.generation \in Nat
  <2>1. Rec(N).request.generation \in Nat
    BY <1>1, BoundsAssumption DEF Intent, BeginRequest
  <2> QED
    BY <1>1, <1>2, <1>3, <2>1, Stored, Zenon
<1>5. ~ IsFence(s)
  BY <1>4 DEF IsFence
<1>6. IsResult(s)
  BY <1>1, <1>5 DEF Fits
<1> QED
  BY <1>2, <1>3, <1>6, Zenon DEF IsResult

\* A new claim is the fence of the state it was made from.
LEMMA ClaimFits ==
  ASSUME Inv, Solo, NEW w \in Workers, NEW s \in States, s # NoState, Fits(w, s),
         NEW r \in BeginRequest, NEW k \in Keys, MayClaim(w, r, s), snapshot' = Begin(snapshot, r, k)
  PROVE  Fits(w, s)'
<1>1. /\ TypeOK /\ Journal /\ N \in Nat /\ Latest = N /\ snapshot.records \in Seq(Intent)
  BY AloneHas, Typed, Zenon
<1>2. PICK n \in Nat : n = N
  BY <1>1, Zenon
<1>3. snapshot'.records = Append(snapshot.records, Claim(r, k))
  BY Zenon DEF Begin, WithRecords
<1>4. PICK new \in Intent : new = Claim(r, k) /\ new.request = r
  BY ClaimType, Zenon DEF Claim
<1>5. N' = n + 1 /\ Rec(N)' = new /\ (n > 0 => Rec(n)' = Rec(n))
  BY <1>1, <1>2, <1>3, <1>4 DEF N, Rec
<1>6. Rec(N - 1)' = Rec(n)'
  <2>1. (n + 1) - 1 = n
    BY <1>2
  <2> QED
    BY <1>5, <2>1, Zenon DEF Rec
<1>7. /\ MayMutate(w, s) /\ r.action # "create" /\ r.uid = s.uid /\ r.generation = s.generation
      /\ r.supersedes = Superseded
  BY Zenon DEF MayClaim
<1>8. CASE n = 0
  <2>1. s.intent = None /\ r.supersedes = None
    BY <1>2, <1>7, <1>8 DEF Fits, IsImport, Superseded
  <2>2. IsFence(s)'
    BY <1>4, <1>5, <1>7, <2>1, Zenon DEF IsFence
  <2> QED
    BY <1>5, <1>8, <2>2 DEF Fits
<1>9. CASE n > 0
  <2>1. /\ IsResult(s) /\ Rec(n).opID # None /\ Rec(n).status \in {"applied", "failed-reserved"}
        /\ Rec(n).status = "failed-reserved" => s = Pending(Rec(n))
    BY <1>2, <1>7, <1>9, MayMutateIs, Zenon
  <2>2. N' > 1 /\ Rec(N - 1)' = Rec(n)
    BY <1>5, <1>6, <1>9
  <2>3. /\ Rec(n).status = "failed-reserved" => r.supersedes = Rec(n).id
        /\ Rec(n).status = "applied" => r.supersedes = None
    BY <1>2, <1>7, <1>9, Zenon DEF Superseded
  <2>4. CASE Rec(n).status = "failed-reserved"
    <3>1. s = Pending(Rec(n)) /\ s.intent = Rec(n).id
      BY <2>1, <2>4 DEF Pending, State
    <3>2. IsFence(s)'
      BY <1>4, <1>5, <1>7, <2>1, <2>2, <2>3, <2>4, <3>1, Zenon DEF IsFence
    <3> QED
      BY <1>5, <1>9, <3>2 DEF Fits
  <2>5. CASE Rec(n).status = "applied" /\ s = Pending(Rec(n))
    <3>1. s.intent = Rec(n).id
      BY <2>5, Zenon DEF Pending, State
    <3>2. IsFence(s)'
      BY <1>4, <1>5, <1>7, <2>2, <2>5, <3>1, Zenon DEF IsFence
    <3> QED
      BY <1>5, <1>9, <3>2 DEF Fits
  <2>6. CASE Rec(n).status = "applied" /\ s = State(Rec(n).opUID, Rec(n).opGeneration, None, None)
    <3>1. s.intent = None
      BY <2>6, Zenon DEF State
    <3>2. IsFence(s)'
      BY <1>4, <1>5, <1>7, <2>3, <2>6, <3>1, Zenon DEF IsFence
    <3> QED
      BY <1>5, <1>9, <3>2 DEF Fits
  <2> QED
    BY <1>2, <2>1, <2>4, <2>5, <2>6, Zenon DEF IsResult
<1> QED
  BY <1>2, <1>8, <1>9

\* Begin replays a settled record at most: the claim that nobody answered stays.
LEMMA ClaimAlone ==
  ASSUME OneAddress, Inv, Solo, NEW w \in Workers, ClaimIntent(w)
  PROVE  Solo'
<1>1. /\ TypeOK /\ Shared /\ Journal /\ N \in Nat /\ Latest = N /\ OwnForm(w)
      /\ call[w] \in CallType /\ tf[w] \in States /\ Alone(w, call[w], tf[w])
      /\ call[w].pc = "claim" /\ CallOK(call[w]) /\ UNCHANGED <<host, net, sent>>
      /\ sent \in [Keys -> Nat] /\ snapshot.records \in Seq(Intent)
  BY AloneHas, AddressHas, Typed, Zenon DEF ClaimIntent, TypeOK
<1>2. PICK r \in BeginRequest : r = call[w].request /\ r.target = Slot
  BY <1>1, Zenon DEF CallOK
<1>3. PICK s \in States : /\ s = tf[w] /\ call[w].resp = s
                          /\ Fits(w, s) /\ MayClaim(w, r, s) /\ r.form = FormOf[w]
  BY <1>1, <1>2, Zenon DEF Alone, MayClaim
<1>4. \A i \in 1..N : Rec(i).status # "claimed"
  <2>1. N > 0 => Rec(N).status # "claimed"
    BY <1>1, <1>3, SMTT(30) DEF MayClaim, Occupied, MayMutate
  <2>2. \A i \in 1..N : i < N => Rec(i).status # "claimed"
    BY <1>1, Zenon DEF Journal, Settled
  <2> QED
    BY <1>1, <2>1, <2>2, SMTT(30)
<1>5. CASE Return(w, call[w].resp) /\ UNCHANGED snapshot
  BY <1>1, <1>5, EndAlone, Zenon
<1>6. ASSUME NEW k, Enter(w, [call[w] EXCEPT !.pc = "send", !.id = k]), UNCHANGED snapshot
      PROVE  Solo'
  <2>1. PICK c : c = [call[w] EXCEPT !.pc = "send", !.id = k]
    BY Zenon
  <2>2. c.pc = "send" /\ c.resp = call[w].resp
    BY <1>1, <2>1, Zenon DEF CallType
  <2>3. Alone(w, c, tf[w])
    BY <1>3, <1>4, <2>2, Zenon DEF Alone
  <2> QED
    BY <1>1, <1>6, <2>1, <2>3, EnterAlone, Zenon
<1>7. ASSUME NEW k \in Keys, findIntent(snapshot, k) = 0, snapshot' = Begin(snapshot, r, k),
             Enter(w, [call[w] EXCEPT !.pc = "send", !.id = k])
      PROVE  Solo'
  <2>1. PICK c : c = [call[w] EXCEPT !.pc = "send", !.id = k]
    BY Zenon
  <2>2. c.pc = "send" /\ c.resp = s /\ c.id = k
    BY <1>1, <1>3, <2>1, Zenon DEF CallType
  <2>3. call'[w] = c /\ tf'[w] = s
    BY <1>1, <1>3, <1>7, <2>1, Zenon DEF Enter, TypeOK
  <2>4. sent'[k] = 0
    <3>1. \A i \in 1..N : Rec(i).id # k
      BY <1>1, <1>7, FindIs, Zenon
    <3>2. sent[k] \in Nat /\ ~ (sent[k] > 0)
      BY <1>1, <3>1, Zenon DEF Shared, Requested
    <3> QED
      BY <1>1, <3>2
  <2>5. Fits(w, s)'
    <3>1. CASE s = NoState
      BY <3>1, Zenon DEF Fits
    <3>2. CASE s # NoState
      BY <1>3, <1>7, <3>2, ClaimFits, Zenon
    <3> QED
      BY <3>1, <3>2, Zenon
  <2>6. OwnForm(w)'
    <3>1. PICK n \in Nat : n = N
      BY <1>1, Zenon
    <3>2. snapshot'.records = Append(snapshot.records, Claim(r, k))
      BY <1>7, Zenon DEF Begin, WithRecords
    <3>3. Claim(r, k) \in Intent /\ Claim(r, k).request = r
      BY <1>7, ClaimType, Zenon DEF Claim
    <3>4. N' = n + 1 /\ Rec(n + 1)' = Claim(r, k) /\ \A i \in 1..n : Rec(i)' = Rec(i)
      BY <1>1, <3>1, <3>2, <3>3 DEF N, Rec
    <3>5. \A i \in 1..(n + 1) : i \in 1..n \/ i = n + 1
      BY <3>1
    <3> QED
      BY <1>1, <1>3, <3>1, <3>3, <3>4, <3>5, Zenon DEF OwnForm
  <2>7. Alone(w, c, s)'
    BY <2>2, <2>4, <2>5, Zenon DEF Alone
  <2>8. Alone(w, call[w], tf[w])'
    BY <2>3, <2>7, Zenon
  <2> QED
    BY <2>6, <2>8, Zenon DEF OneAddress, Solo
<1> QED
  <2>1. \/ \E k : Enter(w, [call[w] EXCEPT !.pc = "send", !.id = k]) /\ UNCHANGED snapshot
        \/ \E k \in Keys : /\ findIntent(snapshot, k) = 0 /\ snapshot' = Begin(snapshot, r, k)
                           /\ Enter(w, [call[w] EXCEPT !.pc = "send", !.id = k])
        \/ Return(w, call[w].resp) /\ UNCHANGED snapshot
    BY <1>2, Zenon DEF ClaimIntent
  <2> QED
    BY <1>5, <1>6, <1>7, <2>1, Zenon

\* The last record is the only one that can be acknowledged.
LEMMA AcknowledgeAlone ==
  ASSUME OneAddress, Inv, Solo, NEW w \in Workers, Acknowledge(w)
  PROVE  Solo'
<1>1. /\ TypeOK /\ Shared /\ Journal /\ N \in Nat /\ \A i \in 1..N : Rec(i) \in Intent
      /\ call[w] \in CallType /\ Alone(w, call[w], tf[w]) /\ OwnForm(w)
      /\ call[w].pc = "await" /\ UNCHANGED <<host, net, sent>>
  BY AloneHas, Zenon DEF Acknowledge
<1>2. PICK i \in 1..N, o \in OperationIDs :
        /\ o = call[w].reply /\ findIntent(snapshot, call[w].id) = i
        /\ Rec(i).id = call[w].id /\ v2Ack(o) \in OperationAck
  BY AnswerIs, Zenon DEF Acknowledge
<1>3. PICK ack \in OperationAck : ack = v2Ack(o)
  BY <1>2, Zenon
<1>4. PICK s : s = tf[w] /\ s = call[w].resp /\ Fits(w, s)
  BY <1>1, Zenon DEF Alone
<1>5. ASSUME NEW rec, NEW c, c = Awaited(w, rec)
      PROVE  c.pc = "finish" /\ c.id = Rec(i).id /\ c.resp = Pending(rec)
  BY <1>1, <1>2, <1>5, Zenon DEF Awaited, CallType
<1>6. CASE Return(w, call[w].resp) /\ UNCHANGED snapshot
  BY <1>1, <1>6, EndAlone, Zenon
<1>7. CASE AcceptReplays(snapshot, i, ack) /\ Enter(w, Awaited(w, Rec(i))) /\ UNCHANGED snapshot
  <2>1. Rec(i).status \in {"accepted", "accepted-failed"}
    BY <1>7, Zenon DEF AcceptReplays, Rec
  <2>2. i = N /\ Rec(N).opID # None /\ N > 0
    <3>1. Rec(i).status \notin Settled /\ Rec(i).status # "claimed"
      BY <2>1, Zenon DEF Settled
    <3> QED
      BY <1>1, <1>2, <3>1, Stored, UnsettledIsLast, Zenon
  <2>3. PICK c : c = Awaited(w, Rec(i))
    BY Zenon
  <2>4. c.pc = "finish" /\ c.id = Rec(N).id /\ c.resp = Pending(Rec(N))
    BY <1>5, <2>2, <2>3, Zenon
  <2>5. Fits(w, Pending(Rec(N)))
    BY <2>2 DEF Fits, IsResult
  <2>6. Alone(w, c, tf[w])
    BY <1>4, <2>2, <2>4, <2>5, Zenon DEF Alone
  <2> QED
    BY <1>1, <1>7, <2>3, <2>6, EnterAlone, Zenon
<1>8. CASE /\ MayAccept(snapshot, i, ack) /\ snapshot' = RecordAccepted(snapshot, i, ack)
           /\ Enter(w, Awaited(w, AcceptedRecord(Rec(i), ack)))
  <2>1. Rec(i).status = "claimed"
    BY <1>8, Zenon DEF MayAccept, Rec
  <2>2. i = N /\ Rec(i).opID = None
    <3>1. Rec(i).status \notin Settled
      BY <2>1, Zenon DEF Settled
    <3> QED
      BY <1>1, <1>2, <2>1, <3>1, Stored, UnsettledIsLast, Zenon
  <2>3. PICK new \in Intent :
          /\ new = AcceptedRecord(Rec(i), ack) /\ new.id = Rec(i).id /\ new.request = Rec(i).request
          /\ new.opID = ack.id
    <3>1. Rec(i) \in Intent
      BY <1>1, Zenon
    <3>2. AcceptedRecord(Rec(i), ack) \in Intent
      BY <3>1, AcceptedType, Zenon
    <3> QED
      BY <3>1, <3>2, AcceptedKeeps, Zenon
  <2>4. snapshot' = WithRecord(snapshot, i, new)
    BY <1>8, <2>3, Zenon DEF RecordAccepted, Rec
  <2>5. /\ N' = i /\ Rec(i)' = new /\ OwnForm(w)' /\ Fits(w, s)'
    BY <1>1, <1>4, <2>1, <2>2, <2>3, <2>4, FitsUpdated, Zenon
  <2>6. PICK c : c = Awaited(w, new)
    BY Zenon
  <2>7. c.pc = "finish" /\ c.id = Rec(i).id /\ c.resp = Pending(new)
    BY <1>5, <2>6, Zenon
  <2>8. new.opID # None
    BY <2>3, NoneAssumption, Zenon DEF OperationAck
  <2>9. Rec(N)' = new
    BY <2>5, Zenon DEF Rec
  <2>10. Fits(w, Pending(new))'
    BY <1>2, <2>5, <2>8, <2>9, SMTT(30) DEF Fits, IsResult
  <2>11. Alone(w, c, s)'
    BY <1>2, <2>3, <2>5, <2>7, <2>9, <2>10, SMTT(30) DEF Alone
  <2>12. call'[w] = c /\ tf'[w] = s
    BY <1>1, <1>4, <1>8, <2>3, <2>6, Zenon DEF Enter, TypeOK
  <2>13. Alone(w, call[w], tf[w])'
    BY <2>11, <2>12, Zenon
  <2> QED
    BY <2>5, <2>13, Zenon DEF OneAddress, Solo
<1> QED
  BY <1>2, <1>3, <1>6, <1>7, <1>8, Zenon DEF Acknowledge, Awaited

\* The call settles the last record, and its response is the result.
LEMMA SettleAlone ==
  ASSUME OneAddress, Inv, Solo, NEW w \in Workers, Settle(w)
  PROVE  Solo'
<1>1. /\ TypeOK /\ Shared /\ Journal /\ N \in Nat /\ \A i \in 1..N : Rec(i) \in Intent
      /\ call[w] \in CallType /\ Alone(w, call[w], tf[w]) /\ OwnForm(w)
      /\ call[w].pc = "settle" /\ CallOK(call[w]) /\ UNCHANGED <<host, net, sent>>
  BY AloneHas, AddressHas, Zenon DEF Settle
<1>2. PICK n \in 1..N : n = N /\ Rec(n).id = call[w].id
  BY <1>1, SMTT(30) DEF Alone
<1>3. findIntent(snapshot, call[w].id) = n
  BY <1>1, <1>2, FindIs, Zenon
<1>4. PICK ack \in OperationAck, obs \in ResourceObservation :
        /\ ack = call[w].ack /\ obs = call[w].obs /\ ack.status \in {"succeeded", "failed"}
        /\ Rec(n).opID # None
  BY <1>1, <1>2, Zenon DEF CallOK, Observed, Journal
<1>5. PICK s : s = tf[w] /\ Fits(w, s)
  BY <1>1, Zenon DEF Alone
<1>6. CASE Return(w, call[w].resp) /\ UNCHANGED snapshot
  BY <1>1, <1>6, EndAlone, Zenon
<1>7. CASE /\ \/ MayComplete(snapshot, n, ack, obs) /\ snapshot' = Complete(snapshot, n, ack, obs)
              \/ MayExtend(snapshot, n, ack, obs) /\ snapshot' = Extend(snapshot, n, ack)
           /\ Enter(w, [call[w] EXCEPT !.pc = "return", !.resp = Outcome(Rec(n), ack)])
  <2>1. /\ sameOperation(Rec(n), ack)
        /\ \E new \in Intent : snapshot' = WithRecord(snapshot, n, new) /\ SettledVersion(new, Rec(n), ack)
    BY <1>1, <1>7, SettledRecord, Zenon
  <2>2. PICK new \in Intent :
          /\ snapshot' = WithRecord(snapshot, n, new) /\ new.id = Rec(n).id /\ new.request = Rec(n).request
          /\ new.opID = Rec(n).opID /\ new.opUID = Rec(n).opUID /\ new.opGeneration = Rec(n).opGeneration
          /\ new.status = SettledStatus(Rec(n), ack)
          /\ Rec(n).status \in Settled => new.status = Rec(n).status
    BY <2>1, Zenon DEF SettledVersion
  <2>3. N' = n /\ Rec(n)' = new /\ OwnForm(w)' /\ Fits(w, s)'
    <3>1. Rec(n).status = "applied" => new.status = "applied"
      BY <2>2, Zenon DEF Settled
    <3> QED
      BY <1>1, <1>2, <1>5, <2>2, <3>1, FitsUpdated, Zenon
  <2>4. Rec(N)' = new
    BY <2>3, Zenon DEF Rec
  <2>5. PICK x : x = Outcome(Rec(n), ack)
    BY Zenon
  <2>6. \/ x = Pending(new) \/ x = NoState
        \/ new.status = "applied" /\ x = State(new.opUID, new.opGeneration, None, None)
    <3>1. /\ Rec(n).opUID = ack.uid /\ Rec(n).opGeneration = ack.generation
          /\ Rec(n).request.action = ack.action
      BY <2>1, Zenon DEF sameOperation
    <3>2. CASE ack.status = "failed"
      BY <2>2, <2>5, <3>2, Zenon DEF Outcome, Pending
    <3>3. CASE ack.status # "failed" /\ ack.action = "delete"
      BY <2>5, <3>3, Zenon DEF Outcome
    <3>4. CASE ack.status # "failed" /\ ack.action # "delete"
      BY <2>2, <2>5, <3>1, <3>4, Zenon DEF Outcome, SettledStatus
    <3> QED
      BY <3>2, <3>3, <3>4, Zenon
  <2>7. Fits(w, x)'
    BY <1>2, <1>4, <2>2, <2>3, <2>4, <2>6, SMTT(30) DEF Fits, IsResult
  <2>8. PICK c : c = [call[w] EXCEPT !.pc = "return", !.resp = x]
    BY Zenon
  <2>9. c.pc = "return" /\ c.resp = x
    BY <1>1, <2>8, Zenon DEF CallType
  <2>10. Alone(w, c, s)'
    BY <2>3, <2>7, <2>9, Zenon DEF Alone
  <2>11. call'[w] = c /\ tf'[w] = s
    BY <1>1, <1>5, <1>7, <2>5, <2>8, Zenon DEF Enter, TypeOK
  <2>12. Alone(w, call[w], tf[w])'
    BY <2>10, <2>11, Zenon
  <2> QED
    BY <2>3, <2>12, Zenon DEF OneAddress, Solo
<1> QED
  BY <1>2, <1>3, <1>4, <1>6, <1>7, Zenon DEF Settle

\* An import is bound before the first intent only, and is what the Host still has.
LEMMA ImportAlone ==
  ASSUME OneAddress, Inv, Solo, NEW w \in Workers, ImportBind(w)
  PROVE  Solo'
<1>1. /\ TypeOK /\ Journal /\ N \in Nat /\ call[w] \in CallType /\ OwnForm(w)
      /\ Alone(w, call[w], tf[w]) /\ CallOK(call[w]) /\ Keeps(call[w], tf[w])
      /\ call[w].pc = "import" /\ UNCHANGED <<host, net, sent>>
      /\ snapshot.imports \in Seq(ImportBinding) /\ History(snapshot, Slot) = 1..N
  <2>1. /\ TypeOK /\ Journal /\ N \in Nat /\ call[w] \in CallType /\ OwnForm(w)
        /\ Alone(w, call[w], tf[w])
    BY AloneHas, Zenon
  <2>2. CallOK(call[w]) /\ Keeps(call[w], tf[w])
    BY AddressHas, Zenon
  <2>3. snapshot.imports \in Seq(ImportBinding) /\ History(snapshot, Slot) = 1..N
    BY <2>1, Typed, LatestIsLast, Zenon
  <2>4. call[w].pc = "import" /\ UNCHANGED <<host, net, sent>>
    BY Zenon DEF ImportBind
  <2> QED
    BY <2>1, <2>2, <2>3, <2>4, Zenon
<1>2. PICK seen \in PresentResource : seen = call[w].obs /\ seen.form = FormOf[w]
  <2>1. call[w].obs \in PresentResource
    BY <1>1, Zenon DEF CallOK
  <2>2. call[w].obs.form = FormOf[w]
    BY <1>1, Zenon DEF Alone
  <2> QED
    BY <2>1, <2>2, Zenon
<1>3. tf[w] = NoState
  BY <1>1, Zenon DEF Keeps
<1> DEFINE ev == [hostAPI |-> Slot.hostAPI, route |-> seen.route, code |-> seen.code,
                  uid |-> seen.uid, form |-> seen.form, name |-> seen.name,
                  generation |-> seen.generation]
<1>4. PICK b : b = ImportOf(Slot, ev) /\ b.target = Slot /\ b.uid = seen.uid /\ b.form = FormOf[w]
  <2>1. /\ ImportOf(Slot, ev).target = Slot /\ ImportOf(Slot, ev).uid = seen.uid
        /\ ImportOf(Slot, ev).form = seen.form
    BY Zenon DEF ImportOf
  <2> QED
    BY <1>2, <2>1, Zenon
<1>5. PICK s, c : /\ s = State(seen.uid, seen.generation, None, None)
                  /\ c = [call[w] EXCEPT !.pc = "return", !.resp = s]
  BY Zenon
<1>6. /\ s.uid = seen.uid /\ s.generation = seen.generation /\ s.intent = None
      /\ c.pc = "return" /\ c.resp = s
  BY <1>1, <1>5, Zenon DEF State, CallType
<1>7. \/ /\ MayImport(snapshot, Slot, seen.uid, FormOf[w], ev)
         /\ snapshot' = BindImportedResource(snapshot, Slot, ev)
         /\ Enter(w, c)
      \/ /\ History(snapshot, Slot) = {}
         /\ \E i \in ImportsOf(snapshot, Slot) : snapshot.imports[i] = b
         /\ Enter(w, c)
         /\ UNCHANGED snapshot
      \/ /\ Return(w, NoState)
         /\ UNCHANGED snapshot
  BY <1>2, <1>4, <1>5, Zenon DEF ImportBind
<1>8. N = 0 => seen.uid \in Live /\ resource[seen.uid].generation = seen.generation
  BY <1>1, <1>2, Zenon DEF Alone
<1>9. History(snapshot, Slot) = {} => N = 0
  <2>1. N # 0 => 1 \in 1..N
    BY <1>1
  <2> QED
    BY <1>1, <2>1, Zenon
<1>10. CASE /\ MayImport(snapshot, Slot, seen.uid, FormOf[w], ev)
            /\ snapshot' = BindImportedResource(snapshot, Slot, ev)
            /\ Enter(w, c)
  <2>1. /\ snapshot'.records = snapshot.records
        /\ snapshot'.imports = Append(snapshot.imports, b)
    BY <1>4, <1>10, Zenon DEF BindImportedResource
  <2>2. N = 0 /\ N' = 0
    BY <1>9, <1>10, <2>1, Zenon DEF MayImport, N
  <2>3. PICK n \in Nat : n = Len(snapshot.imports)
    BY <1>1, SMTT(30)
  <2>4. Len(snapshot'.imports) = n + 1 /\ snapshot'.imports[n + 1] = b
    BY <1>1, <2>1, <2>3, SMTT(30)
  <2>5. Imported(s.uid, FormOf[w])'
    <3>1. n + 1 \in 1..Len(snapshot'.imports)
      BY <2>3, <2>4
    <3> QED
      BY <1>4, <1>6, <2>4, <3>1, Zenon DEF Imported, ImportsOf
  <2>6. s.uid \in Live' /\ resource'[s.uid].generation = s.generation
    BY <1>1, <1>6, <1>8, <2>2, Zenon DEF Live, host
  <2>7. Fits(w, s)' /\ Fits(w, NoState)'
    BY <1>6, <2>2, <2>5, <2>6, Zenon DEF Fits, IsImport
  <2>8. OwnForm(w)'
    BY <2>2 DEF OwnForm
  <2>9. Alone(w, c, NoState)'
    BY <1>6, <2>7, Zenon DEF Alone
  <2>10. call'[w] = c /\ tf'[w] = NoState
    BY <1>1, <1>3, <1>10, Zenon DEF Enter, TypeOK
  <2>11. Alone(w, call[w], tf[w])'
    BY <2>9, <2>10, Zenon
  <2> QED
    BY <2>8, <2>11, Zenon DEF OneAddress, Solo
<1>11. CASE /\ History(snapshot, Slot) = {}
            /\ \E i \in ImportsOf(snapshot, Slot) : snapshot.imports[i] = b
            /\ Enter(w, c)
            /\ UNCHANGED snapshot
  <2>1. Imported(s.uid, FormOf[w])
    BY <1>4, <1>6, <1>11, Zenon DEF Imported
  <2>2. Fits(w, s)
    BY <1>6, <1>8, <1>9, <1>11, <2>1, Zenon DEF Fits, IsImport
  <2>3. Alone(w, c, tf[w])
    BY <1>1, <1>6, <2>2, Zenon DEF Alone
  <2> QED
    BY <1>1, <1>11, <2>3, EnterAlone, Zenon
<1>12. CASE Return(w, NoState) /\ UNCHANGED snapshot
  BY <1>1, <1>12, EndAlone, Zenon
<1> QED
  BY <1>7, <1>10, <1>11, <1>12, Zenon


-----------------------------------------------------------------------------
(* The invariant.                                                           *)

\* Every step of the one address, and of the Host, keeps what it knows.
LEMMA SoloNext ==
  ASSUME OneAddress, Inv, Solo, [Next]_vars
  PROVE  Solo'
<1>1. ASSUME NEW w \in Workers, Advance(w) PROVE Solo'
  BY <1>1, FenceAlone, ClaimAlone, SendAlone, AcknowledgeAlone, EndsAlone, HostStepsAlone, ObserveAlone,
     SettleAlone, CompletedAlone, ImportAlone, Zenon
  DEF Advance
<1>2. ASSUME NEW w \in Workers,
             \/ Create(w) \/ Mutate(w) \/ ReadFinishes(w) \/ ReadCompletes(w) \/ ImportRead(w)
             \/ Abort(w) \/ Crash(w)
      PROVE  Solo'
  BY <1>2, CreateAlone, MutateAlone, ReadAlone, ImportReadAlone, EndsAlone, Zenon
<1>3. ASSUME \/ \E m \in net : HostAccept(m) \/ HostRepeat(m)
             \/ \E o \in OperationIDs : HostRun(o) \/ HostWait(o) \/ HostForget(o)
      PROVE  Solo'
  BY <1>3, HostStepsAlone, Zenon
<1>4. CASE UNCHANGED vars
  <2>1. snapshot' = snapshot /\ tf' = tf /\ sent' = sent /\ resource' = resource /\ Answered
    BY <1>4, Zenon DEF vars, Answered
  <2> QED
    BY <2>1, HostAlone, Zenon
<1> QED
  BY <1>1, <1>2, <1>3, <1>4, Zenon DEF Next

\* It holds in the initial state.
LEMMA SoloInit ==
  ASSUME Init
  PROVE  Solo
<1>1. N = 0 /\ \A w \in Workers : call[w] = Idle /\ tf[w] = NoState
  BY Zenon DEF Init, EmptySnapshot, N
<1>2. \A w \in Workers : OwnForm(w)
  BY <1>1 DEF OwnForm
<1>3. \A w \in Workers : Alone(w, Idle, NoState)
  BY IdleAlone, Zenon DEF Fits
<1> QED
  BY <1>1, <1>2, <1>3, Zenon DEF Solo


-----------------------------------------------------------------------------
(* The properties.                                                          *)

\* A claim that was sent and is not answered is not about to be sent again.
LEMMA HaltedIs ==
  ASSUME Inv, Solo
  PROVE  PreAckIsHalted
<1> SUFFICES ASSUME NEW w \in Workers, call[w].pc = "send", sent[call[w].id] > 0,
                    Held(w).status = "claimed"
             PROVE  FALSE
  BY Zenon DEF PreAckIsHalted
<1>1. TypeOK /\ Journal /\ CallOK(call[w]) /\ Alone(w, call[w], tf[w])
  BY AloneHas, AddressHas, Zenon
<1>2. PICK i \in 1..N : Rec(i).id = call[w].id
  BY <1>1, Zenon DEF CallOK, Recorded
<1>3. Held(w) = Rec(i)
  BY <1>1, <1>2, FindIs, Zenon DEF Held
<1>4. sent[call[w].id] # 0
  <2>1. call[w].id \in Keys /\ sent \in [Keys -> Nat]
    BY <1>1, <1>2, Typed, Zenon DEF TypeOK, Intent
  <2> QED
    BY <2>1
<1> QED
  BY <1>1, <1>2, <1>3, <1>4, Zenon DEF Alone

\* What the last settled record says still stands at the Host.
LEMMA ResultIsThere ==
  ASSUME Inv, N > 0, Rec(N).status \in Settled
  PROVE  /\ ResultStands(Rec(N), ReadResource(Rec(N).opUID))
         /\ Rec(N).status = "applied" => ReadResource(Rec(N).opUID).generation = Rec(N).opGeneration
<1>1. /\ TypeOK /\ Shared /\ Journal /\ N \in 1..N /\ Latest = N /\ Rec(N) \in Intent
      /\ GoneStays
  BY Typed, LatestIsLast DEF Inv, Shared
<1>2. Rec(N).opUID \in UIDs /\ Rec(N).opID # None
  BY <1>1, Stored, Zenon DEF Settled
<1>3. PICK u \in UIDs : u = Rec(N).opUID
  BY <1>2, Zenon
<1>4. CASE Rec(N).status = "delete-confirmed"
  <2>1. u \notin Live
    BY <1>1, <1>3, <1>4, Zenon DEF GoneStays, Live
  <2> QED
    BY <1>3, <1>4, <2>1, ReadType, Zenon DEF ResultStands
<1>5. CASE Rec(N).status # "delete-confirmed"
  <2>1. /\ RecordIdentity(Rec(N)).found /\ RecordIdentity(Rec(N)).uid = u
        /\ RecordIdentity(Rec(N)).generation = Rec(N).opGeneration
        /\ RecordIdentity(Rec(N)).form = Rec(N).request.form
    BY <1>1, <1>3, <1>5, Stored, Zenon DEF RecordIdentity, Identity, Settled
  <2>2. SettledAgreesWithHost
    BY SettledStandsIs, Zenon
  <2>3. /\ resource[u].life = "live" /\ resource[u].generation = Rec(N).opGeneration
        /\ resource[u].form = Rec(N).request.form /\ resource[u].op = Rec(N).opID
        /\ resource[u].phase = IF Rec(N).status = "applied" THEN "idle" ELSE "error"
    BY <1>1, <2>1, <2>2 DEF SettledAgreesWithHost
  <2>4. /\ ReadResource(u).code = 200 /\ ReadResource(u).uid = u
        /\ ReadResource(u).form = resource[u].form /\ ReadResource(u).phase = resource[u].phase
        /\ ReadResource(u).generation = resource[u].generation
    BY <2>3, Zenon DEF ReadResource
  <2> QED
    BY <1>3, <1>5, <2>3, <2>4 DEF ResultStands, Settled
<1> QED
  BY <1>4, <1>5, Zenon

\* The fence of the last intent is the state Read recognizes, but for the one that
\* links to an applied Operation.
LEMMA FenceIsKnown ==
  ASSUME Inv, Solo, NEW w \in Workers, NEW s \in States, N > 0, IsFence(s), ~ LinkIsOld(s),
         Rec(N).status # "claimed"
  PROVE  v2StaleStateMatchesLatest(w, s)
<1>1. /\ TypeOK /\ Journal /\ N \in Nat /\ N \in 1..N /\ Latest = N /\ OwnForm(w)
      /\ \A i \in 1..N : Rec(i) \in Intent
      /\ History(snapshot, Slot) = 1..N /\ LastOf(History(snapshot, Slot) \ {Latest}) = N - 1
  BY AloneHas, LatestIsLast, Zenon
<1>2. PICK rec \in Intent : rec = Rec(N)
  BY <1>1, Zenon
<1>3. /\ rec.opID # None /\ rec.opGeneration = rec.request.generation + 1
      /\ rec.request.action # "create" => rec.opUID = rec.request.uid
      /\ rec.request.form = FormOf[w] /\ rec.request.action \in {"create", "update", "delete"}
  BY <1>1, <1>2, Stored, Zenon DEF OwnForm, Intent, BeginRequest, Actions
<1>4. /\ rec.request.action \in {"update", "delete"} /\ rec.request.uid = s.uid /\ rec.opUID = s.uid
      /\ rec.request.generation = s.generation /\ rec.opGeneration = s.generation + 1
  BY <1>2, <1>3, Zenon DEF IsFence
<1>5. CASE s.intent = None /\ rec.request.supersedes = None
  BY <1>1, <1>2, <1>3, <1>4, <1>5, Zenon DEF v2StaleStateMatchesLatest
<1>6. CASE /\ N > 1 /\ s = Pending(Rec(N - 1)) /\ Rec(N - 1).opID # None
           /\ Rec(N - 1).status = "failed-reserved" /\ rec.request.supersedes = s.intent
  <2>1. PICK p \in 1..N : p = N - 1 /\ p # 0
    BY <1>1, <1>6, SMTT(30)
  <2>2. /\ s.intent = Rec(p).id /\ s.op = Rec(p).opID /\ s.uid = Rec(p).opUID
        /\ s.generation = Rec(p).opGeneration
    BY <1>6, <2>1, Zenon DEF Pending, State
  <2>3. Rec(p).observedGeneration = Rec(p).opGeneration /\ Rec(p).request.form = FormOf[w]
    BY <1>1, <1>6, <2>1, Stored, Zenon DEF OwnForm
  <2>4. s.intent # None
    BY <1>1, <2>2, NoneAssumption, ZenonT(60) DEF Intent
  <2> QED
    BY <1>1, <1>2, <1>3, <1>4, <1>6, <2>1, <2>2, <2>3, <2>4, ZenonT(60) DEF v2StaleStateMatchesLatest
<1>7. CASE N > 1 /\ s.intent = Rec(N - 1).id /\ Rec(N - 1).status = "applied"
  <2>1. PICK p \in 1..N : p = N - 1 /\ p # N
    BY <1>1, <1>7
  <2> QED
    BY <1>1, <1>7, <2>1, Zenon DEF LinkIsOld
<1> QED
  BY <1>2, <1>5, <1>6, <1>7, Zenon DEF IsFence

\* A refresh of a state that fits the journal goes through.
LEMMA RecoversIs ==
  ASSUME Inv, Solo
  PROVE  RefreshedRecovers
<1> SUFFICES ASSUME NEW w \in Workers, tf[w] # NoState, ~ LinkIsOld(tf[w]),
                    Latest # 0 => Rec(Latest).status # "claimed"
             PROVE  Recovers(w)
  BY Zenon DEF RefreshedRecovers
<1>1. /\ TypeOK /\ Journal /\ N \in Nat /\ Latest = N /\ OwnForm(w)
      /\ N > 0 => N \in 1..N
      /\ \A i \in 1..N : Rec(i) \in Intent
      /\ Fits(w, tf[w]) /\ tf[w] \in States
  BY AloneHas, AddressHas, Zenon
<1>2. PICK s \in States : s = tf[w] /\ s # NoState /\ ~ LinkIsOld(s) /\ Fits(w, s)
  BY <1>1, Zenon
<1> DEFINE path == ReadPath(w, s)
<1>3. SUFFICES /\ path # "refuse"
               /\ path = "completed" => ResultStands(Rec(Latest), ReadResource(Rec(Latest).opUID))
               /\ path = "resource" => ReadResource(s.uid).generation = s.generation
  BY <1>2, Zenon DEF Recovers
<1>4. CASE N = 0
  <2>1. IsImport(w, s)
    BY <1>2, <1>4, Zenon DEF Fits
  <2>2. path = "resource"
    BY <1>1, <1>4, <2>1, Zenon DEF ReadPath, IsImport
  <2>3. ReadResource(s.uid).generation = s.generation
    BY <2>1, Zenon DEF IsImport, ReadResource, Live
  <2> QED
    BY <2>2, <2>3, Zenon
<1>5. CASE N > 0
  <2> DEFINE known  == v2StaleStateMatchesLatest(w, s) \/ LinkedCompleted(w, s)
             linked == /\ Rec(N).id = s.intent /\ Rec(N).opID = s.op
                       /\ Rec(N).opUID = s.uid /\ Rec(N).opGeneration = s.generation
  <2>1. /\ Rec(N) \in Intent /\ Rec(N).status # "claimed" /\ Rec(N).request.form = FormOf[w]
        /\ N \in 1..N /\ Latest = N /\ N # 0
    BY <1>1, <1>5, SMTT(30) DEF OwnForm
  <2>2. Rec(N).status \in {"accepted", "accepted-failed"} \/ Rec(N).status \in Settled
    BY <2>1, Zenon DEF Intent, Statuses, Unresolved, Settled
  <2>3. /\ Rec(N).status \in {"accepted", "accepted-failed"} => Rec(N).status \notin Settled
    BY Zenon DEF Settled
  <2>4. Rec(N).status \in Settled =>
          /\ ResultStands(Rec(N), ReadResource(Rec(N).opUID))
          /\ Rec(N).status = "applied" => ReadResource(Rec(N).opUID).generation = Rec(N).opGeneration
    BY <1>5, ResultIsThere, Zenon
  <2>5. ASSUME Rec(N).status \notin Settled, known \/ linked PROVE path = "finish"
    BY <2>1, <2>2, <2>5, Zenon DEF ReadPath
  <2>6. ASSUME Rec(N).status \in Settled, known PROVE path = "completed"
    BY <2>1, <2>2, <2>6, Zenon DEF ReadPath, Settled
  <2>7. CASE known \/ s = Pending(Rec(N))
    <3>1. s = Pending(Rec(N)) => linked
      BY DEF Pending, State
    <3>2. linked /\ Rec(N).status \in Settled => known
      BY <2>1, Zenon DEF LinkedCompleted
    <3> QED
      BY <2>1, <2>4, <2>5, <2>6, <2>7, <3>1, <3>2, Zenon
  <2>8. CASE ~ known /\ Rec(N).status = "applied" /\ s = State(Rec(N).opUID, Rec(N).opGeneration, None, None)
    <3>1. s.uid = Rec(N).opUID /\ s.generation = Rec(N).opGeneration /\ s.intent = None
      BY <2>8, Zenon DEF State
    <3>2. Rec(N).resultGeneration = s.generation
      BY <1>1, <2>1, <2>8, <3>1, Stored, Zenon
    <3>3. path = "resource"
      BY <2>1, <2>8, <3>1, <3>2, Zenon DEF ReadPath, Settled
    <3> QED
      BY <2>4, <2>8, <3>1, <3>3, Zenon DEF Settled
  <2>9. IsFence(s) => known
    BY <1>2, <1>5, <2>1, FenceIsKnown, Zenon
  <2> QED
    BY <1>2, <1>5, <2>7, <2>8, <2>9, SMTT(30) DEF Fits, IsResult
<1> QED
  BY <1>1, <1>4, <1>5

=============================================================================
