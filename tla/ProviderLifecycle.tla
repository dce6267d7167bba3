-------------------------- MODULE ProviderLifecycle --------------------------
(***************************************************************************)
(* The life of one Resource name under the Provider: the Create, Read,     *)
(* Update, Delete and import of internal/provider (v2_resource.go,         *)
(* v2_lifecycle_existing.go), composed with the intent journal (IntentOps, *)
(* atomic by SnapshotRegister), with Terraform's saved state and with a    *)
(* Host.  Workers are Terraform resource addresses that share the journal  *)
(* and name the same slot: one in a sound configuration, more when two     *)
(* configurations or two addresses meet on a name.                         *)
(*                                                                         *)
(* A call of the Provider is cut where others can act in between: after    *)
(* each journal operation and each Host request.  A call may end early     *)
(* (an error, an ended context) and a process may die at any cut; a write  *)
(* of the journal that is answered with an error although it happened is   *)
(* a process that dies after the write.  A call refused before it has      *)
(* changed anything is a stuttering step.                                  *)
(*                                                                         *)
(* The Host is external, and modelled from what the Provider relies on: it *)
(* performs a key once, answers a repeated key with the same Operation,    *)
(* checks the expected generation, runs one Operation per Resource at a    *)
(* time, keeps the UID and the name after a failure, and forgets finished  *)
(* Operations.  Requests may be lost or delayed, and answers lost.         *)
(***************************************************************************)
EXTENDS IntentOps

CONSTANTS
  Workers,        \* the resource addresses
  FormOf,         \* the Form of each
  Slot,           \* the Target they name
  Private,        \* the payloads with private inputs
  Sends           \* a bound for the count of sends of a key

ASSUME LifecycleAssumption ==
  /\ FormOf \in [Workers -> Forms] /\ Slot \in Target /\ Private \subseteq Payloads
  /\ Sends \in Nat

VARIABLES
  snapshot,       \* the journal
  tf,             \* Terraform's saved state of each address
  call,           \* the call each address is in
  resource,       \* the Host: its Resources
  operation,      \* the Host: its Operations
  net,            \* requests under way to the Host
  sent            \* how often each key was sent

host == <<resource, operation>>
vars == <<snapshot, tf, call, resource, operation, net, sent>>

-----------------------------------------------------------------------------
(* Terraform state: the attributes the Provider decides on.                 *)

State(uid, generation, intent, op) ==
  [uid |-> uid, generation |-> generation, intent |-> intent, op |-> op]

NoState == State(None, 0, None, None)

States ==
  [uid : UIDs \cup {None}, generation : 0..MaxGeneration, intent : Keys \cup {None},
   op : OperationIDs \cup {None}]

\* writePending
Pending(rec) == State(rec.opUID, rec.opGeneration, rec.id, rec.opID)

(* The Host's Resources and Operations.                                     *)

NoResource == [life |-> "unused", form |-> None, generation |-> 0, phase |-> None, op |-> None]

NoRequest ==
  [target |-> None, action |-> None, form |-> None, uid |-> None, generation |-> 0,
   supersedes |-> None, payload |-> None]

NoOperation ==
  [key |-> None, request |-> NoRequest, uid |-> None, generation |-> 0, status |-> "unused"]

\* The answer to an exact-UID read.
ReadResource(u) ==
  IF resource[u].life = "live"
    THEN [route |-> u, code |-> 200, uid |-> u, form |-> resource[u].form,
          name |-> Slot.name, generation |-> resource[u].generation,
          phase |-> resource[u].phase]
    ELSE [route |-> u, code |-> 404, uid |-> None, form |-> None, name |-> None,
          generation |-> 0, phase |-> None]

Effect(status) ==
  CASE status = "succeeded" -> "complete" [] status = "failed" -> "partial" [] OTHER -> "unknown"

\* The Operation as the Provider passes it to the journal.
v2Ack(o) ==
  [id |-> o, uid |-> operation[o].uid, action |-> operation[o].request.action,
   generation |-> operation[o].generation, status |-> operation[o].status,
   effect |-> Effect(operation[o].status), retain |-> 1]

-----------------------------------------------------------------------------
(* Calls.                                                                   *)

NoObservation ==
  [route |-> None, code |-> 0, uid |-> None, form |-> None, name |-> None,
   generation |-> 0, phase |-> None]

NoAck ==
  [id |-> None, uid |-> None, action |-> None, generation |-> 0, status |-> None,
   effect |-> None, retain |-> 0]

Call(step, request, id, resp) ==
  [pc |-> step, request |-> request, id |-> id, resp |-> resp, reply |-> None,
   ack |-> NoAck, obs |-> NoObservation]

Idle == Call("idle", NoRequest, None, NoState)

Init ==
  /\ snapshot = EmptySnapshot(Slot.hostAPI)
  /\ tf = [w \in Workers |-> NoState]
  /\ call = [w \in Workers |-> Idle]
  /\ \/ resource = [u \in UIDs |-> NoResource]
     \/ \E u \in UIDs, f \in Forms :    \* a Resource somebody else made, to import
          resource = [[v \in UIDs |-> NoResource] EXCEPT
                        ![u] = [NoResource EXCEPT !.life = "live", !.form = f,
                                                  !.generation = 1, !.phase = "idle"]]
  /\ operation = [o \in OperationIDs |-> NoOperation]
  /\ net = {}
  /\ sent = [k \in Keys |-> 0]

\* The call returns and Terraform saves its state.
Return(w, state) ==
  /\ call' = [call EXCEPT ![w] = Idle]
  /\ tf' = [tf EXCEPT ![w] = state]

Enter(w, c) == call' = [call EXCEPT ![w] = c] /\ UNCHANGED tf

Latest == latestIntent(snapshot, Slot)

Rec(i) == snapshot.records[i]

\* The record the call is about.
Held(w) == Rec(findIntent(snapshot, call[w].id))

\* The exact import of the slot.
Imported(uid, form) ==
  \E i \in ImportsOf(snapshot, Slot) :
    snapshot.imports[i].uid = uid /\ snapshot.imports[i].form = form

-----------------------------------------------------------------------------
(* Create.                                                                  *)

Request(w, action, state, supersedes, payload) ==
  [target |-> Slot, action |-> action, form |-> FormOf[w], uid |-> state.uid,
   generation |-> state.generation, supersedes |-> supersedes, payload |-> payload]

\* Mutant: a claim without an Operation is no reason to stop.
MutOccupied == Latest # 0 /\ Rec(Latest).status \notin {"delete-confirmed", "claimed"}

Occupied == Latest # 0 /\ Rec(Latest).status # "delete-confirmed"

\* An earlier Create of the same request whose state was lost is followed to its
\* end; any other unfinished or present incarnation is refused.
MayAdopt(w, rec, payload) ==
  /\ rec.opID # None
  /\ rec.request.form = FormOf[w]
  /\ rec.request.action = "create"
  /\ rec.status # "failed-reserved"
  /\ rec.request.payload = payload

Create(w) ==
  /\ call[w] = Idle
  /\ tf[w] = NoState
  /\ \E p \in Payloads :
       IF Occupied
         THEN /\ MayAdopt(w, Rec(Latest), p)
              /\ Enter(w, Call("finish", NoRequest, Rec(Latest).id, NoState))
         ELSE Enter(w, Call("claim", Request(w, "create", NoState, None, p), None, NoState))
  /\ UNCHANGED <<snapshot, host, net, sent>>

-----------------------------------------------------------------------------
(* Update and Delete (mutateExisting).                                      *)

\* Custody: the state names what the journal last settled.
MayMutate(w, state) ==
  IF Latest = 0
    THEN Imported(state.uid, FormOf[w])
    ELSE LET rec == Rec(Latest)
         IN  /\ rec.request.form = FormOf[w]
             /\ rec.status \in {"applied", "failed-reserved"}
             /\ rec.opUID = state.uid
             /\ rec.status = "applied" => rec.resultGeneration = state.generation
             /\ rec.status = "failed-reserved" => rec.observedGeneration = state.generation
             /\ state.intent # None => rec.id = state.intent /\ rec.opID = state.op

Mutate(w) ==
  /\ call[w] = Idle
  /\ tf[w] # NoState
  /\ MayMutate(w, tf[w])
  /\ LET supersedes == IF Latest # 0 /\ Rec(Latest).status = "failed-reserved"
                         THEN Rec(Latest).id ELSE None
     IN  \/ \E p \in Payloads :
              Enter(w, Call("fence", Request(w, "update", tf[w], supersedes, p), None, tf[w]))
         \/ Enter(w, Call("fence", Request(w, "delete", tf[w], supersedes, None), None, tf[w]))
  /\ UNCHANGED <<snapshot, host, net, sent>>

\* The exact Resource is read at its generation before the claim.
Fence(w) ==
  /\ call[w].pc = "fence"
  /\ LET r == call[w].request
         seen == ReadResource(r.uid)
     IN  IF seen.code = 200 /\ seen.form = r.form /\ seen.generation = r.generation
           THEN Enter(w, [call[w] EXCEPT !.pc = "claim"])
           ELSE Return(w, call[w].resp)
  /\ UNCHANGED <<snapshot, host, net, sent>>

-----------------------------------------------------------------------------
(* Begin, the mutation, RecordAccepted.                                     *)

\* Mutant: the intent is sent before it is journaled.
MutClaimIntent(w) ==
  /\ call[w].pc = "claim"
  /\ \E k \in Keys :
       /\ findIntent(snapshot, k) = 0
       /\ Enter(w, [call[w] EXCEPT !.pc = "send", !.id = k])
  /\ UNCHANGED <<snapshot, host, net, sent>>

ClaimIntent(w) ==
  /\ call[w].pc = "claim"
  /\ LET r == call[w].request
     IN  \/ /\ BeginReplays(snapshot, r)
            /\ Enter(w, [call[w] EXCEPT !.pc = "send",
                                        !.id = Rec(LoopStop(snapshot, r)).id])
            /\ UNCHANGED snapshot
         \/ /\ BeginClaims(snapshot, r)
            /\ \E k \in Keys :
                 /\ findIntent(snapshot, k) = 0
                 /\ snapshot' = Begin(snapshot, r, k)
                 /\ Enter(w, [call[w] EXCEPT !.pc = "send", !.id = k])
         \/ /\ ~ BeginReplays(snapshot, r) /\ ~ BeginClaims(snapshot, r)
            /\ Return(w, call[w].resp)
            /\ UNCHANGED snapshot
  /\ UNCHANGED <<host, net, sent>>

Send(w) ==
  /\ call[w].pc = "send"
  /\ sent[call[w].id] < Sends
  /\ sent' = [sent EXCEPT ![call[w].id] = @ + 1]
  /\ net' = net \cup {[from |-> w, key |-> call[w].id, request |-> call[w].request]}
  /\ Enter(w, [call[w] EXCEPT !.pc = "await"])
  /\ UNCHANGED <<snapshot, host>>

\* The acknowledged Operation is journaled; then the pending state is the response.
Acknowledge(w) ==
  /\ call[w].pc = "await"
  /\ call[w].reply # None
  /\ operation[call[w].reply].status # "expired"
  /\ LET ack == v2Ack(call[w].reply)
         i == findIntent(snapshot, call[w].id)
         Go(rec) == Enter(w, [call[w] EXCEPT !.pc = "finish", !.resp = Pending(rec),
                                             !.reply = None])
     IN  \/ /\ MayAccept(snapshot, i, ack)
            /\ snapshot' = RecordAccepted(snapshot, i, ack)
            /\ Go(AcceptedRecord(Rec(i), ack))
         \/ /\ AcceptReplays(snapshot, i, ack)
            /\ Go(Rec(i))
            /\ UNCHANGED snapshot
         \/ /\ ~ MayAccept(snapshot, i, ack) /\ ~ AcceptReplays(snapshot, i, ack)
            /\ Return(w, call[w].resp)
            /\ UNCHANGED snapshot
  /\ UNCHANGED <<host, net, sent>>

-----------------------------------------------------------------------------
(* finish: follow the accepted Operation, read the Resource, settle.        *)

\* The original private inputs are sent again to the same Operation.
ContinuePrivateInputs(w) ==
  /\ call[w].pc = "finish"
  /\ LET o == Held(w).opID
     IN  /\ operation[o].status = "waiting_input"
         /\ Held(w).request.action # "delete"
         /\ Held(w).request.payload \in Private
         /\ operation' = [operation EXCEPT ![o].status = "running"]
  /\ UNCHANGED <<snapshot, tf, call, resource, net, sent>>

\* What finish accepts as evidence of a terminal Operation.
Evidence(w, o, seen) ==
  IF operation[o].request.action = "delete" /\ operation[o].status = "succeeded"
    THEN seen.code # 200
    ELSE /\ seen.code = 200
         /\ seen.form = FormOf[w]
         /\ seen.generation = operation[o].generation
         /\ resource[seen.uid].op = o

\* ReadOperation and ReadResource; a terminal Operation stays what it is.
Observe(w) ==
  /\ call[w].pc = "finish"
  /\ LET o == Held(w).opID
         seen == ReadResource(operation[o].uid)
     IN  /\ operation[o].status \in {"succeeded", "failed"}
         /\ IF Evidence(w, o, seen)
              THEN Enter(w, [call[w] EXCEPT !.pc = "settle", !.ack = v2Ack(o), !.obs = seen])
              ELSE Return(w, call[w].resp)
  /\ UNCHANGED <<snapshot, host, net, sent>>

\* Mutant: a Delete clears the state also when it failed.
MutOutcome(rec, ack) ==
  IF ack.action = "delete" THEN NoState
    ELSE IF ack.status = "failed" THEN Pending(rec) ELSE State(ack.uid, ack.generation, None, None)

\* The state finish writes once the journal has settled the intent.
Outcome(rec, ack) ==
  CASE ack.status = "failed" -> Pending(rec)
    [] ack.status # "failed" /\ ack.action = "delete" -> NoState
    [] OTHER -> State(ack.uid, ack.generation, None, None)

Settle(w) ==
  /\ call[w].pc = "settle"
  /\ LET ack == call[w].ack
         obs == call[w].obs
         i   == findIntent(snapshot, call[w].id)
         Go  == Enter(w, [call[w] EXCEPT !.pc = "return", !.resp = Outcome(Rec(i), ack)])
     IN  \/ /\ MayComplete(snapshot, i, ack, obs)
            /\ snapshot' = Complete(snapshot, i, ack, obs)
            /\ Go
         \/ /\ MayExtend(snapshot, i, ack, obs)
            /\ snapshot' = Extend(snapshot, i, ack)
            /\ Go
         \/ /\ ~ MayComplete(snapshot, i, ack, obs) /\ ~ MayExtend(snapshot, i, ack, obs)
            /\ Return(w, call[w].resp)
            /\ UNCHANGED snapshot
  /\ UNCHANGED <<host, net, sent>>

-----------------------------------------------------------------------------
(* Read.                                                                    *)

\* Mutant: a state linked to a failed predecessor is not recognized.
Mutv2StaleStateMatchesLatest(w, state) ==
  LET rec == Rec(Latest)
  IN  /\ rec.request.action \in {"update", "delete"}
      /\ rec.request.form = FormOf[w]
      /\ rec.request.uid = state.uid /\ rec.opUID = state.uid
      /\ rec.request.generation = state.generation
      /\ state.intent = None

\* A state left behind by a mutation that the journal knows and Terraform does
\* not: it is exactly the fence of the latest intent.
v2StaleStateMatchesLatest(w, state) ==
  LET rec   == Rec(Latest)
      prior == LastOf(History(snapshot, Slot) \ {Latest})
  IN  /\ rec.request.action \in {"update", "delete"}
      /\ rec.request.form = FormOf[w]
      /\ rec.request.uid = state.uid /\ rec.opUID = state.uid
      /\ rec.opID # None
      /\ rec.request.generation = state.generation
      /\ rec.opGeneration = state.generation + 1
      /\ IF state.intent = None
           THEN rec.request.supersedes = None
           ELSE /\ prior # 0
                /\ rec.request.supersedes = state.intent
                /\ Rec(prior).id = state.intent /\ Rec(prior).opID = state.op
                /\ Rec(prior).status = "failed-reserved" /\ Rec(prior).opUID = state.uid
                /\ Rec(prior).observedGeneration = rec.request.generation
                /\ Rec(prior).request.form = rec.request.form

\* A pending state whose Operation the journal has settled since.
LinkedCompleted(w, state) ==
  LET rec == Rec(Latest)
  IN  /\ rec.status \in Settled
      /\ rec.request.form = FormOf[w]
      /\ rec.opUID = state.uid /\ rec.opGeneration = state.generation
      /\ rec.id = state.intent /\ rec.opID = state.op

\* How Read goes on: it finishes the latest intent, re-reads its settled result,
\* reads the Resource, or refuses without asking the Host.
ReadPath(w, state) ==
  IF Latest = 0
    THEN IF Imported(state.uid, FormOf[w]) /\ state.intent = None THEN "resource" ELSE "refuse"
    ELSE LET rec    == Rec(Latest)
             known  == v2StaleStateMatchesLatest(w, state) \/ LinkedCompleted(w, state)
             linked == rec.id = state.intent /\ rec.opID = state.op
                         /\ rec.opUID = state.uid /\ rec.opGeneration = state.generation
         IN  CASE rec.status = "claimed" -> "refuse"
               [] rec.status \in {"accepted", "accepted-failed"} ->
                    IF known THEN "finish"
                      ELSE IF rec.request.form = FormOf[w] /\ linked THEN "finish" ELSE "refuse"
               [] rec.status \in Settled /\ known -> "completed"
               [] rec.status = "applied" /\ ~ known ->
                    IF /\ rec.request.form = FormOf[w] /\ rec.opUID = state.uid
                       /\ rec.resultGeneration = state.generation /\ state.intent = None
                      THEN "resource" ELSE "refuse"
               [] OTHER -> "refuse"

ReadFinishes(w) ==
  /\ call[w] = Idle
  /\ tf[w] # NoState
  /\ ReadPath(w, tf[w]) = "finish"
  /\ Enter(w, Call("finish", NoRequest, Rec(Latest).id, tf[w]))
  /\ UNCHANGED <<snapshot, host, net, sent>>

ReadCompletes(w) ==
  /\ call[w] = Idle
  /\ tf[w] # NoState
  /\ ReadPath(w, tf[w]) = "completed"
  /\ Enter(w, Call("reread", NoRequest, Rec(Latest).id, tf[w]))
  /\ UNCHANGED <<snapshot, host, net, sent>>

\* The Resource still is what a settled record says.
ResultStands(rec, seen) ==
  IF rec.status = "delete-confirmed"
    THEN seen.code # 200
    ELSE /\ seen.code = 200
         /\ seen.form = rec.request.form
         /\ seen.generation = rec.opGeneration
         /\ resource[seen.uid].op = rec.opID
         /\ seen.phase = IF rec.status = "failed-reserved" THEN "error" ELSE "idle"

\* The state readCompletedOperation writes.
Restored(rec) ==
  CASE rec.status = "delete-confirmed" -> NoState
    [] rec.status = "failed-reserved" -> Pending(rec)
    [] OTHER -> State(rec.opUID, rec.opGeneration, None, None)

readCompletedOperation(w) ==
  /\ call[w].pc = "reread"
  /\ IF ResultStands(Held(w), ReadResource(Held(w).opUID))
       THEN Enter(w, [call[w] EXCEPT !.pc = "return", !.resp = Restored(Held(w))])
       ELSE Return(w, call[w].resp)
  /\ UNCHANGED <<snapshot, host, net, sent>>

-----------------------------------------------------------------------------
(* Import: an exact-UID read, then BindImportedResource.                    *)

ImportRead(w) ==
  /\ call[w] = Idle
  /\ tf[w] = NoState
  /\ \E u \in UIDs :
       LET seen == ReadResource(u)
       IN  /\ seen.code = 200 /\ seen.form = FormOf[w]
           /\ Enter(w, [Call("import", NoRequest, None, NoState) EXCEPT !.obs = seen])
  /\ UNCHANGED <<snapshot, host, net, sent>>

\* Mutant: an import the journal refuses is saved all the same.
MutImportBind(w) ==
  /\ call[w].pc = "import"
  /\ Return(w, State(call[w].obs.uid, call[w].obs.generation, None, None))
  /\ UNCHANGED <<snapshot, host, net, sent>>

ImportBind(w) ==
  /\ call[w].pc = "import"
  /\ LET seen == call[w].obs
         ev   == [hostAPI |-> Slot.hostAPI, route |-> seen.route, code |-> seen.code,
                  uid |-> seen.uid, form |-> seen.form, name |-> seen.name,
                  generation |-> seen.generation]
         Repeat == /\ History(snapshot, Slot) = {}
                   /\ \E i \in ImportsOf(snapshot, Slot) :
                        snapshot.imports[i] = ImportOf(Slot, ev)
         Go == Enter(w, [call[w] EXCEPT !.pc = "return",
                           !.resp = State(seen.uid, seen.generation, None, None)])
     IN  \/ /\ MayImport(snapshot, Slot, seen.uid, FormOf[w], ev)
            /\ snapshot' = BindImportedResource(snapshot, Slot, ev)
            /\ Go
         \/ Repeat /\ Go /\ UNCHANGED snapshot
         \/ /\ ~ MayImport(snapshot, Slot, seen.uid, FormOf[w], ev) /\ ~ Repeat
            /\ Return(w, NoState)
            /\ UNCHANGED snapshot
  /\ UNCHANGED <<host, net, sent>>

-----------------------------------------------------------------------------
(* The ends of a call.                                                      *)

Finish(w) ==
  /\ call[w].pc = "return"
  /\ Return(w, call[w].resp)
  /\ UNCHANGED <<snapshot, host, net, sent>>

\* The mutation has no usable answer (IndeterminateError, a problem).
NoAnswer(w) ==
  /\ call[w].pc = "await"
  /\ Return(w, call[w].resp)
  /\ UNCHANGED <<snapshot, host, net, sent>>

\* Mutant: an Operation that is gone is waited for.
MutExpired(w) == FALSE /\ UNCHANGED vars

\* ReadOperation no longer finds the Operation.
Expired(w) ==
  /\ call[w].pc = "finish"
  /\ operation[Held(w).opID].status = "expired"
  /\ Return(w, call[w].resp)
  /\ UNCHANGED <<snapshot, host, net, sent>>

\* The Operation or the Resource cannot be read, the private inputs are missing,
\* the context ends, or the journal fails: the pending state is saved.  Before the
\* acknowledgement an error leaves the saved state as it was, as a crash does.
Abort(w) ==
  /\ call[w].pc \in {"finish", "settle"}
  /\ Return(w, call[w].resp)
  /\ UNCHANGED <<snapshot, host, net, sent>>

\* The process dies: Terraform keeps the state it had.
Crash(w) ==
  /\ call[w] # Idle
  /\ call' = [call EXCEPT ![w] = Idle]
  /\ UNCHANGED <<snapshot, tf, host, net, sent>>

-----------------------------------------------------------------------------
(* The Host.                                                                *)

Known(k) == {o \in OperationIDs : operation[o].key = k}

Accepts(r, u) ==
  IF r.action = "create"
    THEN resource[u].life = "unused" /\ \A v \in UIDs : resource[v].life # "live"
    ELSE /\ u = r.uid
         /\ resource[u].life = "live"
         /\ resource[u].generation = r.generation
         /\ resource[u].phase # "other"

\* The answer reaches the caller if it still waits for this key.
Answer(m, o) ==
  call' = IF call[m.from].pc = "await" /\ call[m.from].id = m.key
            THEN [call EXCEPT ![m.from].reply = o] ELSE call

HostAccept(m) ==
  /\ Known(m.key) = {}
  /\ \E o \in OperationIDs, u \in UIDs :
       /\ operation[o] = NoOperation
       /\ Accepts(m.request, u)
       /\ operation' = [operation EXCEPT
            ![o] = [key |-> m.key, request |-> m.request, uid |-> u,
                    generation |-> m.request.generation + 1, status |-> "running"]]
       /\ resource' = [resource EXCEPT
            ![u] = [life |-> "live", form |-> m.request.form,
                    generation |-> m.request.generation + 1, phase |-> "other", op |-> o]]
       /\ Answer(m, o)
  /\ net' = net \ {m}
  /\ UNCHANGED <<snapshot, tf, sent>>

HostRepeat(m) ==
  /\ \E o \in Known(m.key) : Answer(m, o)
  /\ net' = net \ {m}
  /\ UNCHANGED <<snapshot, tf, host, sent>>

HostRun(o) ==
  /\ operation[o].status = "running"
  /\ \E status \in {"succeeded", "failed"} :
       /\ operation' = [operation EXCEPT ![o].status = status]
       /\ resource' = [resource EXCEPT ![operation[o].uid] =
            IF status = "failed" THEN [@ EXCEPT !.phase = "error"]
              ELSE IF operation[o].request.action = "delete" THEN [NoResource EXCEPT !.life = "gone"]
              ELSE [@ EXCEPT !.phase = "idle"]]
  /\ UNCHANGED <<snapshot, tf, call, net, sent>>

HostWait(o) ==
  /\ operation[o].status = "running"
  /\ operation[o].request.payload \in Private
  /\ operation' = [operation EXCEPT ![o].status = "waiting_input"]
  /\ UNCHANGED <<snapshot, tf, call, resource, net, sent>>

\* A finished Operation is past its retention.
HostForget(o) ==
  /\ operation[o].status \in {"succeeded", "failed"}
  /\ operation' = [operation EXCEPT ![o].status = "expired"]
  /\ UNCHANGED <<snapshot, tf, call, resource, net, sent>>

\* A call goes on by itself: every request has a timeout.
Advance(w) ==
  \/ Fence(w) \/ ClaimIntent(w) \/ Send(w) \/ Acknowledge(w) \/ NoAnswer(w)
  \/ ContinuePrivateInputs(w) \/ Observe(w) \/ Expired(w) \/ Settle(w)
  \/ readCompletedOperation(w) \/ ImportBind(w) \/ Finish(w)

Next ==
  \/ \E w \in Workers :
       \/ Create(w) \/ Mutate(w) \/ ReadFinishes(w) \/ ReadCompletes(w) \/ ImportRead(w)
       \/ Advance(w) \/ Abort(w) \/ Crash(w)
  \/ \E m \in net : HostAccept(m) \/ HostRepeat(m)
  \/ \E o \in OperationIDs : HostRun(o) \/ HostWait(o) \/ HostForget(o)

\* The Host ends an Operation that can run again and again.
Fairness ==
  /\ \A w \in Workers : WF_vars(Advance(w))
  /\ \A o \in OperationIDs : SF_vars(HostRun(o))

Spec == Init /\ [][Next]_vars

FairSpec == Spec /\ Fairness

-----------------------------------------------------------------------------
Requests == BeginRequest \cup {NoRequest}

Before(i) == LastOf({j \in History(snapshot, Slot) : j < i})

\* Whatever was lost, delayed or repeated, the last thing that happened to a live
\* Resource at the Host is the latest intent of the journal with its exact
\* request, or the one before it while the latest is still an unanswered claim:
\* no mutation reaches the Host before its claim is durable, and none arrives
\* behind the journal's back afterwards.
NoEffectBehindJournal ==
  \A u \in UIDs :
    LET op == operation[resource[u].op]
    IN  resource[u].op # None =>
          /\ Latest # 0
          /\ \E i \in {Latest, Before(Latest)} \ {0} :
               /\ Rec(i).id = op.key
               /\ Rec(i).request = op.request
               /\ i # Latest => Rec(Latest).status = "claimed"

\* What the journal has settled is what the Host has: the UID at exactly that
\* generation, idle or in error, made by that Operation, or no Resource at all.
SettledAgreesWithHost ==
  Latest # 0 /\ Rec(Latest).status \in Settled =>
    LET rec == Rec(Latest)
        id  == RecordIdentity(rec)
    IN  /\ id.found =>
             /\ resource[id.uid].life = "live"
             /\ resource[id.uid].generation = id.generation
             /\ resource[id.uid].form = id.form
             /\ resource[id.uid].op = rec.opID
             /\ resource[id.uid].phase = IF rec.status = "applied" THEN "idle" ELSE "error"
        /\ id.deleted => \A u \in UIDs : resource[u].life # "live"

\* Terraform never holds a UID and a generation that the journal did not accept
\* or import: a stale state can only be an earlier point of the custody line.
StateHasCustody ==
  \A w \in Workers :
    tf[w] # NoState =>
      \/ \E i \in History(snapshot, Slot) :
           Rec(i).opUID = tf[w].uid /\ Rec(i).opGeneration = tf[w].generation
      \/ \E i \in ImportsOf(snapshot, Slot) :
           /\ snapshot.imports[i].uid = tf[w].uid
           /\ snapshot.imports[i].generation = tf[w].generation

\* "Delete releases state only after terminal success and an exact UID 404 or
\* valid 410 deletion marker" (docs/provider-host-api-v2-source.md).
ClearedOnlyWhenGone ==
  [][\A w \in Workers :
       tf[w] # NoState /\ tf'[w] = NoState =>
         /\ resource[tf[w].uid].life = "gone"
         /\ \E i \in History(snapshot, Slot) :
              Rec(i).status = "delete-confirmed" /\ Rec(i).opUID = tf[w].uid]_vars

\* A refresh of the address goes through: it is not refused, and what it expects at
\* the Host is there.
Recovers(w) ==
  LET path == ReadPath(w, tf[w])
  IN  /\ path # "refuse"
      /\ path = "completed" => ResultStands(Rec(Latest), ReadResource(Rec(Latest).opUID))
      /\ path = "resource" => ReadResource(tf[w].uid).generation = tf[w].generation

\* "An accepted ACK whose Terraform state was lost can be reconstructed by those
\* two reads without a second mutation" (docs/provider-host-api-v2-source.md):
\* with one address, whatever its crashes and lost answers, a refresh goes
\* through unless a claim has no Operation.
RefreshRecovers ==
  \A w \in Workers :
    call[w] = Idle /\ tf[w] # NoState /\ (Latest # 0 => Rec(Latest).status # "claimed") =>
      Recovers(w)

\* The same for every state but one that still links to an Operation applied
\* since and was then changed without a saved refresh.
LinkIsOld(state) ==
  \E i \in History(snapshot, Slot) :
    i # Latest /\ Rec(i).id = state.intent /\ Rec(i).status = "applied"

RefreshedRecovers ==
  \A w \in Workers :
    /\ call[w] = Idle /\ tf[w] # NoState /\ ~ LinkIsOld(tf[w])
    /\ Latest # 0 => Rec(Latest).status # "claimed"
    => Recovers(w)

\* "A pre-ACK claim with no Operation ID is deliberately halted: neither a new key
\* nor automatic replay or name-based adoption is authorized"
\* (docs/provider-host-api-v2-source.md): a claim that was sent, and that nobody
\* waits for any more, is not about to be sent again.
PreAckIsHalted ==
  \A w \in Workers :
    call[w].pc = "send" /\ sent[call[w].id] > 0 /\ Held(w).status = "claimed" =>
      \E v \in Workers : call[v].pc = "await" /\ call[v].id = call[w].id

\* Every call returns once the Host has ended the Operation it follows.
EveryCallReturns == \A w \in Workers : call[w] # Idle ~> call[w] = Idle

=============================================================================
