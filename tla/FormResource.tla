---------------------------- MODULE FormResource -----------------------------
(***************************************************************************)
(* One address of the retained Provider lane against the reference Host:   *)
(* v3FormResource (internal/provider/v3_lifecycle.go, v3_continuity.go,    *)
(* v3_state.go) calling the v1beta client (internal/clientv3).             *)
(*                                                                         *)
(* Terraform makes one call at a time on an address and saves the state    *)
(* the call returns.  A call is a sequence of requests, and everybody else *)
(* at the Host (the callers of ReferenceHost, and whoever polls an         *)
(* Operation) acts between them.  A request or its answer may be lost, an  *)
(* accepting answer may be unreadable, a call may run into its deadline    *)
(* and the Provider may die at any point.                                  *)
(*                                                                         *)
(* A world names the address: lane is [submitter, readers, space, ref,     *)
(* name, specs], the principal that changes it, the ones that refresh it   *)
(* and the specs its configuration may ask for; specs is {} in a world     *)
(* without one.                                                            *)
(***************************************************************************)
EXTENDS ReferenceHost

VARIABLES
  state,  \* the saved Terraform state of the address
  call,   \* the running call
  mine,   \* the uids that a request of this address created or imported
  told    \* the Operations that a returned Create or Delete was told of

lane == <<state, call, mine, told>>
laneVars == <<world, host, lost, reply, state, call, mine, told>>

Address == Played.lane

----------------------------------------------------------------------------
\* Terraform state: uid, generation, spec, relation_drift_reason,
\* pending_operation_id (0 when null), pending_operation_action, whose
\* retry_delete:<id> is <<"retry_delete", id>>, and Terraform's own taint

NoAction == <<>>
Unaddressable == Played.operations + 1

NotManaged ==
  [managed |-> FALSE, uid |-> NoUid, gen |-> 0, spec |-> <<>>, drift |-> FALSE,
   pending |-> 0, action |-> NoAction, tainted |-> FALSE]

FailedDeleteOperationForRetry(s) ==
  IF s.action # NoAction /\ s.action[1] = "retry_delete" THEN s.action[2] ELSE 0

\* A verified representation settles what was pending; a failed delete stays
\* recorded as the separator of the next one.
WriteState(s, uid, gen, spec, drift) ==
  [s EXCEPT !.managed = TRUE, !.uid = uid, !.gen = gen, !.spec = spec, !.drift = drift,
            !.pending = 0,
            !.action = IF FailedDeleteOperationForRetry(s) = 0 THEN NoAction ELSE @]

\* What a Create that was accepted but not verified leaves, tainted.
WriteAcceptedState(spec, uid, op) ==
  [NotManaged EXCEPT !.managed = TRUE, !.uid = uid, !.spec = spec, !.tainted = TRUE,
                 !.pending = IF op = 0 THEN Unaddressable ELSE op, !.action = <<"create">>]

\* What a Delete that was accepted but not verified leaves.
WriteAcceptedDelete(s, op) ==
  [s EXCEPT !.pending = IF op = 0 THEN Unaddressable ELSE op, !.action = <<"delete">>]

\* Mutant: only a delete keeps other mutations away.
MutRejectPendingOperation(s) == s.pending # 0 /\ s.action = <<"delete">>

\* No desired mutation is planned or sent while one is unresolved.
RejectPendingOperation(s) == s.pending # 0

----------------------------------------------------------------------------
\* What a refresh may conclude.  remove: an absent resource leaves the state;
\* keep: the marker outlives the read; uid: the incarnation the resource must
\* be; delete: how a pending delete ended.
Conclusion(remove, keep, uid, delete) ==
  [remove |-> remove, keep |-> keep, uid |-> uid, delete |-> delete]

NoPendingOperation(s) == Conclusion(TRUE, FALSE, s.uid, "")
Stop == Conclusion(FALSE, FALSE, NoUid, "stop")

\* Calls: pc is the request to make next

Idle == [pc |-> "idle", verb |-> "", by |-> <<>>, spec |-> <<>>, review |-> NoReview,
         op |-> 0, resume |-> Stop]

Calling(pc, verb, by, spec) ==
  [Idle EXCEPT !.pc = pc, !.verb = verb, !.by = by, !.spec = spec]

Ask(by, spec) ==
  Request([caller |-> by, space |-> Address.space, ref |-> Address.ref, name |-> Address.name,
           spec |-> spec])

AddressKey == ResourceKey(<<Address.submitter[1], Address.space>>, Forms[Address.ref].kind, Address.name)

\* A create fences on the free name, an update on uid and generation.
Fence(verb, s) ==
  IF verb = "create" THEN CreateFence
  ELSE [NoFence EXCEPT !.gen = s.gen, !.body = s.gen, !.uid = s.uid]

\* Mutant: the key does not name the incarnation.
MutIncarnationKey(operation, uid, gen, body) == <<operation, NoUid, gen, body>>

\* The Idempotency-Key names the operation, the incarnation and the body.
IncarnationKey(operation, uid, gen, body) == <<operation, uid, gen, body>>

\* The call returns and Terraform saves s.
Returns(s) == state' = s /\ call' = Idle

\* A call sends its own review only, and every call makes a new one.
HostBecomes(h) ==
  /\ host' = KeepReviews(h, {call'.review})
  /\ Within(host')
  /\ UNCHANGED <<world, lost, reply>>

HostKept == UNCHANGED <<world, host, lost, reply>>

----------------------------------------------------------------------------
\* Terraform starts a call.  ModifyPlan has cleared a recorded drift, which
\* makes an Update of an unchanged spec; a tainted instance is only replaced,
\* that is deleted and created.

Starts(c) == call.pc = "idle" /\ call' = c /\ HostKept /\ UNCHANGED <<state, mine, told>>

StartCreate(spec) ==
  ~state.managed /\ Starts(Calling("prepare", "create", Address.submitter, spec))

\* An in-place update of anything else stays with the Provider.
DesiredSpecUnchanged(spec, s) == spec = s.spec

StartUpdate(spec) ==
  /\ state.managed /\ ~state.tainted
  /\ ~RejectPendingOperation(state)
  /\ Forms[Address.ref].update
  /\ ~DesiredSpecUnchanged(spec, state) \/ state.drift
  /\ Starts(Calling("prepare", "update", Address.submitter, spec))

StartDelete ==
  /\ state.managed
  /\ ~RejectPendingOperation(state)
  /\ Starts(Calling("send", "delete", Address.submitter, state.spec))

\* The refresh of a state without a handle asks the Host nothing.
StartRead(by) ==
  /\ state.managed /\ state.pending # Unaddressable
  /\ Starts([Calling(IF state.pending = 0 THEN "read" ELSE "resume", "read", by, state.spec)
               EXCEPT !.resume = NoPendingOperation(state)])

StartImport(by) ==
  ~state.managed /\ Starts([Calling("read", "import", by, <<>>) EXCEPT !.resume = NoPendingOperation(state)])

\* The operator's decision, once the state has settled.
Untaint ==
  /\ call.pc = "idle" /\ state.tainted /\ state.pending = 0
  /\ state' = [state EXCEPT !.tainted = FALSE]
  /\ HostKept
  /\ UNCHANGED <<call, mine, told>>

----------------------------------------------------------------------------
\* Create and Update: prepare, then one PUT under the review; Delete: one
\* DELETE.  finishResourceMutation follows an accepted one to its end.

Prepare ==
  LET ask == [Ask(call.by, call.spec) EXCEPT !.fence = Fence(call.verb, state)]
      After(r) == /\ call' = IF r.ans.code = OK
                       THEN [call EXCEPT !.pc = "send",
                               !.review = PrepareBindingPayload(host, KeyOf(ask), ask.ref, ask.spec)]
                       ELSE Idle
                  /\ HostBecomes(r.h)
  IN  /\ call.pc = "prepare"
      /\ After(HandlePrepare(host, ask))
      /\ UNCHANGED <<state, mine, told>>

\* The outcome of a mutation that was accepted but has no verified result: a
\* Create and a Delete record it, an Update does not.
Unverified(op, uid) ==
  /\ Returns(CASE call.verb = "create" -> WriteAcceptedState(call.spec, uid, op)
               [] call.verb = "delete" -> WriteAcceptedDelete(state, op)
               [] call.verb = "update" -> state)
  /\ told' = IF call.verb = "update" \/ op = 0 THEN told ELSE told \cup {op}

\* A planned state carries no pending_operation_action over.
Verified(uid, gen) ==
  /\ Returns(WriteState([state EXCEPT !.action = NoAction, !.tainted = FALSE],
                        uid, gen, call.spec, FALSE))
  /\ UNCHANGED told

\* The answer to the mutation was read.
Answered(ans) ==
  CASE ans.code = "accepted" ->
         call' = [call EXCEPT !.pc = "await", !.op = ans.op] /\ UNCHANGED <<state, told>>
    [] ans.code = OK /\ call.verb # "delete" -> Verified(ans.uid, ans.gen)
    [] ans.code = OK /\ call.verb = "delete" -> Returns(NotManaged) /\ UNCHANGED told
    [] OTHER -> /\ Returns(IF call.verb = "delete" /\ ans.code = "resource_not_found"
                             THEN NotManaged ELSE state)
                /\ UNCHANGED told

\* A success that cannot be read: its uid is known when only its ETag is bad.
\* A 204 with a body is an error like any other.
Unreadable(ans) ==
  CASE ans.code = "accepted" -> Unverified(0, NoUid)
    [] ans.code = OK /\ call.verb # "delete" -> Unverified(0, NoUid) \/ Unverified(0, ans.uid)
    [] OTHER -> Returns(state) /\ UNCHANGED told

DeleteResource(ask) ==
  HandleDelete(host, [ask EXCEPT
    !.fence = GenerationFence(state.gen),
    !.idem = IncarnationKey("delete", state.uid, state.gen, FailedDeleteOperationForRetry(state))])

ApplyResource(ask, fence) ==
  HandleApply(host, [ask EXCEPT
    !.fence = fence, !.prep = call.review,
    !.idem = IncarnationKey("apply", fence.uid, fence.gen, call.review)])

Send ==
  \E probe \in {"", "async"} :
    LET ask == [Ask(call.by, call.spec) EXCEPT !.probe = probe]
        After(r) ==
          /\ Answered(r.ans) \/ Unreadable(r.ans) \/ (Returns(state) /\ UNCHANGED told)
          /\ HostBecomes(r.h)
          /\ mine' = IF call.verb = "create" /\ r.ans.code = OK THEN mine \cup {r.ans.uid} ELSE mine
    IN  /\ call.pc = "send"
        /\ After(IF call.verb = "delete" THEN DeleteResource(ask)
                 ELSE ApplyResource(ask, Fence(call.verb, state)))

\* awaitOperation: one poll.  The result of one that succeeded may not verify;
\* a delete whose target is already gone is done.
Await ==
  LET After(r) ==
        /\ CASE r.ans.code = "pending" -> UNCHANGED <<state, call, told>>
             [] r.ans.code = OK -> IF call.verb = "delete" THEN Returns(NotManaged) /\ UNCHANGED told
                                   ELSE Verified(r.ans.uid, r.ans.gen) \/ Unverified(call.op, NoUid)
             [] OTHER -> IF call.verb = "delete" /\ r.ans.code = "resource_not_found"
                           THEN Returns(NotManaged) /\ UNCHANGED told
                         ELSE Unverified(call.op, NoUid)
        /\ HostBecomes(r.h)
  IN  /\ call.pc = "await"
      /\ After(HandleOperationGet(host, call.by, call.op))
      /\ UNCHANGED mine

\* The wait ends first, or a poll fails.
Deadline ==
  /\ call.pc = "await"
  /\ Unverified(call.op, NoUid)
  /\ HostKept /\ UNCHANGED mine

----------------------------------------------------------------------------
\* Read: an unresolved mutation is consulted before the resource

ResumePendingDelete(s, ans) ==
  CASE ans.code \in {"operation_not_found", "pending"} -> Stop
    [] ans.code = OK -> Conclusion(TRUE, FALSE, s.uid, "succeeded")
    [] OTHER -> Conclusion(TRUE, FALSE, s.uid, "failed")

\* Without a uid nothing but the verified result of the Operation may settle
\* the state.
ResumePendingOperation(s, ans) ==
  CASE ans.code = OK -> IF s.uid \notin {NoUid, ans.uid} THEN Stop
                        ELSE Conclusion(TRUE, FALSE, ans.uid, "")
    [] ans.code # OK /\ s.uid = NoUid -> Stop
    [] ans.code = "operation_not_found" /\ s.uid # NoUid -> Conclusion(FALSE, FALSE, s.uid, "")
    [] ans.code = "pending" /\ s.uid # NoUid -> Conclusion(FALSE, TRUE, s.uid, "")
    [] OTHER -> NoPendingOperation(s)

Resume ==
  LET After(r, next) ==
        /\ call' = IF next = Stop THEN Idle ELSE [call EXCEPT !.pc = "read", !.resume = next]
        /\ HostBecomes(r.h)
      Consulted(r) == After(r, IF state.action = <<"delete">> THEN ResumePendingDelete(state, r.ans)
                               ELSE ResumePendingOperation(state, r.ans))
  IN  /\ call.pc = "resume"
      /\ Consulted(HandleOperationGet(host, call.by, state.pending))
      /\ UNCHANGED <<state, mine, told>>

\* Mutant: whatever has the name is the resource.
MutRequireStateUID(uid, found) == TRUE

\* Another incarnation under the name is an error that keeps the state.
RequireStateUID(uid, found) == uid \in {NoUid, found}

\* A relation the Host reports as broken is recorded, and never fails the read.
RelationDriftState(drift) == drift # NoDrift

\* A Form that declares update adopts the Host's spec, so that the next plan
\* shows what others changed.
Adopted(s, drift) ==
  LET r == host.res[AddressKey]
  IN  WriteState(s, r.uid, r.gen, IF Forms[Address.ref].update \/ ~s.managed THEN r.spec ELSE s.spec,
                 RelationDriftState(drift))

\* The state after the exact GET.
Settles(may, found) ==
  IF ~found THEN IF may.remove THEN NotManaged ELSE state
  ELSE IF ~RequireStateUID(may.uid, host.res[AddressKey].uid) THEN state
  ELSE IF may.delete = "succeeded" THEN state
  ELSE IF may.delete = "failed"
    THEN [Adopted(state, RelationDrift(host, AddressKey)) EXCEPT !.action = <<"retry_delete", state.pending>>]
  ELSE IF may.keep
    THEN [Adopted(state, RelationDrift(host, AddressKey)) EXCEPT !.pending = state.pending]
  ELSE Adopted(state, RelationDrift(host, AddressKey))

Read ==
  /\ call.pc = "read"
  /\ Returns(Settles(call.resume, HandleRead(host, Ask(call.by, call.spec)).code = OK))
  /\ mine' = IF call.verb = "import" /\ state'.managed THEN mine \cup {state'.uid} ELSE mine
  /\ HostKept /\ UNCHANGED told

----------------------------------------------------------------------------
\* A request that is not sent, an answer to a read that is lost, and the death
\* of the Provider: Terraform keeps the state it has.
Abort ==
  /\ call.pc # "idle"
  /\ Returns(state)
  /\ HostKept /\ UNCHANGED <<mine, told>>

\* The owner's other tools poll an Operation, which is when it commits.
Progress(n) ==
  /\ Address.specs # {}
  /\ ~host.ops[n].done
  /\ call' = call
  /\ HostBecomes(HandleOperationGet(host, host.ops[n].owner, n).h)
  /\ UNCHANGED <<state, mine, told>>

LaneInit == Init /\ state = NotManaged /\ call = Idle /\ mine = {} /\ told = {}

LaneNext ==
  \/ OnResource /\ UNCHANGED lane
  \/ OnOperation /\ UNCHANGED lane
  \/ OnUpload /\ UNCHANGED lane
  \/ \E spec \in Address.specs : StartCreate(spec) \/ StartUpdate(spec)
  \/ \E by \in Address.readers : StartRead(by) \/ StartImport(by)
  \/ StartDelete \/ Untaint
  \/ Prepare \/ Send \/ Await \/ Deadline \/ Resume \/ Read \/ Abort
  \/ \E n \in DOMAIN host.ops : Progress(n)

LaneSpec == LaneInit /\ [][LaneNext]_laneVars

----------------------------------------------------------------------------
\* Properties

\* State never comes to name a resource that this address neither created nor
\* imported, whoever deletes and re-creates the name between a request, its
\* Operation, its deadline and the refresh that resumes it ("nothing in the
\* table ever re-binds by name alone").
Ours == mine \cup {host.ops[n].committed : n \in {i \in DOMAIN host.ops : host.ops[i].owner = Address.submitter}}

StateIsOurs == state.uid # NoUid => state.uid \in Ours

\* A resource leaves the state only when it is gone: the incarnation the state
\* names is not live, and no Operation the state records can still create it.
DropsOnlyWhatIsGone ==
  [][(state.managed /\ ~state'.managed) =>
       /\ state.uid \notin LiveUids(host')
       /\ state.pending # 0 => state.pending \in DOMAIN host'.ops /\ host'.ops[state.pending].done]_laneVars

\* While an Operation that a Create or a Delete returned with is unresolved at
\* the Host, the address neither prepares nor sends another mutation, and the
\* state still holds the handle ("prevents planning or applying another desired
\* mutation while an accepted operation remains unresolved").
OneMutationAtATime ==
  \A n \in told :
    ~host.ops[n].done => state.pending = n /\ call.pc \notin {"prepare", "send"}
=============================================================================
