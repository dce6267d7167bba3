------------------------------- MODULE HostOps -------------------------------
(***************************************************************************)
(* The handlers of the resource plane and of Operations                    *)
(* (reference_host.go).  A handler takes the host h and a request q and    *)
(* answers [h |-> the host after it, ans |-> the response].                *)
(*                                                                         *)
(* A request is a record:                                                  *)
(*   caller, space  <<tenant, principal>> of the bearer token, and a Space *)
(*   ref, name      the exact FormRef and the name it addresses            *)
(*   spec, prep     the desired spec and the reviewed prepare binding      *)
(*   fence          [inm, gen, body, uid, rev]: If-None-Match: *, the      *)
(*                  generation header, the generation of the body, the     *)
(*                  expectedUid and If-Match; 0 and NoUid when absent      *)
(*   native         the nativeId of an import                              *)
(*   idem, probe    the Idempotency-Key and the conformance probe header   *)
(*   audit, echo    the packageDigest, which is evidence and no identity,  *)
(*                  and the review's specDigest: "", "honest" or "wrong"  *)
(* An answer is [code, uid, gen, rev, op]: "ok", "accepted" (with op) or a *)
(* stable error code, and the identity of the resource it represents.      *)
(* A prepare binding is the payload itself: its digest identifies it.      *)
(***************************************************************************)
EXTENDS HostStore

AsyncOperationPolls == 2

KeyOf(q) == ResourceKey(<<q.caller[1], q.space>>, Forms[q.ref].kind, q.name)

Refuse(code) == [code |-> code, uid |-> NoUid, gen |-> 0, rev |-> 0, op |-> 0]
Answer(h, key) ==
  [code |-> OK, uid |-> h.res[key].uid, gen |-> h.res[key].gen, rev |-> h.res[key].rev, op |-> 0]
Done(code) == [Refuse(code) EXCEPT !.code = code]
Accepted(n) == [Refuse("accepted") EXCEPT !.op = n]

Same(h, code) == [h |-> h, ans |-> Refuse(code)]

----------------------------------------------------------------------------
\* Idempotency: a successful answer is recorded under the caller, the Space and
\* the key, bound to the incarnation or the Operation it speaks of.  A record
\* whose incarnation is gone is dropped and the request runs again.

ReplayKey(q) == <<q.caller, q.space, q.idem>>

NoIdem == <<>>
Unbound == [uid |-> NoUid, op |-> 0]

\* Mutant: a record never retires.
MutReplayRetired(h, b) == FALSE

ReplayRetired(h, b) ==
  LET uid == IF b.uid = NoUid /\ b.op # 0 THEN h.ops[b.op].committed ELSE b.uid
  IN  uid # NoUid /\ uid \notin LiveUids(h)

\* The request line, the fences and the body, and not the probe header.
RequestFingerprint(verb, q) ==
  <<verb, KeyOf(q), q.ref, q.fence, q.spec, q.prep, q.native, q.audit, q.echo>>

RecordReplay(h, rk, print, ans, binding) ==
  [h EXCEPT !.replays = (rk :> [print |-> print, ans |-> ans, bind |-> binding]) @@ @]

DropReplay(h, rk) == [h EXCEPT !.replays = [k \in DOMAIN @ \ {rk} |-> @[k]]]

\* The Host with a retired record of this key dropped, where a request that is
\* not replayed starts.
Cleared(h, rk) ==
  IF rk \in DOMAIN h.replays /\ ReplayRetired(h, h.replays[rk].bind) THEN DropReplay(h, rk) ELSE h

\* done is [h, ans, bind]; a refusal is not recorded.
Recorded(rk, print, done) ==
  [h |-> IF done.ans.code \in {OK, "accepted"}
           THEN RecordReplay(done.h, rk, print, done.ans, done.bind) ELSE done.h,
   ans |-> done.ans]

\* done is the outcome of a request that starts in Cleared(h, rk).
Once(h, rk, print, done) ==
  IF rk[3] = NoIdem THEN Same(h, "invalid_argument")
  ELSE IF rk \in DOMAIN Cleared(h, rk).replays
    THEN [h |-> h, ans |-> IF h.replays[rk].print = print
                             THEN h.replays[rk].ans ELSE Refuse("invalid_argument")]
  ELSE Recorded(rk, print, done)

----------------------------------------------------------------------------
\* Fences

MutationFences(h, key, ref, f) ==
  LET gen == IF f.gen # 0 THEN f.gen ELSE f.body
      cur == h.res[key]
  IN  IF f.inm
        THEN IF f.gen # 0 \/ f.body # 0 THEN "invalid_argument"
             ELSE IF f.uid # NoUid THEN "uid_mismatch"
             ELSE IF key \in Live(h) THEN "generation_conflict" ELSE OK
      ELSE IF gen = 0 \/ (f.gen # 0 /\ f.body # 0 /\ f.gen # f.body) THEN "invalid_argument"
      ELSE IF ~ResourceUnderExactRef(h, key, ref) THEN "resource_not_found"
      ELSE IF f.uid # NoUid /\ f.uid # cur.uid THEN "uid_mismatch"
      ELSE IF gen # cur.gen THEN "generation_conflict" ELSE OK

DeleteFenceStale(f, r) ==
  IF f.gen = 0 THEN "invalid_argument"
  ELSE IF f.gen # r.gen THEN "generation_conflict"
  ELSE IF f.rev # 0 /\ f.rev # r.rev THEN "revision_conflict" ELSE OK

----------------------------------------------------------------------------
\* Validate and prepare

\* A default left out is the default written out, before anything reads the
\* spec and after the request was compared with the recorded ones.
Default == 0
Omitted == 100
Materialize(spec) == IF spec.value = Omitted THEN [spec EXCEPT !.value = Default] ELSE spec

HandleValidate(h, q) ==
  IF q.spec.verdict = "diagnosed" THEN "invalid_argument"
  ELSE ValidateAdmissionConstraints(h, KeyOf(q), q.ref, q.spec)

PrepareBindingPayload(h, key, ref, spec) ==
  LET current == ResourceUnderExactRef(h, key, ref)
  IN  [spec |-> spec, ref |-> ref, key |-> key,
       uid |-> IF current THEN h.res[key].uid ELSE NoUid,
       gen |-> IF current THEN h.res[key].gen ELSE 0]

PrepareFence(h, key, ref, gen) ==
  IF ResourceUnderExactRef(h, key, ref)
    THEN IF gen = 0 THEN "invalid_argument"
         ELSE IF gen # h.res[key].gen THEN "generation_conflict" ELSE OK
    ELSE IF gen # 0 THEN "resource_not_found" ELSE OK

Reviewable(h, key, q, spec) ==
  (IF spec.verdict = "diagnosed" THEN "invalid_argument" ELSE OK)
    ?? (ValidateStableStandardServiceSlots(spec)
    ?? (ValidateAdmissionConstraints(h, key, q.ref, spec)
    ??  PrepareFence(h, key, q.ref, q.fence.gen)))

\* code is what Reviewable says of it.
HandOut(h, binding, code) ==
  IF code # OK THEN Same(h, code) ELSE [h |-> [h EXCEPT !.prepares = @ \cup {binding}], ans |-> Done(OK)]

HandlePrepare(h, q) ==
  LET spec == Materialize(q.spec)
  IN  HandOut(h, PrepareBindingPayload(h, KeyOf(q), q.ref, spec), Reviewable(h, KeyOf(q), q, spec))

----------------------------------------------------------------------------
\* Apply

\* A request that carries no review
NoReview == [spec |-> <<>>, ref |-> "", key |-> NoKey, uid |-> NoUid, gen |-> 0]

\* What is not representable on a resource that exists.
UpdateRefusal(h, key, ref, spec) ==
  IF /\ key \in Live(h)
     /\ (~Forms[ref].update /\ spec # h.res[key].spec) \/ Forms[ref].role = "revision"
    THEN "invalid_argument" ELSE OK

\* Mutants: any review the Host handed out of this spec is good; a review of
\* this incarnation is, whatever its generation.
MutPrepareRefusal(h, key, ref, spec, prep) ==
  IF prep \in h.prepares /\ prep.spec = spec /\ prep.key = key THEN OK ELSE "invalid_argument"

MutPrepareGeneration(h, key, ref, spec, prep) ==
  LET now == PrepareBindingPayload(h, key, ref, spec)
  IN  IF prep \in h.prepares /\ prep = [now EXCEPT !.gen = prep.gen] THEN OK ELSE "invalid_argument"

\* The review still binds this resource at this generation.
PrepareRefusal(h, key, ref, spec, prep) ==
  IF prep \in h.prepares /\ prep = PrepareBindingPayload(h, key, ref, spec)
    THEN OK ELSE "invalid_argument"

\* What is stored once the migrations have run.
Stored(h, key, ref, spec, rels, nativeId, imported) ==
  StoreResource(h, key, RepinRelations(h, key, NextResource(h, key, ref, spec, rels, nativeId, imported), rels))

Settle(h, key, ref, spec, nativeId, imported) ==
  LET scope == ScopeOf(key)
      rels  == ResolveRelations(h, scope, spec)
  IN  Stored(ApplySqliteMigrationSuffix(h, scope, ref, rels), key, ref, spec, rels, nativeId, imported)

\* The answer of a step: the refusal, or the resource as it stands afterwards.
Settled(h, code, key, after) ==
  IF code # OK THEN Same(h, code) ELSE [h |-> after, ans |-> Answer(after, key)]

ApplyOnce(h, key, ref, spec, fence, prep) ==
  Settled(h, ValidateDesiredSemantics(h, key, ref, spec)
               ?? (MutationFences(h, key, ref, fence)
               ?? (UpdateRefusal(h, key, ref, spec)
               ??  PrepareRefusal(h, key, ref, spec, prep))),
          key, Settle(h, key, ref, spec, "", FALSE))

----------------------------------------------------------------------------
\* Operations.  One is a record: owner, verb, key, ref, spec, fence, prep, the
\* incarnation it was accepted for (NoUid when it names none), whether it is
\* done, the polls left, deleteTarget, the code it ended with, and the uid, the
\* generation and the revision of its result.

AcceptOperation(h, q, verb, uid) ==
  LET op == [owner |-> q.caller, verb |-> verb, key |-> KeyOf(q), ref |-> q.ref, spec |-> q.spec,
             fence |-> q.fence, prep |-> q.prep, uid |-> uid, done |-> FALSE,
             polls |-> AsyncOperationPolls, code |-> "", committed |-> NoUid, gen |-> 0, rev |-> 0,
             deleteTarget |-> IF verb = "delete" THEN KeyOf(q) ELSE NoKey]
      n  == Len(h.ops) + 1
  IN  [h |-> [h EXCEPT !.ops = Append(@, op)], ans |-> Accepted(n),
       bind |-> [uid |-> NoUid, op |-> n]]

\* Mutant: whatever holds the name under the same Form is the target.
MutAcceptedIncarnation(h, op) ==
  IF op.uid = NoUid \/ ResourceUnderExactRef(h, op.key, op.ref) THEN OK ELSE "resource_not_found"

\* The incarnation it was accepted for, or the refusal.
AcceptedIncarnation(h, op) ==
  IF op.uid = NoUid THEN OK
  ELSE IF op.key \notin Live(h) THEN "resource_not_found"
  ELSE IF h.res[op.key].uid # op.uid \/ h.res[op.key].ref # op.ref THEN "uid_mismatch" ELSE OK

CommitDelete(h, op) ==
  LET code == DeleteFenceStale(op.fence, h.res[op.key]) ?? DependencyInUse(h, op.key)
  IN  IF code # OK THEN Same(h, code)
      ELSE [h |-> RemoveResource(h, op.key), ans |-> Done(OK)]

Commit(h, op) ==
  LET code == AcceptedIncarnation(h, op)
  IN  IF code # OK THEN Same(h, code)
      ELSE IF op.verb = "delete" THEN CommitDelete(h, op)
      ELSE ApplyOnce(h, op.key, op.ref, op.spec, op.fence, op.prep)

CompleteOperation(n, r) ==
  [r.h EXCEPT !.ops[n].done = TRUE, !.ops[n].code = r.ans.code,
              !.ops[n].committed = r.ans.uid, !.ops[n].gen = r.ans.gen, !.ops[n].rev = r.ans.rev]

OwnedOperation(h, caller, n) == n \in DOMAIN h.ops /\ h.ops[n].owner = caller

Terminal(h, n) ==
  [h |-> h, ans |-> [Refuse(h.ops[n].code) EXCEPT !.uid = h.ops[n].committed, !.gen = h.ops[n].gen,
                                                  !.rev = h.ops[n].rev, !.op = n]]
Pending(h, n) == [h |-> h, ans |-> [Refuse("pending") EXCEPT !.op = n]]

HandleOperationGet(h, caller, n) ==
  LET op     == h.ops[n]
      polled == [h EXCEPT !.ops[n].polls = @ - 1]
  IN  IF ~OwnedOperation(h, caller, n) THEN Same(h, "operation_not_found")
      ELSE IF op.done THEN Terminal(h, n)
      ELSE IF op.polls > 1 THEN Pending(polled, n)
      ELSE Terminal(CompleteOperation(n, Commit(polled, op)), n)

HandleOperationCancel(h, caller, n, idem) ==
  IF idem = NoIdem THEN Same(h, "invalid_argument")
  ELSE IF ~OwnedOperation(h, caller, n) THEN Same(h, "operation_not_found")
  ELSE IF h.ops[n].done THEN Terminal(h, n)
  ELSE IF h.ops[n].polls <= 1 THEN Same(h, "operation_cancelled")
  ELSE Terminal(CompleteOperation(n, Same(h, "operation_cancelled")), n)

----------------------------------------------------------------------------
\* The resource plane

\* The record of a result is bound to the incarnation it represents, if any.
Bound(r) == [h |-> r.h, ans |-> r.ans, bind |-> [Unbound EXCEPT !.uid = r.ans.uid]]

\* The incarnation an accepted apply is pinned to
PinnedUID(h, q) ==
  IF ~q.fence.inm /\ ResourceUnderExactRef(h, KeyOf(q), q.ref) THEN h.res[KeyOf(q)].uid ELSE NoUid

ApplyOrAccept(h, q, spec) ==
  IF q.spec.verdict = "diagnosed" \/ q.prep = NoReview \/ q.echo = "wrong" THEN Bound(Same(h, "invalid_argument"))
  ELSE IF q.probe = "async" THEN AcceptOperation(h, [q EXCEPT !.spec = spec], "apply", PinnedUID(h, q))
  ELSE Bound(ApplyOnce(h, KeyOf(q), q.ref, spec, q.fence, q.prep))

HandleApply(h, q) ==
  Once(h, ReplayKey(q), RequestFingerprint("apply", q),
       ApplyOrAccept(Cleared(h, ReplayKey(q)), q, Materialize(q.spec)))

HandleRead(h, q) ==
  IF ResourceUnderExactRef(h, KeyOf(q), q.ref) THEN Answer(h, KeyOf(q))
  ELSE Refuse("resource_not_found")

HandleObserve(h, q) ==
  LET key == KeyOf(q)
      Code(g) == IF ~ResourceUnderExactRef(g, key, q.ref) THEN "resource_not_found"
                 ELSE IF q.fence.gen = 0 THEN "invalid_argument"
                 ELSE IF q.fence.gen # g.res[key].gen THEN "generation_conflict" ELSE OK
      Touch(g) == IF q.probe = "touch"
                    THEN [g EXCEPT !.res[key].touches = @ + 1, !.res[key].rev = @ + 1] ELSE g
      Do(g) == Bound(Settled(g, Code(g), key, Touch(g)))
  IN  Once(h, ReplayKey(q), RequestFingerprint("observe", q), Do(Cleared(h, ReplayKey(q))))

\* One managed resource per native resource and tenant, and never another.
ValidateNativeIdentityClaim(h, key, nativeId) ==
  IF \/ key \in Live(h) /\ h.res[key].nativeId \notin {"", nativeId}
     \/ \E k \in OfTenant(h, TenantOf(key)) \ {key} : h.res[k].nativeId = nativeId
    THEN "import_conflict" ELSE OK

ImportOnce(h, key, q, spec) ==
  Settled(h, (IF q.native = "" \/ q.spec.verdict = "diagnosed" THEN "invalid_argument" ELSE OK)
               ?? (ValidateDesiredSemantics(h, key, q.ref, spec)
               ?? (MutationFences(h, key, q.ref, q.fence)
               ??  ValidateNativeIdentityClaim(h, key, q.native))),
          key, Settle(h, key, q.ref, spec, q.native, TRUE))

HandleImport(h, q) ==
  Once(h, ReplayKey(q), RequestFingerprint("import", q),
       Bound(ImportOnce(Cleared(h, ReplayKey(q)), KeyOf(q), q, Materialize(q.spec))))

\* An external change is the Host's own removal of a resource others point at.
DeleteRefusal(h, key, q) ==
  IF ~ResourceUnderExactRef(h, key, q.ref) THEN "resource_not_found"
  ELSE DeleteFenceStale(q.fence, h.res[key])
         ?? (IF q.probe = "external" THEN OK ELSE DependencyInUse(h, key))

DeleteOrAccept(h, key, q, code) ==
  IF code # OK THEN Bound(Same(h, code))
  ELSE IF q.probe = "async" THEN AcceptOperation(h, q, "delete", h.res[key].uid)
  ELSE Bound([h |-> RemoveResource(h, key), ans |-> Done(OK)])

DeleteOnce(h, key, q) == DeleteOrAccept(h, key, q, DeleteRefusal(h, key, q))

HandleDelete(h, q) ==
  Once(h, ReplayKey(q), RequestFingerprint("delete", q), DeleteOnce(Cleared(h, ReplayKey(q)), KeyOf(q), q))
=============================================================================
