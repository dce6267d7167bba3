----------------------------- MODULE GenericMemory -----------------------------
(***************************************************************************)
(* The in-memory Host the generic conformance plan is first run against    *)
(* (internal/portableconformancev3/stable_generic_memory_adapter.go and    *)
(* stable_generic_constraints.go): a second, small implementation of the   *)
(* contract that knows no family, only what a Form declares.  The plan     *)
(* demands that the reference Host observes exactly what it observes.      *)
(*                                                                         *)
(* A memory m is a record of functions: res of keys, native of <<tenant,   *)
(* native id>>, replays of <<caller, Idempotency-Key>>, preps of <<caller, *)
(* handle>>, ops of handles, uploads of handles, born of handles; and of   *)
(* the sets blobs and manifests of <<tenant, name>>.                       *)
(*                                                                         *)
(* A Form of the plan also has declares, its declared constraints in       *)
(* order.  A desired document is [refs, claim, value, body], where body    *)
(* has the operands of the constraints that read the document alone: pair  *)
(* (<<>> or two numbers), rows (their keys), weights, assigned (it         *)
(* supplies a host-assigned output), unexpected (the schema rejects it)    *)
(* and services, a sequence of [protocol, required].                       *)
(*                                                                         *)
(* An input is [handle, ref, audit, name, space, desired, native, uid,     *)
(* gen, body, disagree, omit, createFence, rev, prep, hash, idem, create]; *)
(* 0, "" and <<>> stand for absent.  An observation is a record of the     *)
(* fields the observation sets.                                            *)
(***************************************************************************)
EXTENDS HostSurface

NewMemory ==
  [res |-> <<>>, native |-> <<>>, replays |-> <<>>, preps |-> <<>>, ops |-> <<>>, uploads |-> <<>>,
   born |-> <<>>, blobs |-> {}, manifests |-> {}]

Saw(m, obs) == [m |-> m, obs |-> obs]
SawCode(m, code) == Saw(m, [code |-> code])

\* Two principals of one tenant and one of another; anyone else is nobody.
MemoryAuthenticate(actor) ==
  CASE actor = "primary" -> <<"reference tenant", "primary">>
    [] actor = "alternate" -> <<"reference tenant", "alternate">>
    [] actor = "other tenant" -> <<"another tenant", "other">>
    [] OTHER -> Nobody

MemoryKey(caller, in) == ResourceKey(<<caller[1], in.space>>, Forms[in.ref].kind, in.name)
MemoryHolding(m, key) == key \in DOMAIN m.res
MemoryUnderRef(m, key, ref) == MemoryHolding(m, key) /\ m.res[key].in.ref = ref

MemoryObserved(r) ==
  [handle |-> r.in.handle, uid |-> r.uid, gen |-> r.gen, rev |-> r.rev, desired |-> r.desired,
   outputs |-> r.outputs, ready |-> TRUE]

SawResource(m, code, r) == Saw(m, [code |-> code, resource |-> MemoryObserved(r)])

----------------------------------------------------------------------------
\* Relations and pins.  A pin is a relation of the document with the uid and
\* the FormRef of the target it resolved to.

MemoryTarget(key, r) == ResourceKey(ScopeOf(key), r.kind, r.name)

MemoryRelationRefusal(m, key, ref, r) ==
  IF r.decl \notin DOMAIN Forms[ref].targets THEN "invalid_argument"
  ELSE IF ~MemoryHolding(m, MemoryTarget(key, r)) THEN "resource_not_found"
  ELSE IF m.res[MemoryTarget(key, r)].in.ref \notin Forms[ref].targets[r.decl] THEN "invalid_argument"
  ELSE OK

GenericMemoryResolveRelations(m, key, ref, d) ==
  FirstRefusal([i \in DOMAIN d.refs |-> MemoryRelationRefusal(m, key, ref, d.refs[i])])

MemoryPin(m, key, r) ==
  [ptr |-> r.ptr, decl |-> r.decl, kind |-> r.kind, name |-> r.name,
   uid |-> m.res[MemoryTarget(key, r)].uid, ref |-> m.res[MemoryTarget(key, r)].in.ref]

GenericMemoryCaptureRelationPins(m, key, d) == {MemoryPin(m, key, d.refs[i]) : i \in DOMAIN d.refs}

\* What a stored resource is related to still is what it was pinned to.
GenericMemoryResolvePinnedRelations(m, key) ==
  /\ GenericMemoryResolveRelations(m, key, m.res[key].in.ref, m.res[key].desired) = OK
  /\ m.res[key].pins = GenericMemoryCaptureRelationPins(m, key, m.res[key].desired)

PinsOf(pins, decl) == {p \in pins : p.decl = decl}
GenericMemoryOneRelation(pins, decl) == Cardinality(PinsOf(pins, decl)) = 1
NoRelation(pins, decl) == PinsOf(pins, decl) = {}
OnePin(pins, decl) == CHOOSE p \in pins : p.decl = decl
GenericMemoryPinnedUID(pins, decl) == OnePin(pins, decl).uid

\* The resources of the tenant other than the candidate itself.
OtherThan(m, key) == {k \in DOMAIN m.res : TenantOf(k) = TenantOf(key)} \ {key}
OtherOfRef(m, key, ref) == {k \in OtherThan(m, key) : m.res[k].in.ref = ref}

----------------------------------------------------------------------------
\* Declared constraints: <<kind, operands...>>.  Every violation is
\* invalid_argument, so the order of the constraints of a Form is not told
\* apart.  pins are those the candidate would be stored with.

GenericMemoryOrderedPair(d) == d.body.pair # <<>> /\ d.body.pair[1] <= d.body.pair[2]
GenericMemoryUniqueBy(d) == Cardinality(ToSet(d.body.rows)) = Len(d.body.rows)
GenericMemorySum(total, d) == FoldSeq(LAMBDA x, sum : x + sum, 0, d.body.weights) = total
GenericMemoryHostAssigned(d) == ~d.body.assigned

\* One holder of a value in the tenant, whatever Form claims it.
MemoryClaims(ref) == \E i \in DOMAIN Forms[ref].declares : Forms[ref].declares[i][1] = "claim"
GenericMemoryClaim(m, key, d) ==
  /\ d.claim # ""
  /\ \A k \in OtherThan(m, key) : MemoryClaims(m.res[k].in.ref) => m.res[k].desired.claim \notin {"", d.claim}

\* One holder of a target among the resources of this Form in this Space.
GenericMemoryExclusive(m, key, ref, decl, pins) ==
  NoRelation(pins, decl) \/
    (/\ GenericMemoryOneRelation(pins, decl)
     /\ \A k \in {x \in OtherOfRef(m, key, ref) : ScopeOf(x) = ScopeOf(key)} :
          /\ GenericMemoryOneRelation(m.res[k].pins, decl)
          /\ GenericMemoryPinnedUID(m.res[k].pins, decl) # GenericMemoryPinnedUID(pins, decl))

GenericMemoryDistinctPair(c, pins) ==
  /\ \A i \in {2, 3} : NoRelation(pins, c[i]) \/ GenericMemoryOneRelation(pins, c[i])
  /\ \/ \E i \in {2, 3} : NoRelation(pins, c[i])
     \/ GenericMemoryPinnedUID(pins, c[2]) # GenericMemoryPinnedUID(pins, c[3])

GenericMemoryPinnedPair(c, pins) == <<GenericMemoryPinnedUID(pins, c[2]), GenericMemoryPinnedUID(pins, c[3])>>
PairPinned(c, pins) == GenericMemoryOneRelation(pins, c[2]) /\ GenericMemoryOneRelation(pins, c[3])
GenericMemoryUniquePair(m, key, ref, c, pins) ==
  /\ PairPinned(c, pins)
  /\ \A k \in OtherOfRef(m, key, ref) :
       /\ PairPinned(c, m.res[k].pins)
       /\ GenericMemoryPinnedPair(c, m.res[k].pins) # GenericMemoryPinnedPair(c, pins)

\* A walk is [pins, seen, ends]: the edges of where it stands, the uids it has
\* met, and "" while it goes on.  It ends well at a resource without the edge
\* or of another Form, and badly at a uid met before or at drifted pins.
MemoryWalkOn(m, key, ref, decl, w) ==
  LET p == OnePin(w.pins, decl)
      t == MemoryTarget(key, p)
  IN  IF w.ends # "" THEN w
      ELSE IF NoRelation(w.pins, decl) THEN [w EXCEPT !.ends = "well"]
      ELSE IF ~GenericMemoryOneRelation(w.pins, decl) \/ p.uid \in w.seen THEN [w EXCEPT !.ends = "badly"]
      ELSE IF p.ref # ref THEN [w EXCEPT !.ends = "well"]
      ELSE IF ~GenericMemoryResolvePinnedRelations(m, t) THEN [w EXCEPT !.ends = "badly"]
      ELSE [w EXCEPT !.seen = @ \cup {p.uid}, !.pins = m.res[t].pins]

GenericMemoryAcyclic(m, key, ref, decl, pins) ==
  LET n == Min({MaxTraversal, Cardinality(DOMAIN m.res) + 2})
      walk[i \in 0..n] ==
        IF i > 0 THEN MemoryWalkOn(m, key, ref, decl, walk[i - 1])
        ELSE [pins |-> pins, seen |-> IF MemoryHolding(m, key) THEN {m.res[key].uid} ELSE {}, ends |-> ""]
  IN  walk[n].ends = "well"

\* Every member reaches, through its own pinned relation, what the anchor names.
GenericMemorySameResolvedTarget(m, key, c, pins) ==
  /\ GenericMemoryOneRelation(pins, c[2])
  /\ \A p \in PinsOf(pins, c[3]) :
       LET t == MemoryTarget(key, p)
       IN  /\ GenericMemoryResolvePinnedRelations(m, t)
           /\ GenericMemoryOneRelation(m.res[t].pins, c[4])
           /\ GenericMemoryPinnedUID(m.res[t].pins, c[4]) = GenericMemoryPinnedUID(pins, c[2])

MemoryConstraintHolds(m, key, ref, c, d, pins) ==
  CASE c[1] = "orderedPair" -> GenericMemoryOrderedPair(d)
    [] c[1] = "uniqueBy" -> GenericMemoryUniqueBy(d)
    [] c[1] = "sum" -> GenericMemorySum(c[2], d)
    [] c[1] = "hostAssigned" -> GenericMemoryHostAssigned(d)
    [] c[1] = "claim" -> GenericMemoryClaim(m, key, d)
    [] c[1] = "exclusive" -> GenericMemoryExclusive(m, key, ref, c[2], pins)
    [] c[1] = "acyclic" -> GenericMemoryAcyclic(m, key, ref, c[2], pins)
    [] c[1] = "distinctPair" -> GenericMemoryDistinctPair(c, pins)
    [] c[1] = "uniquePair" -> GenericMemoryUniquePair(m, key, ref, c, pins)
    [] c[1] = "sameResolvedTarget" -> GenericMemorySameResolvedTarget(m, key, c, pins)

GenericMemoryRejectSelfEdge(key, ref, d) ==
  IF \E i \in DOMAIN Forms[ref].declares, j \in DOMAIN d.refs :
       /\ Forms[ref].declares[i][1] = "acyclic"
       /\ d.refs[j].decl = Forms[ref].declares[i][2]
       /\ MemoryTarget(key, d.refs[j]) = key
    THEN "invalid_argument" ELSE OK

MemoryDeclaredRefusal(m, key, ref, d, admission, pins) ==
  IF \A i \in DOMAIN Forms[ref].declares :
       \/ admission /\ Forms[ref].declares[i][1] = "exclusive"
       \/ MemoryConstraintHolds(m, key, ref, Forms[ref].declares[i], d, pins)
    THEN OK ELSE "invalid_argument"

\* A hold is judged only when it would be taken, everything else also when the
\* document is reviewed.
GenericValidateMemoryConstraintsMode(m, key, ref, d, admission) ==
  GenericMemoryRejectSelfEdge(key, ref, d)
    ?? (GenericMemoryResolveRelations(m, key, ref, d)
    ??  MemoryDeclaredRefusal(m, key, ref, d, admission, GenericMemoryCaptureRelationPins(m, key, d)))

----------------------------------------------------------------------------
\* Catalog and admission

MemoryForm(r) == [ref |-> r, kind |-> Forms[r].kind, update |-> Forms[r].update]

MemoryCatalogGet(c) ==
  IF c.surface = "standard service support" THEN [code |-> OK, satisfiable |-> c.protocol \in Protocols]
  ELSE IF c.ref \notin DOMAIN Forms THEN [code |-> "form_unknown"]
  ELSE [code |-> OK, form |-> MemoryForm(c.ref)]

MemoryCatalog(m, c) ==
  CASE c.do = "discover" -> SawCode(m, OK)
    [] c.do = "list" ->
         IF ~ValidSpaceID(c.space) THEN SawCode(m, "invalid_argument")
         ELSE Saw(m, [code |-> OK, forms |-> {MemoryForm(r) : r \in {x \in DOMAIN Forms : c.ref \in {"", x}}}])
    [] c.do = "get" -> Saw(m, MemoryCatalogGet(c))

\* A service that does not say whether it is required is.
GenericMemoryStandardServices(d) ==
  IF \E i \in DOMAIN d.body.services :
       d.body.services[i].protocol \notin Protocols \cup {""} /\ d.body.services[i].required # "no"
    THEN "unsupported_capability" ELSE OK

\* The Snapshot fills in the defaults and holds the document to its schema,
\* and asks nothing of the declared constraints.
MemoryMaterialize(d) == IF d.value = Omitted THEN [d EXCEPT !.value = Default] ELSE d

MaterializeAndValidate(in) ==
  IF ~ValidSpaceID(in.space) THEN "invalid_argument"
  ELSE IF in.ref \notin DOMAIN Forms THEN "form_unknown"
  ELSE IF in.audit = Malformed \/ in.desired.body.unexpected THEN "invalid_argument"
  ELSE GenericMemoryStandardServices(in.desired)

MemoryVerdict(valid, d) ==
  IF valid THEN [code |-> OK, valid |-> TRUE, effective |-> d] ELSE [code |-> OK, valid |-> FALSE]

\* A validation answers; only what it could not judge is an error.
MemoryValidate(m, key, in, d) ==
  MemoryVerdict(GenericValidateMemoryConstraintsMode(m, key, in.ref, d, TRUE) = OK, d)

MemoryPrepareFence(m, key, gen) ==
  IF gen = 0 THEN IF MemoryHolding(m, key) THEN "invalid_argument" ELSE OK
  ELSE IF ~MemoryHolding(m, key) THEN "resource_not_found"
  ELSE IF gen # m.res[key].gen THEN "generation_conflict" ELSE OK

MemoryPrepare(m, caller, key, in, d) ==
  LET code == MemoryPrepareFence(m, key, in.gen) ?? GenericValidateMemoryConstraintsMode(m, key, in.ref, d, TRUE)
  IN  IF code # OK THEN SawCode(m, code)
      ELSE Saw([m EXCEPT !.preps = (<<caller, in.prep>> :> [in |-> in, desired |-> d, gen |-> in.gen]) @@ @],
               [code |-> OK, prepared |-> in.prep, effective |-> d])

MemoryAdmission(m, caller, c) ==
  LET code == MaterializeAndValidate(c.in)
  IN  IF ~ValidSpaceID(c.in.space) THEN SawCode(m, "invalid_argument")
      ELSE IF code # OK
        THEN IF c.do = "validate" /\ code = "invalid_argument" THEN Saw(m, MemoryVerdict(FALSE, <<>>))
             ELSE SawCode(m, code)
      ELSE IF c.do = "validate"
        THEN Saw(m, MemoryValidate(m, MemoryKey(caller, c.in), c.in, MemoryMaterialize(c.in.desired)))
      ELSE MemoryPrepare(m, caller, MemoryKey(caller, c.in), c.in, MemoryMaterialize(c.in.desired))

----------------------------------------------------------------------------
\* Apply and import

MemoryGeneration(in) == IF ~in.create /\ in.body # 0 THEN in.body ELSE in.gen

MemoryFenceShape(in) ==
  IF in.create
    THEN IF in.createFence # 0 \/ in.gen # 0 \/ in.body # 0 THEN "invalid_argument" ELSE OK
  ELSE IF in.omit \/ (in.gen = 0 /\ in.body = 0) \/ in.disagree \notin {0, in.gen}
    THEN "invalid_argument" ELSE OK

SameGenericResourceIntent(a, b) ==
  a.ref = b.ref /\ a.name = b.name /\ a.space = b.space /\ a.desired = b.desired

\* The review was of this document, by this caller, at this generation.
MemoryPreparationRefusal(m, caller, in, d) ==
  LET pk == <<caller, in.prep>>
      p  == m.preps[pk]
  IN  IF \/ pk \notin DOMAIN m.preps
         \/ p.gen # MemoryGeneration(in)
         \/ ~SameGenericResourceIntent(p.in, in)
         \/ p.desired # d
         \/ in.hash \notin {<<>>, <<p.desired>>}
        THEN "invalid_argument" ELSE OK

MemoryStoredRefusal(m, key, in, gen) ==
  IF in.create THEN IF MemoryHolding(m, key) THEN "generation_conflict" ELSE OK
  ELSE IF ~MemoryUnderRef(m, key, in.ref) THEN "resource_not_found"
  ELSE IF gen # m.res[key].gen THEN "generation_conflict"
  ELSE IF in.uid \notin {NoUid, m.res[key].uid} THEN "uid_mismatch" ELSE OK

MemoryUpdateRefusal(m, key, in, d) ==
  IF MemoryHolding(m, key) /\ m.res[key].desired # d /\ ~Forms[in.ref].update THEN "invalid_argument" ELSE OK

\* What the probe says the Form with an output contract answers.
AssignedOutputs(ref) ==
  IF \E i \in DOMAIN Forms[ref].declares : Forms[ref].declares[i][1] = "hostAssigned" THEN <<"assigned">> ELSE <<>>

MemoryCreated(m, key, in, d, outputs) ==
  [in |-> in, uid |-> <<in.handle, Count(m.born, in.handle) + 1>>, gen |-> 1, rev |-> 1, desired |-> d,
   pins |-> GenericMemoryCaptureRelationPins(m, key, d), native |-> in.native, outputs |-> outputs]

MemoryUpdated(m, key, d) ==
  LET step == IF m.res[key].desired # d THEN 1 ELSE 0
  IN  [m.res[key] EXCEPT !.desired = d, !.gen = @ + step, !.rev = @ + step,
                         !.pins = GenericMemoryCaptureRelationPins(m, key, d)]

MemoryStore(m, key, in, r) ==
  [m EXCEPT !.res = (key :> r) @@ @,
            !.born = IF MemoryHolding(m, key) THEN @ ELSE (in.handle :> (Count(@, in.handle) + 1)) @@ @]

MemoryCode(in) == IF in.create THEN "created" ELSE OK

MemoryReplayed(m, rk, key, in, saw) ==
  Saw([saw.m EXCEPT !.replays = (rk :> [key |-> key, print |-> in, obs |-> saw.obs]) @@ @], saw.obs)

MemoryCommit(m, rk, key, in, r) ==
  MemoryReplayed(m, rk, key, in, SawResource(MemoryStore(m, key, in, r), MemoryCode(in), r))

MemoryAccept(m, caller, in) ==
  Saw([m EXCEPT !.ops = (in.handle :> [owner |-> caller, in |-> in, state |-> "accepted", obs |-> <<>>]) @@ @],
      [code |-> "accepted", op |-> in.handle, done |-> FALSE])

MemoryApplyRefusal(m, caller, key, in, d) ==
  MemoryFenceShape(in)
    ?? (MemoryPreparationRefusal(m, caller, in, d)
    ?? (MemoryStoredRefusal(m, key, in, MemoryGeneration(in))
    ??  GenericValidateMemoryConstraintsMode(m, key, in.ref, d, FALSE)))

MemoryWrite(m, caller, key, in, d, async) ==
  LET code == MemoryApplyRefusal(m, caller, key, in, d)
  IN  IF code # OK THEN SawCode(m, code)
      ELSE IF async THEN MemoryAccept(m, caller, in)
      ELSE IF MemoryUpdateRefusal(m, key, in, d) # OK THEN SawCode(m, "invalid_argument")
      ELSE MemoryCommit(m, <<caller, in.idem>>, key, in,
                        IF MemoryHolding(m, key) THEN MemoryUpdated(m, key, d)
                        ELSE MemoryCreated(m, key, in, d, AssignedOutputs(in.ref)))

\* A key once used answers what it answered, or nothing else.
MemoryApply(m, caller, in, async) ==
  LET rk == <<caller, in.idem>>
  IN  IF rk \in DOMAIN m.replays
        THEN IF m.replays[rk].print = in THEN Saw(m, m.replays[rk].obs) ELSE SawCode(m, "invalid_argument")
      ELSE IF MaterializeAndValidate(in) # OK THEN SawCode(m, MaterializeAndValidate(in))
      ELSE MemoryWrite(m, caller, MemoryKey(caller, in), in, MemoryMaterialize(in.desired), async)

MemoryImportRefusal(m, key, in) ==
  IF in.create THEN IF MemoryHolding(m, key) THEN "generation_conflict" ELSE OK
  ELSE IF ~MemoryUnderRef(m, key, in.ref) THEN "resource_not_found"
  ELSE IF in.gen # m.res[key].gen THEN "generation_conflict"
  ELSE IF m.res[key].native \notin {"", in.native} THEN "import_conflict" ELSE OK

MemoryClaimRefusal(m, claim, key) ==
  IF claim \in DOMAIN m.native /\ m.native[claim] # key THEN "import_conflict" ELSE OK

\* An import of what exists adopts the native identity and leaves the document.
MemoryImported(m, key, in, d) ==
  IF in.create THEN MemoryCreated(m, key, in, d, <<>>)
  ELSE [m.res[key] EXCEPT !.native = in.native, !.pins = GenericMemoryCaptureRelationPins(m, key, d)]

MemoryAdopt(m, claim, key, in, r) ==
  SawResource([MemoryStore(m, key, in, r) EXCEPT !.native = (claim :> key) @@ @], MemoryCode(in), r)

MemoryImportOf(m, caller, key, in, d) ==
  LET claim == <<caller[1], in.native>>
      code  == MemoryClaimRefusal(m, claim, key)
                 ?? (GenericValidateMemoryConstraintsMode(m, key, in.ref, d, FALSE)
                 ??  MemoryImportRefusal(m, key, in))
  IN  IF code # OK THEN SawCode(m, code) ELSE MemoryAdopt(m, claim, key, in, MemoryImported(m, key, in, d))

MemoryImport(m, caller, in) ==
  IF MaterializeAndValidate(in) # OK THEN SawCode(m, MaterializeAndValidate(in))
  ELSE MemoryImportOf(m, caller, MemoryKey(caller, in), in, MemoryMaterialize(in.desired))

----------------------------------------------------------------------------
\* Read, observe and delete

MemoryCurrentRefusal(m, key, in) ==
  IF ~MemoryUnderRef(m, key, in.ref) THEN "resource_not_found"
  ELSE IF in.gen = 0 THEN "invalid_argument"
  ELSE IF in.gen # m.res[key].gen THEN "generation_conflict" ELSE OK

MemoryRead(m, key, in) ==
  IF MemoryUnderRef(m, key, in.ref) THEN SawResource(m, OK, m.res[key]) ELSE SawCode(m, "resource_not_found")

MemoryObserve(m, key, in, effect) ==
  LET r == [m.res[key] EXCEPT !.rev = IF effect = "touch" THEN @ + 1 ELSE @]
  IN  IF MemoryCurrentRefusal(m, key, in) # OK THEN SawCode(m, MemoryCurrentRefusal(m, key, in))
      ELSE SawResource([m EXCEPT !.res[key] = r], OK, r)

\* Nothing remembers a released resource: not its claim, not its replays.
ReleaseResource(m, key) ==
  [m EXCEPT !.res = [k \in DOMAIN @ \ {key} |-> @[k]],
            !.native = [c \in {x \in DOMAIN @ : x # <<TenantOf(key), m.res[key].native>>} |-> @[c]],
            !.replays = [rk \in {x \in DOMAIN @ : @[x].key # key} |-> @[rk]]]

MemoryDelete(m, key, in) ==
  LET code == MemoryCurrentRefusal(m, key, in)
                ?? (IF in.rev \notin {0, m.res[key].rev} THEN "revision_conflict" ELSE OK)
  IN  IF code # OK THEN SawCode(m, code) ELSE SawCode(ReleaseResource(m, key), "deleted")

MemoryResource(m, caller, c) ==
  CASE c.do = "read" -> MemoryRead(m, MemoryKey(caller, c.in), c.in)
    [] c.do = "observe" -> MemoryObserve(m, MemoryKey(caller, c.in), c.in, c.effect)
    [] c.do = "delete" -> MemoryDelete(m, MemoryKey(caller, c.in), c.in)
    [] c.do = "import" -> MemoryImport(m, caller, c.in)
    [] c.do = "apply" -> MemoryApply(m, caller, c.in, c.async)

----------------------------------------------------------------------------
\* Operations.  An accepted apply is applied when it is first looked at, in
\* full: what was accepted is judged again.

MemoryOperationObserved(m, n) ==
  LET op == m.ops[n]
  IN  IF op.state = "cancelled" THEN [code |-> "cancelled", op |-> n, done |-> TRUE, cancelled |-> TRUE]
      ELSE IF op.obs.code \in {"created", OK}
        THEN [code |-> "completed", op |-> n, done |-> TRUE, resource |-> op.obs.resource]
      ELSE [code |-> op.obs.code, op |-> n, done |-> TRUE]

MemorySettled(m, n) == Saw(m, MemoryOperationObserved(m, n))
MemoryFinish(n, saw) ==
  MemorySettled([saw.m EXCEPT !.ops[n].state = "applied", !.ops[n].obs = saw.obs], n)

MemoryOperation(m, caller, c) ==
  IF c.op \notin DOMAIN m.ops \/ m.ops[c.op].owner # caller THEN SawCode(m, "operation_not_found")
  ELSE IF c.do = "cancel"
    THEN Saw(IF m.ops[c.op].state = "accepted" THEN [m EXCEPT !.ops[c.op].state = "cancelled"] ELSE m,
             [code |-> "cancelled", op |-> c.op, done |-> TRUE, cancelled |-> TRUE])
  ELSE IF m.ops[c.op].state = "accepted"
    THEN MemoryFinish(c.op, MemoryApply(m, caller, m.ops[c.op].in, FALSE))
  ELSE MemorySettled(m, c.op)

----------------------------------------------------------------------------
\* Artifacts: a manifest of the plan names one blob, whose digest is its name.
\* An upload is [owner, blob, size, manifest, staged, committed].

MemoryOwns(m, caller, u) == u \in DOMAIN m.uploads /\ m.uploads[u].owner = caller

MemoryBegin(m, caller, c) ==
  Saw([m EXCEPT !.uploads = (c.upload :> [owner |-> caller, blob |-> c.blob, size |-> c.size,
                                          manifest |-> c.manifest, staged |-> FALSE, committed |-> FALSE]) @@ @],
      [code |-> OK, upload |-> c.upload, missing |-> {c.blob} \ {b \in {c.blob} : <<caller[1], b>> \in m.blobs}])

MemoryPut(m, caller, c) ==
  IF ~MemoryOwns(m, caller, c.upload) THEN SawCode(m, "artifact_missing")
  ELSE IF c.fault = "wrong bytes" \/ c.blob # m.uploads[c.upload].blob THEN SawCode(m, "artifact_invalid")
  ELSE Saw([m EXCEPT !.uploads[c.upload].staged = TRUE], [code |-> "uploaded", upload |-> c.upload])

MemoryCommitRefusal(m, tenant, u, lie) ==
  IF ~u.staged /\ <<tenant, u.blob>> \notin m.blobs THEN "artifact_missing"
  ELSE IF BlobSize[u.blob] # u.size + lie THEN "artifact_invalid" ELSE OK

MemoryArtifactCommit(m, caller, c) ==
  LET u    == m.uploads[c.upload]
      seen == [code |-> "committed", upload |-> c.upload, manifest |-> u.manifest]
      code == MemoryCommitRefusal(m, caller[1], u, IF c.fault = "wrong size" THEN 1 ELSE 0)
  IN  IF ~MemoryOwns(m, caller, c.upload) THEN SawCode(m, "artifact_missing")
      ELSE IF u.committed THEN Saw(m, seen)
      ELSE IF code # OK THEN SawCode(m, code)
      ELSE Saw([m EXCEPT !.blobs = @ \cup {<<caller[1], u.blob>>},
                         !.manifests = @ \cup {<<caller[1], u.manifest>>},
                         !.uploads[c.upload].committed = TRUE], seen)

MemoryGetManifest(m, caller, c) ==
  IF <<caller[1], c.manifest>> \in m.manifests THEN Saw(m, [code |-> OK, manifest |-> c.manifest])
  ELSE SawCode(m, "artifact_missing")

MemoryHeadBlob(m, caller, c) ==
  LET present == <<caller[1], c.blob>> \in m.blobs
  IN  Saw(m, [code |-> IF present THEN OK ELSE "artifact_missing", present |-> present])

MemoryArtifact(m, caller, c) ==
  CASE c.do = "begin" -> MemoryBegin(m, caller, c)
    [] c.do = "put" -> MemoryPut(m, caller, c)
    [] c.do = "commit" -> MemoryArtifactCommit(m, caller, c)
    [] c.do = "get manifest" -> MemoryGetManifest(m, caller, c)
    [] c.do = "head blob" -> MemoryHeadBlob(m, caller, c)

----------------------------------------------------------------------------
MemoryRouted(m, caller, c) ==
  CASE c.plane = "catalog" -> MemoryCatalog(m, c)
    [] c.plane = "admission" -> MemoryAdmission(m, caller, c)
    [] c.plane = "resource" -> MemoryResource(m, caller, c)
    [] c.plane = "operation" -> MemoryOperation(m, caller, c)
    [] c.plane = "artifact" -> MemoryArtifact(m, caller, c)

\* A probe asks for an error by its code.
MemoryCall(m, c) ==
  IF MemoryAuthenticate(c.actor) = Nobody THEN SawCode(m, "unauthenticated")
  ELSE IF c.plane = "probe" THEN SawCode(m, IF c.fault \in ErrorCodes THEN c.fault ELSE "invalid_argument")
  ELSE MemoryRouted(m, MemoryAuthenticate(c.actor), c)
=============================================================================
