---------------------------- MODULE GenericAdapter ----------------------------
(***************************************************************************)
(* The generic conformance plan over HTTP (internal/portableconformancev3/ *)
(* stable_generic_http_plan_adapter.go): a command of the plan becomes the *)
(* requests a client would send to the reference Host, and the answers     *)
(* become an observation in the plan's own names.                          *)
(*                                                                         *)
(* g is what the adapter remembers, functions of the plan's handles:       *)
(*   preps      the prepare binding of each <<actor, handle>>              *)
(*   ops        the Operation id behind each handle                        *)
(*   uploads    the upload id and the manifest handle of each upload       *)
(*   manifests  the digest each manifest handle was committed under        *)
(*   symbols    the plan's name for each uid of the Host, <<handle, n>>    *)
(*   seen       how many uids were named after each handle                 *)
(***************************************************************************)
EXTENDS GenericMemory, ReferenceHost

NewAdapter ==
  [preps |-> <<>>, ops |-> <<>>, uploads |-> <<>>, manifests |-> <<>>, symbols |-> <<>>, seen |-> <<>>]

Wired(h, g, obs) == [h |-> h, g |-> g, obs |-> obs]
WiredCode(h, g, code) == Wired(h, g, [code |-> code])

Authorization(actor) ==
  CASE actor = "primary" -> Alice
    [] actor = "alternate" -> Anne
    [] actor = "other tenant" -> Bob
    [] OTHER -> Nobody

----------------------------------------------------------------------------
\* What the Host says of a document by its Form alone: specDiagnostics runs the
\* schema and the constraints of one document, then come the slots of standard
\* services, the summed lists and the outputs only a Host assigns.

Breaks(form, kind, d) ==
  \E i \in DOMAIN form.declares :
    /\ form.declares[i][1] = kind
    /\ CASE kind = "orderedPair" -> d.body.pair[1] > d.body.pair[2]
         [] kind = "uniqueBy" -> Cardinality(ToSet(d.body.rows)) # Len(d.body.rows)

SpecDiagnostics(form, d) == d.body.unexpected \/ Breaks(form, "orderedPair", d) \/ Breaks(form, "uniqueBy", d)

RequiresMissingService(d) ==
  \E i \in DOMAIN d.body.services : d.body.services[i].required # "no" /\ d.body.services[i].protocol \notin Protocols

ValidateSummedMembers(form, d) ==
  \A i \in DOMAIN form.declares :
    form.declares[i][1] = "sum" => FoldSeq(LAMBDA x, sum : x + sum, 0, d.body.weights) = form.declares[i][2]

ValidateHostAssignedDesired(form, d) ==
  \A i \in DOMAIN form.declares : form.declares[i][1] = "hostAssigned" => ~d.body.assigned

SpecVerdict(form, d) ==
  IF SpecDiagnostics(form, d) THEN "diagnosed"
  ELSE IF RequiresMissingService(d) THEN "unsatisfied"
  ELSE IF ValidateSummedMembers(form, d) /\ ValidateHostAssignedDesired(form, d) THEN "ok" ELSE "refused_early"

SpecOf(ref, d) ==
  [refs |-> d.refs, handlers |-> {}, class |-> "", claim |-> d.claim, manifest |-> "", spa |-> FALSE,
   value |-> d.value, verdict |-> SpecVerdict(Forms[ref], d), body |-> d.body]
DesiredOf(spec) == [refs |-> spec.refs, claim |-> spec.claim, value |-> spec.value, body |-> spec.body]

----------------------------------------------------------------------------
\* Requests.  A header the plan leaves out, or gives as the empty string, is
\* absent; a generation in the body alone leaves the header out.

NotHandedOut == <<"never issued">>
Behind(f, handle, none) == IF handle \in DOMAIN f THEN f[handle] ELSE none

RawUid(g, symbol) ==
  IF symbol = NoUid THEN NoUid
  ELSE IF \E u \in DOMAIN g.symbols : g.symbols[u] = symbol
    THEN CHOOSE u \in DOMAIN g.symbols : g.symbols[u] = symbol ELSE NotHandedOut

ApplyFence(g, in) ==
  [inm |-> in.create /\ ~in.omit,
   gen |-> IF in.omit THEN 0 ELSE IF in.create THEN in.createFence ELSE IF in.body # 0 THEN 0 ELSE in.gen,
   body |-> IF in.disagree # 0 THEN in.disagree ELSE in.body,
   uid |-> RawUid(g, in.uid), rev |-> 0]

PlanFence(in) == [inm |-> in.create, gen |-> in.gen, body |-> 0, uid |-> NoUid, rev |-> in.rev]

\* The review echoes the digest of the document it reviewed.
EchoOf(in) ==
  IF in.hash = <<>> THEN "" ELSE IF in.hash = <<MemoryMaterialize(in.desired)>> THEN "honest" ELSE "wrong"

WireRequest(g, c, fence, probe) ==
  [caller |-> Authorization(c.actor), space |-> c.in.space, ref |-> c.in.ref, name |-> c.in.name,
   spec |-> SpecOf(c.in.ref, c.in.desired), prep |-> Behind(g.preps, <<c.actor, c.in.prep>>, NoReview),
   fence |-> fence, native |-> c.in.native, idem |-> c.in.idem, probe |-> probe, audit |-> c.in.audit,
   echo |-> EchoOf(c.in)]

----------------------------------------------------------------------------
\* Answers.  A uid met for the first time is named after the handle it was
\* asked under.

ResourceOutputs(ref) == AssignedOutputs(ref)

Symbolized(g, handle, uid) ==
  IF uid \in DOMAIN g.symbols THEN g
  ELSE [g EXCEPT !.symbols = (uid :> <<handle, Count(g.seen, handle) + 1>>) @@ @,
                 !.seen = (handle :> (Count(@, handle) + 1)) @@ @]

Normalized(g, handle, ans, ref, spec, derived) ==
  [handle |-> handle, uid |-> g.symbols[ans.uid], gen |-> ans.gen, rev |-> ans.rev, desired |-> DesiredOf(spec),
   outputs |-> ResourceOutputs(ref), ready |-> derived = <<"Available">>]

NormalizeResource(g, h, handle, ans, q, spec) ==
  Normalized(Symbolized(g, handle, ans.uid), handle, ans, q.ref, spec, h.res[KeyOf(q)].derived)

WiredResource(h, g, code, handle, ans, q, spec) ==
  Wired(h, Symbolized(g, handle, ans.uid),
        [code |-> code, resource |-> NormalizeResource(g, h, handle, ans, q, spec)])

----------------------------------------------------------------------------
\* Catalog and admission

ObservedForm(r) == [ref |-> r, kind |-> Forms[r].kind, update |-> Forms[r].update]

AvailabilityQuery(c) == [space |-> c.space] @@ (IF c.ref = "" THEN <<>> ELSE [ref |-> c.ref])

ListForms(c) ==
  LET ans == HandleFormsEnumerated([k \in DOMAIN AvailabilityQuery(c) |-> AvailabilityQuery(c)[k]])
  IN  IF ans.code # OK THEN [code |-> ans.code] ELSE [code |-> OK, forms |-> {ObservedForm(r) : r \in ans.forms}]

GetForm(c) ==
  LET ans == IF c.surface = "form support" THEN FormSupport(c.ref)
             ELSE HandleFormDefinition([space |-> "s", ref |-> c.ref])
  IN  IF c.surface = "standard service support" THEN HandleStandardServiceSupport(c.protocol)
      ELSE IF ans.code # OK THEN [code |-> ans.code] ELSE [code |-> OK, form |-> ObservedForm(ans.form)]

AdapterCatalog(h, g, c) ==
  Wired(h, g, CASE c.do = "discover" -> [code |-> OK]
                [] c.do = "list" -> ListForms(c)
                [] c.do = "get" -> GetForm(c))

AdapterValidate(h, g, q) ==
  Wired(h, g, IF HandleValidate(h, q) # OK THEN [code |-> OK, valid |-> FALSE]
              ELSE [code |-> OK, valid |-> TRUE, effective |-> DesiredOf(Materialize(q.spec))])

AdapterPrepared(g, c, q, binding, r) ==
  IF r.ans.code # OK THEN WiredCode(r.h, g, r.ans.code)
  ELSE Wired(r.h, [g EXCEPT !.preps = (<<c.actor, c.in.prep>> :> binding) @@ @],
             [code |-> OK, prepared |-> c.in.prep, effective |-> DesiredOf(binding.spec)])

AdapterPrepare(h, g, c, q) ==
  AdapterPrepared(g, c, q, PrepareBindingPayload(h, KeyOf(q), q.ref, Materialize(q.spec)), HandlePrepare(h, q))

AdapterAdmission(h, g, c) ==
  LET q == WireRequest(g, c, [PlanFence(c.in) EXCEPT !.inm = FALSE], "")
      refused == ResolveResourceWire(c.in)
  IN  IF refused # "" THEN WiredCode(h, g, refused)
      ELSE IF c.do = "validate" THEN AdapterValidate(h, g, q) ELSE AdapterPrepare(h, g, c, q)

----------------------------------------------------------------------------
\* Resources.  An accepted apply is known by the handle of its resource.

AdapterCode(in) == IF in.create THEN "created" ELSE OK

AdapterApplied(g, c, q, r) ==
  IF r.ans.code = "accepted"
    THEN Wired(r.h, [g EXCEPT !.ops = (c.in.handle :> r.ans.op) @@ @],
               [code |-> "accepted", op |-> c.in.handle, done |-> FALSE])
  ELSE IF r.ans.code # OK THEN WiredCode(r.h, g, r.ans.code)
  ELSE WiredResource(r.h, g, AdapterCode(c.in), c.in.handle, r.ans, q, Materialize(q.spec))

AdapterApply(h, g, c, q) == AdapterApplied(g, c, q, HandleApply(h, q))
AdapterImport(h, g, c, q) == AdapterApplied(g, c, q, HandleImport(h, q))

\* An answer that shows the resource as it stands
AdapterShown(g, c, q, r) ==
  IF r.ans.code # OK THEN WiredCode(r.h, g, r.ans.code)
  ELSE WiredResource(r.h, g, OK, c.in.handle, r.ans, q, r.h.res[KeyOf(q)].spec)

AdapterRead(h, g, c, q) == AdapterShown(g, c, q, [h |-> h, ans |-> HandleRead(h, q)])
AdapterObserve(h, g, c, q) == AdapterShown(g, c, q, HandleObserve(h, q))

AdapterDeleted(g, r) == WiredCode(r.h, g, IF r.ans.code = OK THEN "deleted" ELSE r.ans.code)
AdapterDelete(h, g, q) == AdapterDeleted(g, HandleDelete(h, q))

AdapterResource(h, g, c) ==
  CASE c.do = "read" -> AdapterRead(h, g, c, WireRequest(g, c, PlanFence(c.in), ""))
    [] c.do = "observe" -> AdapterObserve(h, g, c, WireRequest(g, c, PlanFence(c.in), c.effect))
    [] c.do = "delete" -> AdapterDelete(h, g, WireRequest(g, c, PlanFence(c.in), c.effect))
    [] c.do = "import" -> AdapterImport(h, g, c, WireRequest(g, c, PlanFence(c.in), ""))
    [] c.do = "apply" -> AdapterApply(h, g, c, WireRequest(g, c, ApplyFence(g, c.in), IF c.async THEN "async" ELSE ""))

----------------------------------------------------------------------------
\* Operations: polled until done, at most so many times.

PollLimit == AsyncOperationPolls + 3
NoOperation == 0

PolledUntilDone(h, caller, n) ==
  LET poll[i \in 0..PollLimit] ==
        IF i = 0 THEN Pending(h, n)
        ELSE IF poll[i - 1].ans.code = "pending" THEN HandleOperationGet(poll[i - 1].h, caller, n)
        ELSE poll[i - 1]
  IN  poll[PollLimit]

OperationTarget(h, n) ==
  [caller |-> h.ops[n].owner, space |-> h.ops[n].key[2], ref |-> h.ops[n].ref, name |-> NameOf(h.ops[n].key)]

AdapterEnded(h, g, handle, ans) ==
  CASE ans.code = "operation_cancelled" ->
         Wired(h, g, [code |-> "cancelled", op |-> handle, done |-> TRUE, cancelled |-> TRUE])
    [] ans.code # OK /\ ans.code # "operation_cancelled" -> Wired(h, g, [code |-> ans.code, op |-> handle, done |-> TRUE])
    [] ans.code = OK ->
         Wired(h, Symbolized(g, handle, ans.uid),
               [code |-> "completed", op |-> handle, done |-> TRUE,
                resource |-> NormalizeResource(g, h, handle, ans, OperationTarget(h, ans.op), h.ops[ans.op].spec)])

\* A refusal of the request itself names no Operation.
AdapterPolled(g, handle, r) ==
  IF r.ans.op = NoOperation THEN WiredCode(r.h, g, r.ans.code) ELSE AdapterEnded(r.h, g, handle, r.ans)

AdapterCancelled(g, handle, r) ==
  IF r.ans.op = NoOperation THEN WiredCode(r.h, g, r.ans.code)
  ELSE Wired(r.h, g, [code |-> "cancelled", op |-> handle, done |-> TRUE,
                      cancelled |-> r.ans.code = "operation_cancelled"])

AdapterOperation(h, g, c) ==
  LET n == Behind(g.ops, c.op, NoOperation)
  IN  IF c.do = "cancel"
        THEN AdapterCancelled(g, c.op, HandleOperationCancel(h, Authorization(c.actor), n, <<"cancel", c.op>>))
      ELSE AdapterPolled(g, c.op, PolledUntilDone(h, Authorization(c.actor), n))

----------------------------------------------------------------------------
\* Artifacts: the plan's blob as the one file of a static bundle, under the
\* size the plan declares for it.

StableGenericHTTPArtifact(blob, size) ==
  CHOOSE d \in DOMAIN Manifests :
    LET m == Manifests[d]
    IN  m.kind = "StaticAssetBundle" /\ Len(m.files) = 1 /\ m.files[1].digest = blob /\ m.files[1].size = size

UploadId(g, handle) == IF handle \in DOMAIN g.uploads THEN g.uploads[handle].id ELSE NotHandedOut

AdapterBegun(g, c, digest, r) ==
  IF r.ans.code # OK THEN WiredCode(r.h, g, r.ans.code)
  ELSE Wired(r.h, [g EXCEPT !.uploads = (c.upload :> [id |-> r.ans.upload, manifest |-> c.manifest, digest |-> digest]) @@ @],
             [code |-> OK, upload |-> c.upload, missing |-> r.ans.missing])

AdapterBegin(h, g, c, digest) ==
  AdapterBegun(g, c, digest, HandleArtifactUploadStart(h, Authorization(c.actor), c.idem, digest))

AdapterPutAnswered(g, c, r) ==
  IF r.ans.code # OK THEN WiredCode(r.h, g, r.ans.code) ELSE Wired(r.h, g, [code |-> "uploaded", upload |-> c.upload])

AdapterPut(h, g, c) ==
  AdapterPutAnswered(g, c, HandleArtifactBlobUpload(h, Authorization(c.actor), UploadId(g, c.upload), c.blob,
                                                    c.fault # "wrong bytes"))

AdapterCommitted(g, c, r) ==
  IF r.ans.code # OK THEN WiredCode(r.h, g, r.ans.code)
  ELSE Wired(r.h, [g EXCEPT !.manifests = (g.uploads[c.upload].manifest :> g.uploads[c.upload].digest) @@ @],
             [code |-> "committed", upload |-> c.upload, manifest |-> g.uploads[c.upload].manifest])

AdapterCommit(h, g, c) ==
  AdapterCommitted(g, c, HandleArtifactCommit(h, Authorization(c.actor), c.idem, UploadId(g, c.upload)))

AdapterGetManifest(h, c, digest) ==
  LET ans == HandleArtifactManifestRead(h, Authorization(c.actor), digest)
  IN  IF ans.code = OK THEN [code |-> OK, manifest |-> c.manifest] ELSE [code |-> ans.code]

AdapterHeadBlob(h, c) ==
  LET ans == HandleArtifactBlobHead(h, Authorization(c.actor), c.blob)
  IN  [code |-> ans.code, present |-> ans.code = OK]

AdapterArtifact(h, g, c) ==
  CASE c.do = "begin" -> AdapterBegin(h, g, c, StableGenericHTTPArtifact(c.blob, c.size))
    [] c.do = "put" -> AdapterPut(h, g, c)
    [] c.do = "commit" -> AdapterCommit(h, g, c)
    [] c.do = "get manifest" -> Wired(h, g, AdapterGetManifest(h, c, Behind(g.manifests, c.manifest, "absent")))
    [] c.do = "head blob" -> Wired(h, g, AdapterHeadBlob(h, c))

----------------------------------------------------------------------------
AdapterRouted(h, g, c) ==
  CASE c.plane = "catalog" -> AdapterCatalog(h, g, c)
    [] c.plane = "admission" -> AdapterAdmission(h, g, c)
    [] c.plane = "resource" -> AdapterResource(h, g, c)
    [] c.plane = "operation" -> AdapterOperation(h, g, c)
    [] c.plane = "artifact" -> AdapterArtifact(h, g, c)

\* A probe is a discovery request that asks for an error.
AdapterCall(h, g, c) ==
  LET refused == ServeRefusal(Authorization(c.actor), IF c.plane = "probe" THEN c.fault ELSE "")
  IN  IF refused # "" THEN WiredCode(h, g, refused) ELSE AdapterRouted(h, g, c)
=============================================================================
