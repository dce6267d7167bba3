-------------------------- MODULE ConformanceRunner --------------------------
(***************************************************************************)
(* The portable-Host conformance runner (runner.go) as the scripts it      *)
(* plays against a Host.  A check is a sequence of steps, each one request *)
(* and what the runner demands of the answer; the runner reports the first *)
(* step whose answer is another.  What a check reads off the wire alone    *)
(* (headers, ETags, JSON shapes, paths, messages) is left out of its steps.*)
(*                                                                         *)
(* A step is a record:                                                     *)
(*   do        the request: prepare, apply, read, ...                      *)
(*   d         the desired resource it is about, and its caller            *)
(*   want      the code of the answer                                      *)
(*   fence     which generation fence it carries, see FenceOf              *)
(*   uid, rev  its expectedUid and If-Match                                *)
(*   key       its Idempotency-Key: "" one used once, "none" no header     *)
(*   review    "" when the runner prepares the apply itself, under the     *)
(*             same fence; else the note the review is taken from          *)
(*   audit, echo     its packageDigest and specDigest, see HostOps         *)
(*   probe, native   the probe header, the nativeId                        *)
(*   artifact, blob, whole   the manifest, the blob and whether the bytes  *)
(*             are those of the digest                                     *)
(*   filter    the parameters of the forms query                           *)
(*   protocol  the standard-service protocol asked about                   *)
(*   of        the note of the Operation or the upload session it is about *)
(*   note      the label under which its answer is noted                   *)
(*   as, same, moved   an earlier note, the fields of the answer that must *)
(*             equal it and those that must have moved since               *)
(*   is        fields of the answer with a fixed value                     *)
(*   shows     the reason of the Ready condition, "" for Available unless  *)
(*             the target may wait for a deployment, "any" for any         *)
(***************************************************************************)
EXTENDS ReferenceHost, HostSurface

Step(do, d, want, options) ==
  options @@
    [do |-> do, d |-> d, want |-> want, fence |-> "absent", uid |-> "", rev |-> "", key |-> "",
     review |-> "", audit |-> "", echo |-> "", probe |-> "", native |-> "", artifact |-> "", blob |-> "", whole |-> TRUE,
     filter |-> <<>>, protocol |-> "", of |-> "", note |-> "", as |-> "", same |-> {}, moved |-> {}, is |-> <<>>, shows |-> ""]

\* One request
Send(do, d, want, options) == <<Step(do, d, want, options)>>

Script(parts) == FlattenSeq(parts)

----------------------------------------------------------------------------
\* What the runner sends

\* A generation and a revision nothing reaches, and a uid that was never issued.
FarAhead == 999
NeverIssued == <<"never issued">>

CurrentOf(h, key) == IF key \in Live(h) THEN h.res[key] ELSE [uid |-> NeverIssued, gen |-> FarAhead, rev |-> FarAhead]

FenceOf(fence, cur) ==
  CASE fence = "create" -> CreateFence
    [] fence = "absent" -> NoFence
    [] fence = "current" -> GenerationFence(cur.gen)
    [] fence = "first" -> GenerationFence(1)
    [] fence = "stale" -> GenerationFence(FarAhead)
    [] fence = "body" -> [NoFence EXCEPT !.body = cur.gen]
    [] fence = "disagreeing" -> [GenerationFence(cur.gen) EXCEPT !.body = FarAhead]
    [] fence = "contradictory" -> [CreateFence EXCEPT !.gen = 1]

Fenced(s, notes, cur) ==
  [FenceOf(s.fence, cur) EXCEPT
     !.uid = CASE s.uid = "" -> NoUid
               [] s.uid = "current" -> cur.uid
               [] s.uid = "other" -> NeverIssued,
     !.rev = CASE s.rev = "" -> 0
               [] s.rev = "stale" -> FarAhead
               [] s.rev \notin {"", "stale"} -> notes[s.rev].ans.rev]

IdemOf(key) == CASE key = "" -> OneShot [] key = "none" -> NoIdem [] key \notin {"", "none"} -> <<key>>

Asked(s, notes, cur) ==
  [Request(s.d) EXCEPT !.fence = Fenced(s, notes, cur), !.idem = IdemOf(s.key), !.probe = s.probe,
                       !.native = s.native, !.audit = s.audit, !.echo = s.echo]

----------------------------------------------------------------------------
\* applyAs: without a review of its own the runner prepares first, and stops
\* when that is refused.  The review is not kept for later unless what it is
\* sent with is accepted only.

ReviewFence(q) == [NoFence EXCEPT !.gen = IF q.fence.inm THEN 0 ELSE q.fence.gen]

Reviewed(h, q) == PrepareBindingPayload(h, KeyOf(q), q.ref, Materialize(q.spec))

Forgetting(h, review, done) ==
  IF done.ans.code = "accepted" \/ review \in h.prepares THEN done
  ELSE [done EXCEPT !.h.prepares = @ \ {review}]

\* What was prepared, sent
SendReviewed(h, q, review, prepared) ==
  IF prepared.ans.code # OK THEN Same(h, "unprepared")
  ELSE Forgetting(h, review, HandleApply(prepared.h, [q EXCEPT !.prep = review]))

\* A digest that was never handed out
ReviewOfNothing == [NoReview EXCEPT !.ref = "nothing"]

ReviewFor(h, q, review, notes) ==
  CASE review = "" -> Reviewed(h, q)
    [] review = "of nothing" -> ReviewOfNothing
    [] review \notin {"", "of nothing"} -> notes[review].review

ApplyAs(h, q, review, notes) ==
  SendReviewed(h, q, ReviewFor(h, q, review, notes),
               IF review = "" THEN HandlePrepare(h, [q EXCEPT !.fence = ReviewFence(q)]) ELSE Same(h, OK))

Answered(h, ans) == [h |-> h, ans |-> ans]

\* The Operation or the session a step is about; an id nobody was given else.
OperationOf(s, notes) == IF s.of = "" THEN 0 ELSE notes[s.of].ans.op
UploadOf(s, notes) == IF s.of = "" THEN NoUid ELSE notes[s.of].ans.upload

\* The plane of a request and what refuses it before its handler
ByQuery == {"read", "observe", "delete"}
ByDocument == {"validate", "prepare", "apply", "import"}
RefusedEarly(s, q) ==
  LET gate == ServeRefusal(q.caller, q.probe)
  IN  IF gate # "" THEN gate
      ELSE CASE s.do \in ByQuery -> ExactPathQueryForm(q)
             [] s.do \in ByDocument -> ResolveResourceWire(q)
             [] OTHER -> ""

Routed(h, s, notes, q) ==
  CASE s.do = "forms" -> Answered(h, HandleFormsEnumerated(s.filter))
    [] s.do = "definition" -> Answered(h, HandleFormDefinition(q))
    [] s.do = "support" -> Answered(h, FormSupport(q.ref))
    [] s.do = "service" -> Answered(h, HandleStandardServiceSupport(s.protocol))
    [] s.do = "validate" -> Same(h, HandleValidate(h, q))
    [] s.do = "prepare" -> HandlePrepare(h, q)
    [] s.do = "apply" -> ApplyAs(h, q, s.review, notes)
    [] s.do = "read" -> Answered(h, HandleRead(h, q))
    [] s.do = "observe" -> HandleObserve(h, q)
    [] s.do = "import" -> HandleImport(h, q)
    [] s.do = "delete" -> HandleDelete(h, q)
    [] s.do = "poll" -> HandleOperationGet(h, q.caller, OperationOf(s, notes))
    [] s.do = "cancel" -> HandleOperationCancel(h, q.caller, OperationOf(s, notes), q.idem)
    [] s.do = "manifest" -> Answered(h, HandleArtifactManifestRead(h, q.caller, s.artifact))
    [] s.do = "head" -> Answered(h, HandleArtifactBlobHead(h, q.caller, s.blob))
    [] s.do = "start" -> HandleArtifactUploadStart(h, q.caller, q.idem, s.artifact)
    [] s.do = "blob" -> HandleArtifactBlobUpload(h, q.caller, UploadOf(s, notes), s.blob, s.whole)
    [] s.do = "commit" -> HandleArtifactCommit(h, q.caller, q.idem, UploadOf(s, notes))
    [] s.do = "abandon" -> HandleArtifactUploadAbandon(h, q.caller, q.idem, UploadOf(s, notes))

Sent(h, s, notes, q) ==
  LET code == RefusedEarly(s, q) IN IF code = "" THEN Routed(h, s, notes, q) ELSE Same(h, code)

----------------------------------------------------------------------------
\* What the runner demands

\* The runner reads no readiness off a worker or a class holder, which wait
\* for a deployment, nor off the synthetic second definition.
ReadyOptional(d) == Forms[d.ref].kind \in {WorkerKind} \cup ClassHolderKinds

Reason(derived) == IF derived[1] = "Available" THEN "Available" ELSE derived[2][1]

Shows(h, s, key) ==
  \/ s.shows = "any" \/ s.want # OK \/ s.do \notin {"apply", "read", "observe", "import"}
  \/ s.shows = "" /\ ReadyOptional(s.d)
  \/ Reason(h.res[key].derived) = (IF s.shows = "" THEN "Available" ELSE s.shows)

Moved(field, old, new) == IF field \in {"gen", "rev"} THEN new > old ELSE new # old

MeetsDemand(s, notes, r) ==
  /\ r.ans.code = s.want
  /\ \A f \in DOMAIN s.is : r.ans[f] = s.is[f]
  /\ \A f \in s.same : r.ans[f] = notes[s.as].ans[f]
  /\ \A f \in s.moved : Moved(f, notes[s.as].ans[f], r.ans[f])
  /\ Shows(r.h, s, KeyOf(s.d))

\* The first reviews of a step are not dropped while the runner has a note of
\* them.
Noted(s, notes, q, h, ans) ==
  IF s.note = "" THEN notes
  ELSE (s.note :> [ans |-> ans, review |-> IF s.do = "prepare" THEN Reviewed(h, q) ELSE NoReview]) @@ notes

----------------------------------------------------------------------------
\* The requests most checks are made of

Create(d) == Send("apply", d, OK, [fence |-> "create"])
CreateNoted(d, label) == Send("apply", d, OK, [fence |-> "create", note |-> label])
Update(d) == Send("apply", d, OK, [fence |-> "current"])
Read(d) == Send("read", d, OK, <<>>)
ReadNoted(d, label) == Send("read", d, OK, [note |-> label])

\* readRaw and requireNotReady
ReadShowing(d, reason) == Send("read", d, OK, [shows |-> reason])

\* expectResourceAbsent
Gone(d) == Send("read", d, "resource_not_found", <<>>)

\* requireUnmoved: what was noted is what is served.
Unmoved(d, label) ==
  Send("read", d, OK, [as |-> label, same |-> {"uid", "gen", "rev"}])
SameIncarnation(d, label) == Send("read", d, OK, [as |-> label, same |-> {"uid"}, shows |-> "any"])

\* deleteExisting
Discard(d) ==
  Send("read", d, OK, [shows |-> "any"]) \o Send("delete", d, OK, [fence |-> "current"])

DiscardAll(ds) == Script([i \in DOMAIN ds |-> Discard(ds[i])])
CreateAll(ds) == Script([i \in DOMAIN ds |-> Create(ds[i])])

\* refuseCreate, refuseUpdate, refuseImport, refuseClaimAtPrepare
RefusedCreate(d, code) == Send("apply", d, code, [fence |-> "create"]) \o Gone(d)
RefusedUpdate(d, code, label) ==
  Send("apply", d, code, [fence |-> "current"]) \o Send("read", d, OK, [as |-> label, same |-> {"gen"}])
RefusedImport(d, native, code) ==
  Send("import", d, code, [fence |-> "create", native |-> native]) \o Gone(d)
RefusedAtPrepare(d) == Send("prepare", d, "invalid_argument", <<>>) \o Gone(d)

\* The validate route reports what prepare then refuses.
Rejected(d) == Send("validate", d, "invalid_argument", <<>>) \o RefusedAtPrepare(d)

\* external-change probe: the resource goes whoever points at it.
LoseExternally(d) ==
  Send("read", d, OK, [shows |-> "any"])
    \o Send("delete", d, OK, [fence |-> "current", probe |-> "external"])

\* A create the Host answers with an Operation
AcceptedCreate(d, label) ==
  Send("apply", d, "accepted", [fence |-> "create", probe |-> "async", note |-> label])

\* pollOperation, with the polls an Operation takes
Awaited(d, label, code) ==
  Send("poll", d, "pending", [of |-> label]) \o Send("poll", d, code, [of |-> label])

\* The artifact plane addresses no resource.
Caller(c) == [Desired("ModuleWorker", "", <<>>) EXCEPT !.caller = c]

Started(c, artifact, lacking) ==
  Send("start", Caller(c), OK, [artifact |-> artifact, note |-> artifact, is |-> [missing |-> lacking]])
Uploaded(c, artifact, blob, code) == Send("blob", Caller(c), code, [of |-> artifact, blob |-> blob])
Committed(c, artifact, code) == Send("commit", Caller(c), code, [of |-> artifact])

\* Only what the Host lacks is uploaded.
UploadAndCommitManifestAs(c, artifact, lacking) ==
  LET blobs == SetToSeq(lacking)
  IN  Started(c, artifact, lacking)
        \o Script([i \in DOMAIN blobs |-> Uploaded(c, artifact, blobs[i], OK)])
        \o Committed(c, artifact, OK)
=============================================================================
