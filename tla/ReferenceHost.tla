---------------------------- MODULE ReferenceHost ----------------------------
(***************************************************************************)
(* The reference Host as a state machine: the handlers of HostOps and      *)
(* HostArtifacts, called by the callers of a world in any order.  ServeHTTP*)
(* holds one mutex for the whole of a request, so a request is one step.   *)
(*                                                                         *)
(* A world is a record:                                                    *)
(*   menu     the desired resources its callers ask for, each              *)
(*            [caller, space, ref, name, spec]                             *)
(*   adopts   those of them that are also imported                         *)
(*   verbs    what they do                                                 *)
(*   keys     the Idempotency-Keys of callers that may be interrupted      *)
(*   uploads  the manifests they upload                                    *)
(*   seeded   the <<tenant, manifest>> committed before it starts          *)
(*   operations, recreated, generations, reviews  how many Operations are  *)
(*            accepted in it, how often a key is created again, over all   *)
(*            keys, how many generations one incarnation has, and how many *)
(*            reviews the Host hands out to callers that keep them         *)
(***************************************************************************)
EXTENDS HostArtifacts

CONSTANTS
  Worlds,      \* the worlds by name, one of which is played
  MaxLost,     \* resources removed by an external change
  MaxTouches,  \* status touches of one incarnation
  MaxUploads   \* upload sessions

VARIABLES
  world,   \* the name of the world played
  host,    \* the Host
  lost,    \* the uids an external change removed
  reply    \* the last answer of the resource plane to an interruptible caller

vars == <<world, host, lost, reply>>

Played == Worlds[world]

----------------------------------------------------------------------------
\* Requests

NoFence == [inm |-> FALSE, gen |-> 0, body |-> 0, uid |-> NoUid, rev |-> 0]
CreateFence == [NoFence EXCEPT !.inm = TRUE]
GenerationFence(n) == [NoFence EXCEPT !.gen = n]

\* The key of a request that its caller never repeats.
OneShot == <<"once">>

\* Whether it is a success, the uid it names, and whether it is the body of an
\* Operation that had ended before.
NoReply == [ok |-> FALSE, uid |-> NoUid, past |-> FALSE]

Request(d) ==
  [caller |-> d.caller, space |-> d.space, ref |-> d.ref, name |-> d.name, spec |-> d.spec,
   prep |-> NoReview, fence |-> NoFence, native |-> "", idem |-> OneShot, probe |-> "",
   audit |-> "", echo |-> ""]

\* The fence of a caller that has just read the resource.
CurrentFence(h, key) == IF key \in Live(h) THEN GenerationFence(h.res[key].gen) ELSE CreateFence

Recreated(h) == FoldFunction(LAMBDA n, sum : (n - 1) + sum, 0, h.born)

Within(h) ==
  /\ Recreated(h) <= Played.recreated
  /\ \A k \in Live(h) : h.res[k].gen <= Played.generations /\ h.res[k].touches <= MaxTouches
  /\ Len(h.ops) <= Played.operations
  /\ Cardinality(h.prepares) <= Played.reviews
  /\ FoldFunction(LAMBDA n, sum : n + sum, 0, h.opened) <= MaxUploads

Asks(verb) == verb \in Played.verbs

\* The Host keeps every review and every idempotency record.  The model drops
\* what no request can name again, which no handler could tell from its being
\* there: the record of a request that is never repeated, and the reviews other
\* than the given ones, when nobody holds those.
Forget(h) == [h EXCEPT !.replays = [rk \in {x \in DOMAIN @ : x[3] # OneShot} |-> @[rk]]]
KeepReviews(h, reviews) == [Forget(h) EXCEPT !.prepares = @ \cap reviews]

----------------------------------------------------------------------------
\* Callers that read, review and act without being interrupted: they send a
\* review at once and never again

Becomes(r) ==
  /\ r.ans.code = OK
  /\ host' = KeepReviews(r.h, host.prepares)
  /\ Within(host')
  /\ UNCHANGED <<world, reply>>

ApplyReviewed(ask, reviewed, review) ==
  /\ reviewed.ans.code = OK
  /\ Becomes(HandleApply(reviewed.h, [ask EXCEPT !.prep = review]))

ReviewAndApply(d) ==
  LET key == KeyOf(d)
      ask == [Request(d) EXCEPT !.fence = CurrentFence(host, key)]
  IN  /\ Asks("apply")
      /\ ApplyReviewed(ask, HandlePrepare(host, ask), PrepareBindingPayload(host, key, d.ref, d.spec))
      /\ UNCHANGED lost

Adopt(d) ==
  /\ d \in Played.adopts
  /\ Becomes(HandleImport(host, [Request(d) EXCEPT !.fence = CurrentFence(host, KeyOf(d)),
                                                   !.native = "native"]))
  /\ UNCHANGED lost

Delete(d) ==
  /\ Asks("delete")
  /\ KeyOf(d) \in Live(host)
  /\ Becomes(HandleDelete(host, [Request(d) EXCEPT !.fence = CurrentFence(host, KeyOf(d))]))
  /\ UNCHANGED lost

\* The resource disappears under the Host, whoever points at it.
ExternalChange(d) ==
  LET key == KeyOf(d)
  IN  /\ Asks("external")
      /\ key \in Live(host)
      /\ Becomes(HandleDelete(host, [Request(d) EXCEPT !.fence = CurrentFence(host, key),
                                                       !.probe = "external"]))
      /\ lost' = lost \cup {host.res[key].uid}
      /\ Cardinality(lost') <= MaxLost

----------------------------------------------------------------------------
\* Callers whose requests interleave: each reviews, sends any review the Host
\* ever handed out, however stale, under any fence it may remember, retries
\* under the same key, and polls or cancels what was accepted

AnswersOf(r, past) ==
  /\ host' = Forget(r.h)
  /\ reply' = [ok |-> r.ans.code = OK, uid |-> r.ans.uid, past |-> past]
  /\ Within(host')
  /\ UNCHANGED <<world, lost>>

Answers(r) == AnswersOf(r, FALSE)

Remembered == {CreateFence} \cup {GenerationFence(n) : n \in 1..Played.generations}

Review(d) ==
  \E f \in Remembered :
    /\ Asks("review")
    /\ Answers(HandlePrepare(host, [Request(d) EXCEPT !.fence = f]))

Apply(d) ==
  \E f \in Remembered, k \in Played.keys, probe \in {"", "async"}, p \in host.prepares :
    /\ Asks("review")
    /\ p.spec = d.spec /\ p.key = KeyOf(d)
    /\ Answers(HandleApply(host, [Request(d) EXCEPT !.fence = f, !.idem = k, !.probe = probe, !.prep = p]))

Observe(d) ==
  \E f \in Remembered, k \in Played.keys :
    /\ Asks("observe")
    /\ Answers(HandleObserve(host, [Request(d) EXCEPT !.fence = f, !.idem = k, !.probe = "touch"]))

Withdraw(d) ==
  \E f \in Remembered, k \in Played.keys, probe \in {"", "async"} :
    /\ Asks("review")
    /\ Answers(HandleDelete(host, [Request(d) EXCEPT !.fence = f, !.idem = k, !.probe = probe]))

\* An Operation that has ended answers its body again, to a cancel too.
Poll(n) ==
  /\ Asks("review")
  /\ AnswersOf(HandleOperationGet(host, host.ops[n].owner, n), host.ops[n].done)

Cancel(n) ==
  /\ Asks("cancel")
  /\ AnswersOf(HandleOperationCancel(host, host.ops[n].owner, n, OneShot), host.ops[n].done)

----------------------------------------------------------------------------
\* Artifact uploads, by every caller of the menu

Callers == {d.caller : d \in Played.menu}

Stages(r) ==
  /\ Asks("upload")
  /\ host' = r.h
  /\ Within(host')
  /\ UNCHANGED <<world, lost, reply>>

Start(c) ==
  \E m \in Played.uploads, k \in Played.keys : Stages(HandleArtifactUploadStart(host, c, k, m))

Upload(c, n) ==
  \E b \in BlobDigests(Manifests[host.uploads[n].manifest]) :
    Stages(HandleArtifactBlobUpload(host, c, n, b, TRUE))

CommitUpload(c, n) == \E k \in Played.keys : Stages(HandleArtifactCommit(host, c, k, n))

Abandon(c, n) == Stages(HandleArtifactUploadAbandon(host, c, OneShot, n))

----------------------------------------------------------------------------
Init ==
  /\ world \in DOMAIN Worlds
  /\ host = [NewHost EXCEPT !.manifests = Played.seeded,
                            !.blobs = UNION {{<<s[1], b>> : b \in BlobDigests(Manifests[s[2]])} :
                                               s \in Played.seeded}]
  /\ lost = {}
  /\ reply = NoReply

OnResource ==
  \E d \in Played.menu : \/ ReviewAndApply(d) \/ Adopt(d) \/ Delete(d) \/ ExternalChange(d)
                        \/ Review(d) \/ Apply(d) \/ Observe(d) \/ Withdraw(d)

OnOperation == \E n \in DOMAIN host.ops : Poll(n) \/ Cancel(n)

OnUpload ==
  \E c \in Callers :
    Start(c) \/ \E n \in DOMAIN host.uploads : Upload(c, n) \/ CommitUpload(c, n) \/ Abandon(c, n)

Next == OnResource \/ OnOperation \/ OnUpload

Spec == Init /\ [][Next]_vars

----------------------------------------------------------------------------
\* Properties

\* relationHolders, which delete protection reads instead of the store, is
\* exactly the reverse of the stored relations, after every create, re-pin,
\* delete and external change ("keeps the UID reverse index exact").
IndexIsExact ==
  host.holders =
    UNION {{<<host.res[k].rels[i].uid, k>> : i \in DOMAIN host.res[k].rels} : k \in Live(host)}

\* "every stored derived rendering equals what the store now renders": no
\* mutation leaves another resource serving conditions that are no longer true.
RenderingIsCurrent ==
  \A k \in Live(host) : host.res[k].derived = DerivedConditions(host, k)

\* A relation points at an incarnation that is gone only when something outside
\* the Host removed it: no order of deletes, Operations and re-creates does.
DanglesOnlyWhenLost ==
  \A k \in Live(host) : \A i \in DOMAIN host.res[k].rels :
    Resolves(host, ScopeOf(k), host.res[k].rels[i]) \/ host.res[k].rels[i].uid \in lost

\* A deployment whose own relations all hold serves every attachment of its
\* worker: no legal sequence of requests leaves an endpoint, a trigger or a
\* consumer attached to a version without its handler.
AttachmentsAreServed ==
  \A d \in Live(host) :
    (KindOf(d) = DeploymentKind /\ RelationDrift(host, d) = NoDrift) =>
      \A a \in Live(host) :
        (/\ ScopeOf(a) = ScopeOf(d) /\ Forms[host.res[a].ref].entry # ""
         /\ WorkerOf(host, a) = WorkerOf(host, d)) =>
          \A i \in DOMAIN host.res[d].rels :
            host.res[d].rels[i].decl = VersionsDecl =>
              Forms[host.res[a].ref].entry
                \in host.res[TargetKey(ScopeOf(d), host.res[d].rels[i])].spec.handlers

\* What a client that read <<uid, revision>> saw is what is served under it:
\* an incarnation whose representation a step changes has a higher revision
\* after it, and its generation moves exactly with its spec.
Representation(r) == <<r.spec, r.rels, r.derived, r.touches>>

RevisionTellsEveryChange ==
  [][\A k \in Live(host) \cap Live(host') :
       LET old == host.res[k]
           new == host'.res[k]
       IN  old.uid = new.uid =>
             /\ Representation(old) # Representation(new) => new.rev > old.rev
             /\ new.rev >= old.rev
             /\ new.gen = old.gen + (IF old.spec # new.spec THEN 1 ELSE 0)]_vars

\* Exclusive holds stay exclusive: one deployment per worker, one consumer per
\* queue, one migration application per database, one class holder per class,
\* one subscription per topic and target (the pair of a uniquePair constraint),
\* and one holder of a claimed value or a native id in a tenant, whatever was
\* re-pinned, updated or re-created in between.
Hold(k, decl) ==
  LET r == host.res[k]
  IN  <<r.ref, ScopeOf(k), decl, RelationTargetUID(r.rels, decl),
        IF Forms[r.ref].exclusive[decl] = "by_class" THEN r.spec.class ELSE "">>

HeldPair(k, c) ==
  <<RelationTargetUID(host.res[k].rels, c[2]), RelationTargetUID(host.res[k].rels, c[3])>>

HoldsStayExclusive ==
  \A j, k \in Live(host) :
    j # k =>
      /\ \A c \in DOMAIN Forms[host.res[j].ref].exclusive :
           host.res[j].ref = host.res[k].ref => Hold(j, c) # Hold(k, c)
      /\ \A c \in Forms[host.res[j].ref].constraints :
           (c[1] = "uniquePair" /\ host.res[j].ref = host.res[k].ref /\ TenantOf(j) = TenantOf(k))
             => HeldPair(j, c) # HeldPair(k, c)
      /\ (TenantOf(j) = TenantOf(k) /\ Forms[host.res[j].ref].claims /\ Forms[host.res[k].ref].claims)
           => host.res[j].spec.claim # host.res[k].spec.claim
      /\ (TenantOf(j) = TenantOf(k) /\ host.res[j].nativeId # "")
           => host.res[j].nativeId # host.res[k].nativeId

\* No message can be dead-lettered for ever: the graph of queues and their
\* dead-letter queues has no cycle, neither the one consumers draw between
\* Edge queues nor the one pull queues draw themselves.
DeadLetterEdge ==
  {<<RelationTargetUID(host.res[k].rels, QueuePtr), RelationTargetUID(host.res[k].rels, DeadLetterPtr)>> :
      k \in {c \in Live(host) : KindOf(c) = ConsumerKind}}
    \cup {<<host.res[k].uid, RelationTargetUID(host.res[k].rels, "/deadLetter/queue")>> :
            k \in {c \in Live(host) : KindOf(c) = "PullQueue"}}

DeadLettersEnd ==
  LET next == {e \in DeadLetterEdge : e[2] # NoUid}
      nodes == {e[1] : e \in next}
  IN  \A subset \in SUBSET nodes \ {{}} : \E q \in subset : \A e \in next : e[1] = q => e[2] \notin subset

\* Traffic goes to one service: the revisions a deployment splits between all
\* belong to the anchor it names, as long as nothing outside removed one.
TrafficStaysWithinItsService ==
  \A k \in Live(host) : \A c \in Forms[host.res[k].ref].constraints :
    c[1] = "sameResolvedTarget" =>
      \A i \in DOMAIN host.res[k].rels :
        LET r == host.res[k].rels[i]
        IN  (r.decl = c[3] /\ Resolves(host, ScopeOf(k), r)) =>
              RelationTargetUID(host.res[TargetKey(ScopeOf(k), r)].rels, c[4])
                = RelationTargetUID(host.res[k].rels, c[2])

\* Applied migrations are history: whatever sets and applications come and go,
\* the ledger of a database is only ever extended, and it is always the whole
\* list of one committed set, never a mixture of two.
LedgersOnlyGrow ==
  [][\A u \in DOMAIN host'.ledgers :
       /\ IsPrefix(Ledger(host, u), host'.ledgers[u])
       /\ \E m \in host'.manifests : host'.ledgers[u] = MigrationFiles(Manifests[m[2]])]_vars

\* A success names something that exists: whether it is the first answer to a
\* request, the recorded one that a retry gets (replayRetired forgets those of
\* an incarnation that is gone) or the answer with which an Operation ends, "ok"
\* with a uid speaks of an incarnation that is live when it is given.  The body
\* of an Operation that ended before is history, and may name one that is gone.
SuccessIsLive ==
  (reply.ok /\ reply.uid # NoUid /\ ~reply.past) => reply.uid \in LiveUids(host)

\* An accepted Operation acts on the incarnation it was accepted for, and on
\* none that took its name since.
OperationsKeepTheirTarget ==
  [][\A n \in DOMAIN host.ops :
       LET op == host.ops[n]
       IN  (~op.done /\ host'.ops[n].done /\ host'.ops[n].code = OK /\ op.uid # NoUid) =>
             /\ host.res[op.key].uid = op.uid
             /\ op.verb = "apply" => host'.res[op.key].uid = op.uid]_vars

\* A spec changes only as reviewed: among the reviews the Host ever handed out,
\* whose stale ones are sent as well, the step that changes a spec has one of
\* exactly this spec for exactly this incarnation and generation, even when it
\* is an Operation that ends long after its request.
ChangesAreReviewed ==
  [][Asks("review") =>
       \A k \in Live(host) \cap Live(host') :
         (host.res[k].uid = host'.res[k].uid /\ host.res[k].spec # host'.res[k].spec) =>
           \E p \in host.prepares : p.uid = host.res[k].uid /\ p.gen = host.res[k].gen
                                      /\ p.spec = host'.res[k].spec]_vars

\* One request touches one tenant: its resources, its holdings, its sessions,
\* its Operations, its reviews and its idempotency records.
Belongings(h, t) ==
  <<{<<k, h.res[k]>> : k \in OfTenant(h, t)},
    {b \in h.blobs : b[1] = t}, {m \in h.manifests : m[1] = t},
    {<<n, h.uploads[n]>> : n \in {i \in DOMAIN h.uploads : h.uploads[i].owner[1] = t}},
    {<<n, h.ops[n]>> : n \in {i \in DOMAIN h.ops : h.ops[i].owner[1] = t}},
    {p \in h.prepares : TenantOf(p.key) = t},
    {<<rk, h.replays[rk]>> : rk \in {x \in DOMAIN h.replays : x[1][1] = t}}>>

ActsInOneTenant ==
  [][\A c, d \in Callers :
       \/ c[1] = d[1]
       \/ Belongings(host, c[1]) = Belongings(host', c[1])
       \/ Belongings(host, d[1]) = Belongings(host', d[1])]_vars

\* A deployment that lands later is not held up by the class holders that wait
\* for it: one that would be stored without them, and whose versions export
\* every class they name, is stored with them.  classHolderKinds lets a holder
\* be stored before any deployment for this very order.
WithoutClassHolders(h) ==
  [h EXCEPT !.res = [k \in {x \in DOMAIN @ : KindOf(x) \notin ClassHolderKinds} |-> @[k]]]

LaterDeploymentLands ==
  \A d \in Played.menu :
    LET key   == KeyOf(d)
        scope == ScopeOf(key)
        rels  == ResolveRelations(host, scope, d.spec)
        w     == RelationTargetUID(rels, WorkerPtr)
    IN  (/\ d.ref = DeploymentKind
         /\ ValidateDesiredSemantics(WithoutClassHolders(host), key, d.ref, d.spec) = OK
         /\ \A c \in ClassHolders(host, scope, w) :
              VersionsExportClass(host, scope, WeightedVersions(host, scope, rels),
                                  host.res[c].spec.class) = Serves) =>
          ValidateDesiredSemantics(host, key, d.ref, d.spec) = OK

\* A committed manifest stays whole: its tenant holds every blob it names,
\* whatever sessions that share a blob with it are abandoned, by whomever.
CommittedStaysWhole ==
  \A m \in host.manifests : \A b \in BlobDigests(Manifests[m[2]]) : HoldsBlob(host, m[1], b)

-----------------------------------------------------------------------------
(* Callers and the desired resources they ask for: what the small worlds     *)
(* and the conformance suite are written in.                                 *)

Alice == <<"t", "alice">>
Anne == <<"t", "anne">>
Bob == <<"u", "bob">>
Carol == <<"v", "carol">>

Desired(ref, name, refs) ==
  [caller |-> Alice, space |-> "s", ref |-> ref, name |-> name,
   spec |-> [refs |-> refs, handlers |-> {}, class |-> "", claim |-> "", manifest |-> "",
             spa |-> FALSE, value |-> 0, verdict |-> "ok"]]

As(d, caller) == [d EXCEPT !.caller = caller]
Valued(d, v) == [d EXCEPT !.spec.value = v]
Carrying(d, digest) == [d EXCEPT !.spec.manifest = digest]

Ref(ptr, kind, name) == [ptr |-> ptr, decl |-> ptr, kind |-> kind, name |-> name]
Item(decl, i, kind, name) == [ptr |-> decl \o ToString(i), decl |-> decl, kind |-> kind, name |-> name]
On(w) == <<Ref(WorkerPtr, WorkerKind, w)>>

=============================================================================
