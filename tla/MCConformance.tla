---------------------------- MODULE MCConformance ----------------------------
(* The conformance suite, the generic plan and the runtime ABI runner for TLC. *)
EXTENDS ConformanceSuite, MCReferenceHost

\* The published Forms, a second group and a second definition of two of them,
\* and the synthetic Forms of the declared-constraint checks
EdgeKVNamespaceOfGroup2 == Form("EdgeKVNamespaceOfGroup2", "identity")
ConstraintNode ==
  [Updatable(Pointing(Form("ConstraintNode", "identity"), "/next" :> {"ConstraintNode"}))
     EXCEPT !.constraints = {<<"acyclic", "/next">>}]
StructuralConstraintHolder == Updatable(Form("StructuralConstraintHolder", "policy"))
PairForm(kind, constraint) ==
  [Pointing(Form(kind, "attachment"), "/left" :> {"ConstraintNode"} @@ "/right" :> {"ConstraintNode"})
     EXCEPT !.constraints = {<<constraint, "/left", "/right">>}]
DistinctPairHolder == PairForm("DistinctPairHolder", "distinctPair")
UniquePairHolder == PairForm("UniquePairHolder", "uniquePair")
ConstraintMember == Pointing(Form("ConstraintMember", "revision"), "/through" :> {"ConstraintNode"})
SameTargetHolder ==
  [Pointing(Form("SameTargetHolder", "deployment"),
            "/anchor" :> {"ConstraintNode"} @@ "/members/*" :> {"ConstraintMember"})
     EXCEPT !.constraints = {<<"sameResolvedTarget", "/anchor", "/members/*", "/through">>}]

\* The neutral Forms of the generic plan, with the constraints they declare; the
\* Host reads its holds and claims off the same declarations.
Declares(declares, kind) == \E i \in DOMAIN declares : declares[i][1] = kind
GraphConstraints == {"acyclic", "distinctPair", "uniquePair", "sameResolvedTarget"}
NeutralForm(f) ==
  [Form(f.kind, f.role) EXCEPT
     !.update = f.update, !.targets = f.targets, !.declares = f.declares,
     !.claims = Declares(f.declares, "claim"),
     !.exclusive = IF Declares(f.declares, "exclusive") THEN "/target" :> "alone" ELSE <<>>,
     !.constraints = {d \in {f.declares[i] : i \in DOMAIN f.declares} : d[1] \in GraphConstraints}]
NeutralForms(fs) == [ref \in DOMAIN fs |-> NeutralForm(fs[ref])]
Neutral(kind, role, update, targets, declares) ==
  [kind |-> kind, role |-> role, update |-> update, targets |-> targets, declares |-> declares]
Plain(kind) == Neutral(kind, "identity", TRUE, <<>>, <<>>)
HolderOf(kind, ref) == Neutral(kind, "attachment", FALSE, "/target" :> {ref}, <<<<"exclusive", "/target">>>>)
ClaimOf(kind) == Neutral(kind, "attachment", TRUE, <<>>, <<<<"claim">>>>)
NeutralPair(kind, constraint) ==
  Neutral(kind, "attachment", TRUE, "/left" :> {"NeutralNode"} @@ "/right" :> {"NeutralNode"},
          <<<<constraint, "/left", "/right">>>>)
PlanForms ==
  [RangeCounter |-> Neutral("RangeCounter", "identity", TRUE, <<>>, <<<<"orderedPair">>>>),
   RangeCounterDefinition2 |-> Plain("RangeCounter"),
   RangeGauge |-> Plain("RangeGauge"), RangeGaugeOfGroup2 |-> Plain("RangeGaugeOfGroup2"),
   RangeSequence |-> Plain("RangeSequence"), RevisionNote |-> Neutral("RevisionNote", "revision", FALSE, <<>>, <<>>),
   AssignedCounter |-> Neutral("AssignedCounter", "identity", TRUE, <<>>, <<<<"hostAssigned">>>>),
   CounterLease |-> HolderOf("CounterLease", "RangeCounter"),
   CounterLeaseDefinition2 |-> HolderOf("CounterLease", "RangeCounter"),
   CounterReservation |-> HolderOf("CounterReservation", "RangeSequence"),
   ClaimTicket |-> ClaimOf("ClaimTicket"), ClaimLease |-> ClaimOf("ClaimLease"),
   WeightedSet |-> Neutral("WeightedSet", "policy", TRUE, <<>>, <<<<"sum", 100>>>>),
   NeutralStructuralHolder |->
     Neutral("NeutralStructuralHolder", "policy", TRUE, <<>>, <<<<"orderedPair">>, <<"uniqueBy">>>>),
   NeutralNode |-> Neutral("NeutralNode", "identity", TRUE, "/next" :> {"NeutralNode"}, <<<<"acyclic", "/next">>>>),
   NeutralDistinctPairHolder |-> NeutralPair("NeutralDistinctPairHolder", "distinctPair"),
   NeutralUniquePairHolder |-> NeutralPair("NeutralUniquePairHolder", "uniquePair"),
   NeutralUniquePairHolderDefinition2 |-> NeutralPair("NeutralUniquePairHolder", "uniquePair"),
   NeutralMember |-> Neutral("NeutralMember", "revision", FALSE, "/through" :> {"NeutralNode"}, <<>>),
   NeutralSameTargetHolder |->
     Neutral("NeutralSameTargetHolder", "deployment", TRUE,
             "/anchor" :> {"NeutralNode"} @@ "/members/*" :> {"NeutralMember"},
             <<<<"sameResolvedTarget", "/anchor", "/members/*", "/through">>>>)]

ConformanceForms ==
  [ModuleWorker |-> ModuleWorker, WorkerBundle |-> WorkerBundle,
   StaticAssetBundle |-> StaticAssetBundle, WorkerVersion |-> WorkerVersion,
   WorkerDeployment |-> WorkerDeployment, WorkerCustomDomain |-> WorkerCustomDomain,
   WorkerEndpoint |-> WorkerEndpoint, WorkerCronTrigger |-> WorkerCronTrigger,
   EdgeKVNamespace |-> EdgeKVNamespace, SQLiteDatabase |-> SQLiteDatabase,
   SQLiteMigrationSet |-> SQLiteMigrationSet,
   SQLiteMigrationApplication |-> SQLiteMigrationApplication,
   AtLeastOnceQueue |-> AtLeastOnceQueue, QueueConsumer |-> QueueConsumer,
   DurableWorkflow |-> DurableWorkflow, ActorNamespace |-> ActorNamespace,
   PullQueue |-> PullQueue, Topic |-> Topic, TopicSubscription |-> TopicSubscription,
   ContainerService |-> ContainerService, ContainerRevision |-> ContainerRevision,
   ContainerTraffic |-> ContainerTraffic,
   ContainerCustomDomain |-> ContainerCustomDomain,
   EdgeKVNamespaceOfGroup2 |-> EdgeKVNamespaceOfGroup2,
   ConstraintNode |-> ConstraintNode,
   StructuralConstraintHolder |-> StructuralConstraintHolder,
   DistinctPairHolder |-> DistinctPairHolder, UniquePairHolder |-> UniquePairHolder,
   ConstraintMember |-> ConstraintMember, SameTargetHolder |-> SameTargetHolder,
   ModuleWorkerDefinition2 |-> ModuleWorker, UniquePairHolderDefinition2 |-> UniquePairHolder]
    @@ NeutralForms(PlanForms)

\* The manifests of the corpus and those the artifact checks derive
Module(path, digest) == Entry(path, "application/javascript+module", digest)
MapOf(path, digest) == [Entry(path \o ".map", SourceMap, digest) EXCEPT !.maps = path]
Bundle(main, modules) == [kind |-> "WorkerBundle", main |-> main, modules |-> modules, files |-> <<>>]
OneModule(digest) == Bundle("probe.js", <<Module("probe.js", digest)>>)
Page(digest) == Entry("index.html", "text/html", digest)

ConformanceManifests ==
  "worker bundle" :> OneModule("module")
    @@ "never committed" :> OneModule("uncommitted module")
    @@ "fetch only" :> OneModule("fetch module")
    @@ "unrelated" :> OneModule("unrelated module")
    @@ "ownership" :> OneModule("owned module")
    @@ "reference" :> OneModule("referenced module")
    @@ "assets" :> Files("StaticAssetBundle", <<Page("index page")>>)
    @@ "static site" :> Files("StaticAssetBundle", <<Page("site index")>>)
    @@ "schema" :> Files("MigrationBundle", <<Entry("0001.sql", SQL, "schema step")>>)
    @@ "schema and more" :> Files("MigrationBundle", <<Entry("0001.sql", SQL, "schema step"),
                                                       Entry("0002.sql", SQL, "more steps")>>)
    @@ "orphan source map" :> Bundle("probe.js", <<Module("probe.js", "module"), MapOf("other.js", "its map")>>)
    @@ "oversized" :> Bundle("probe.js", <<[Module("probe.js", "module") EXCEPT !.size = MaximumBundleBytes + 1]>>)
    @@ "mislabelled" :> Bundle("probe.js", <<[Module("probe.js", "module") EXCEPT !.size = 2]>>)
    @@ "bundle with files" :> [OneModule("module") EXCEPT !.files = <<Page("index page")>>]
    @@ "assets with modules" :>
         [Files("StaticAssetBundle", <<Page("index page")>>) EXCEPT !.modules = <<Module("probe.js", "module")>>]
    @@ "migrations with a main module" :>
         [Files("MigrationBundle", <<Entry("0001.sql", SQL, "schema step")>>) EXCEPT !.main = "probe.js"]
    @@ "main is a source map" :>
         Bundle("probe.js.map", <<Module("probe.js", "module"), MapOf("probe.js", "its map")>>)
    @@ "main beside its source map" :>
         Bundle("probe.js", <<Module("probe.js", "module"), MapOf("probe.js", "its map")>>)
    @@ "plan" :> Files("StaticAssetBundle", <<Page("plan blob")>>)
    @@ "plan size lie" :> Files("StaticAssetBundle", <<[Page("plan blob") EXCEPT !.size = 2]>>)
    @@ MCManifests

SuiteExports == "module" :> AllHandlers @@ "fetch module" :> {"fetch"} @@ MCExports
SuiteClasses == "module" :> {"ChatRoom", "OrderFulfilment"} @@ "fetch module" :> {} @@ MCClasses
SuiteBlobSize ==
  [b \in UNION {BlobDigests(ConformanceManifests[d]) : d \in DOMAIN ConformanceManifests} |-> 1]

\* The runtime ABI corpus as it is committed, its timings scaled to ticks
SourceOf(name, media, exports, identity) ==
  [name |-> name, media |-> media, exports |-> exports, identity |-> identity, strings |-> {identity} \ {""}]
ProbeModule == SourceOf("index.js", "javascript", <<HandlerVocabulary>>, "")
PeerModule == SourceOf("peer.js", "javascript", <<{"fetch"}>>, "peer")
Bytes(main, modules, exported, error) == [main |-> main, modules |-> modules, exported |-> exported, error |-> error]
RuntimeBundles ==
  "conformance-probe" :> Bytes("index.js", <<ProbeModule>>, <<HandlerVocabulary>>, "")
    @@ "conformance-peer" :> Bytes("peer.js", <<PeerModule>>, <<{"fetch"}>>, "")
    @@ "fetch-only" :> Bytes("f.js", <<SourceOf("f.js", "javascript", <<{"fetch"}>>, "")>>, <<{"fetch"}>>, "")
    @@ "unparseable" :> Bytes("b.js", <<SourceOf("b.js", "javascript", <<>>, "")>>, <<>>, "module_syntax_error")
    @@ "unsupported-media-type" :>
         Bytes("index.js", <<ProbeModule, SourceOf("p.html", "html", <<>>, "")>>, <<>>, "unsupported_media_type")
    @@ "missing-main-module" :> Bytes("worker.js", <<ProbeModule>>, <<>>, "module_not_found")

RuntimeDeployment ==
  [bundle |-> "conformance-probe", declared |-> HandlerVocabulary,
   vars |-> <<"LOG_LEVEL">>, sensitive |-> <<"API_SIGNING_TOKEN_NAME">>,
   bindings |-> <<[name |-> "CACHE", interface |-> "edge.kv"], [name |-> "EVENTS", interface |-> "edge.queue"],
                  [name |-> "PEER", interface |-> "worker.service"]>>,
   services |-> <<[name |-> "PRIMARY_DB", protocol |-> "postgresql"],
                  [name |-> "MEDIA_STORE", protocol |-> "s3-compatible"]>>,
   env |-> {"API_SIGNING_TOKEN_NAME", "CACHE", "EVENTS", "LOG_LEVEL", "MEDIA_STORE_ACCESS_KEY_ID",
            "MEDIA_STORE_BUCKET", "MEDIA_STORE_ENDPOINT", "MEDIA_STORE_REGION",
            "MEDIA_STORE_SECRET_ACCESS_KEY", "PEER", "PRIMARY_DB_URL"},
   cron |-> "* * * * *", queue |-> "runtime-abi-conformance",
   peer |-> [bundle |-> "conformance-peer", declared |-> {"fetch"}, identity |-> "peer"]]

RuntimeCheck(name, operation, procedure) ==
  [name |-> name, operation |-> operation, procedure |-> procedure, bundle |-> "", declared |-> {},
   error |-> "", exported |-> <<>>, route |-> "", status |-> 0, document |-> "", deadline |-> 0, poll |-> 0,
   gap |-> 0, delay |-> 0, chunks |-> 0, sizes |-> <<>>, template |-> <<>>, bytes |-> "", through |-> ""]
Loading(name, bundle, declared, error, exported) ==
  [RuntimeCheck(name, "loadModule", "load") EXCEPT !.bundle = bundle, !.declared = declared, !.error = error,
                                              !.exported = exported]
Fetching(name, procedure, route, status, document) ==
  [RuntimeCheck(name, IF procedure = "request" THEN "fetch" ELSE procedure, procedure)
     EXCEPT !.route = route, !.status = status, !.document = document]
Uploading(name, route, through) ==
  [RuntimeCheck(name, "fetch", "requestStream") EXCEPT !.route = route, !.sizes = <<2, 2>>, !.gap = 1,
                                                  !.deadline = 3, !.through = through]
Downloading(name, route, through) ==
  [RuntimeCheck(name, "fetch", "responseStream") EXCEPT !.route = route, !.chunks = 2, !.gap = 4,
                                                   !.deadline = 6, !.through = through]
KvRoundTrip ==
  [RuntimeCheck("kv round trip", "environment", "kvRoundTrip")
     EXCEPT !.template = <<"kv", Placeholder>>, !.bytes = "kv bytes", !.deadline = 2, !.poll = 1]
DeferredTask ==
  [RuntimeCheck("wait until", "waitUntil", "waitUntil")
     EXCEPT !.template = <<"wait", Placeholder>>, !.delay = 2, !.deadline = 4, !.poll = 1]
QueueRoundTrip ==
  [RuntimeCheck("queue round trip", "queue", "queueRoundTrip")
     EXCEPT !.template = <<"queue", Placeholder>>, !.bytes = "queue bytes", !.deadline = 3, !.poll = 1]

CommittedContract ==
  [floor |-> <<1, 2, 3>>, bundles |-> RuntimeBundles, deployment |-> RuntimeDeployment,
   checks |->
     <<Loading("exports derived", "conformance-probe", HandlerVocabulary, "", <<HandlerVocabulary>>),
       Loading("media type refused", "unsupported-media-type", {"fetch"}, "unsupported_media_type", <<>>),
       Loading("main missing refused", "missing-main-module", {"fetch"}, "module_not_found", <<>>),
       Loading("unparseable refused", "unparseable", {"fetch"}, "module_syntax_error", <<>>),
       Loading("unexported handler refused", "fetch-only", {"fetch", "scheduled"}, "handler_not_exported", <<>>),
       Fetching("fetch arguments", "request", "handler", 200, "three arguments"),
       Fetching("fetch answers", "request", "health", 200, "healthy"),
       Fetching("throw is answered", "request", "throw", 500, ""),
       Fetching("environment", "environment", "env", 200, ""),
       Fetching("globals", "globals", "globals", 200, ""),
       KvRoundTrip,
       Uploading("request streams", "echo-stream", ""),
       Downloading("response streams", "stream", ""),
       Uploading("service request streams", "service-echo-stream", "PEER"),
       Downloading("service response streams", "service-stream", "PEER"),
       DeferredTask,
       [RuntimeCheck("scheduled", "scheduled", "scheduledObservation") EXCEPT !.deadline = 4, !.poll = 1],
       QueueRoundTrip>>]

\* And as an edit could leave it
Edited(c, name, edit(_)) == [c EXCEPT !.checks = [i \in DOMAIN @ |-> IF @[i].name = name THEN edit(@[i]) ELSE @[i]]]
Pinned(check) == [check EXCEPT !.template = <<"pinned">>]
Shared(check) == [check EXCEPT !.template = <<"kv", Placeholder>>]
Unmarked(check) == [check EXCEPT !.through = ""]
Marked(check) == [check EXCEPT !.through = "PEER"]
Impossible(check) == [check EXCEPT !.error = "handler_not_exported"]
Unpolled(check) == [check EXCEPT !.deadline = 0]
Unmeasured(check) == [check EXCEPT !.procedure = "unmeasured"]

Variant(c, edit) ==
  CASE edit = "none" -> c
    [] edit = "kv nonce pinned" -> Edited(c, "kv round trip", Pinned)
    [] edit = "queue nonce pinned" -> Edited(c, "queue round trip", Pinned)
    [] edit = "wait nonce pinned" -> Edited(c, "wait until", Pinned)
    [] edit = "nonce shared" -> Edited(c, "wait until", Shared)
    [] edit = "service check unmarked" -> Edited(c, "service response streams", Unmarked)
    [] edit = "other check marked" -> Edited(c, "response streams", Marked)
    [] edit = "impossible load failure" -> Edited(c, "main missing refused", Impossible)
    [] edit = "kv is not polled" -> Edited(c, "kv round trip", Unpolled)
    [] edit = "queue unmeasured" -> Edited(c, "queue round trip", Unmeasured)
    [] edit = "globals unmeasured" -> Edited(c, "globals", Unmeasured)
    [] edit = "globals unsorted" -> [c EXCEPT !.floor = <<2, 1, 3>>]
    [] edit = "peer runs the probe" -> [c EXCEPT !.deployment.peer.bundle = "conformance-probe"]
    [] edit = "probe carries the identity" -> [c EXCEPT !.bundles["conformance-probe"].modules[1].strings = {"peer"}]
    [] edit = "environment misstated" -> [c EXCEPT !.deployment.env = @ \ {"PRIMARY_DB_URL"}]
    [] edit = "names collide" -> [c EXCEPT !.deployment.vars = <<"CACHE">>]
    [] edit = "exports misstated" -> [c EXCEPT !.bundles["fetch-only"].exported = <<{"fetch", "queue"}>>]

RefusedEdits ==
  {"kv nonce pinned", "queue nonce pinned", "wait nonce pinned", "nonce shared", "service check unmarked",
   "other check marked", "impossible load failure", "kv is not polled", "queue unmeasured", "globals unsorted",
   "peer runs the probe", "probe carries the identity", "environment misstated", "names collide",
   "exports misstated"}
VariantsOf(c) == [edit \in RefusedEdits \cup {"none", "globals unmeasured"} |-> Variant(c, edit)]
RuntimeContracts == VariantsOf(CommittedContract)

Measured(corpus, loader, defects) == [corpus |-> corpus, loader |-> loader, defects |-> defects]
StoresNothing == {"drops writes", "drops messages"}
RuntimeSubjects ==
  {Measured("none", TRUE, <<{}, StoresNothing>>), Measured("none", TRUE, <<{"invents a length"}>>),
   Measured("none", TRUE, <<{"stalls"}>>),
   Measured("globals unmeasured", TRUE, <<{"buffers requests", "buffers responses"}>>),
   Measured("none", FALSE, <<{"short circuit"}>>)}
    \cup {Measured(edit, TRUE, defects) : edit \in RefusedEdits, defects \in {<<{}, StoresNothing>>, <<{"short circuit"}>>}}

ConformanceScripts == "the suite" :> Suite @@ "a bystander" :> <<Bystander>>
SuiteWorld == World({}, {})
ConformanceWorlds == "Suite" :> SuiteWorld @@ "Plan" :> SuiteWorld @@ "Runtime" :> SuiteWorld

\* The constants: TLC keeps the value of a definition it meets by its own name.
SuiteForms == ConformanceForms
SuiteManifests == ConformanceManifests
SuiteScripts == ConformanceScripts
SuiteWorlds == ConformanceWorlds
SuiteContracts == RuntimeContracts
SuiteSubjects == RuntimeSubjects
=============================================================================
