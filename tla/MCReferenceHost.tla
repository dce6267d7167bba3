--------------------------- MODULE MCReferenceHost ---------------------------
(* ReferenceHost on small worlds for TLC, over the published Forms. *)
EXTENDS ReferenceHost, FormCatalogue

\* Idempotency-Keys: which of them a caller takes makes no difference.
CONSTANTS k1, k2, k3
Symmetry == Permutations({k1, k2})

PublishedForms ==
  [ModuleWorker |-> ModuleWorker, WorkerBundle |-> WorkerBundle,
   StaticAssetBundle |-> StaticAssetBundle, WorkerVersion |-> WorkerVersion,
   WorkerDeployment |-> WorkerDeployment, WorkerCustomDomain |-> WorkerCustomDomain,
   WorkerEndpoint |-> WorkerEndpoint, WorkerCronTrigger |-> WorkerCronTrigger,
   EdgeKVNamespace |-> EdgeKVNamespace, SQLiteDatabase |-> SQLiteDatabase,
   SQLiteMigrationSet |-> SQLiteMigrationSet,
   SQLiteMigrationApplication |-> SQLiteMigrationApplication,
   AtLeastOnceQueue |-> AtLeastOnceQueue, QueueConsumer |-> QueueConsumer,
   DurableWorkflow |-> DurableWorkflow, ActorNamespace |-> ActorNamespace,
   PullQueue |-> PullQueue, Topic |-> Topic, TopicSubscription |-> TopicSubscription,
   ContainerService |-> ContainerService, ContainerRevision |-> ContainerRevision,
   ContainerTraffic |-> ContainerTraffic,
   ContainerCustomDomain |-> ContainerCustomDomain]

\* The address that FormResource manages, in a world that has one
NoLane == [submitter |-> Alice, readers |-> {}, space |-> "s", ref |-> "PullQueue", name |-> "q", specs |-> {}]

World(menu, verbs) ==
  [menu |-> menu, adopts |-> {}, verbs |-> verbs, keys |-> {}, uploads |-> {}, seeded |-> {},
   operations |-> 1, recreated |-> 1, generations |-> 2, reviews |-> 3, lane |-> NoLane]

Legal == {"apply", "delete", "external"}

----------------------------------------------------------------------------
\* Manifests: a module bundle, two migration sets, of which one extends the
\* other, and two asset bundles that share a blob.

Entry(path, media, digest) ==
  [path |-> path, formed |-> TRUE, media |-> media, maps |-> "", bare |-> TRUE, size |-> 1,
   digest |-> digest]

Files(kind, files) == [kind |-> kind, main |-> "", modules |-> <<>>, files |-> files]

StoredManifests ==
  "bundle" :> [kind |-> "WorkerBundle", main |-> "main.js", files |-> <<>>,
               modules |-> <<Entry("main.js", "application/javascript+module", "js")>>]
    @@ "first" :> Files("MigrationBundle", <<Entry("1.sql", SQL, "one")>>)
    @@ "both" :> Files("MigrationBundle", <<Entry("1.sql", SQL, "one"), Entry("2.sql", SQL, "two")>>)
    @@ "other" :> Files("MigrationBundle", <<Entry("1.sql", SQL, "two")>>)
    @@ "site" :> Files("StaticAssetBundle", <<Entry("index.html", "text/html", "html"),
                                              Entry("logo.svg", "image/svg+xml", "logo")>>)
    @@ "docs" :> Files("StaticAssetBundle", <<Entry("logo.svg", "image/svg+xml", "logo")>>)

\* TLC keeps the value of a definition it meets by its own name.
MCForms == PublishedForms
MCManifests == StoredManifests
MCExports == "js" :> {"fetch", "scheduled", "queue"}
MCClasses == "js" :> {"A"}
MCBlobSize == [b \in {"js", "one", "two", "html", "logo"} |-> 1]

----------------------------------------------------------------------------
\* The Worker aggregate

Version(name, handlers) ==
  [Desired(VersionKind, name, On("w") \o <<Ref(BundlePtr, "WorkerBundle", "b")>>)
     EXCEPT !.spec.handlers = handlers]

Deployment(vs) ==
  Desired(DeploymentKind, "d",
          On("w") \o [i \in DOMAIN vs |-> Item(VersionsDecl, i, VersionKind, vs[i])])

Aggregate ==
  [World({Desired(WorkerKind, "w", <<>>),
          Carrying(Desired("WorkerBundle", "b", <<>>), "bundle"),
          Version("v1", {"fetch"}),
          Version("v2", {"fetch", "scheduled"}),
          Deployment(<<"v2">>),
          Deployment(<<"v1", "v2">>),
          Desired("WorkerCronTrigger", "c", On("w")),
          Desired("WorkerEndpoint", "e", On("w"))}, Legal)
     EXCEPT !.seeded = {<<"t", "bundle">>}]

\* A workflow and an actor namespace, whose classes the bundle does and does
\* not export
Holder(kind, name, class) == [Desired(kind, name, On("w")) EXCEPT !.spec.class = class]

Classes ==
  [World({Desired(WorkerKind, "w", <<>>),
          Carrying(Desired("WorkerBundle", "b", <<>>), "bundle"),
          Version("v1", {"fetch"}),
          Deployment(<<"v1">>),
          Holder("DurableWorkflow", "f", "A"),
          Holder("DurableWorkflow", "g", "A"),
          Holder("ActorNamespace", "n", "B")}, {"apply", "delete"})
     EXCEPT !.seeded = {<<"t", "bundle">>}]

\* Edge queues and the consumers that draw the dead-letter graph between them
Consumer(name, queue, dead) ==
  Desired(ConsumerKind, name, On("w") \o <<Ref(QueuePtr, "AtLeastOnceQueue", queue)>>
            \o [i \in DOMAIN dead |-> Ref(DeadLetterPtr, "AtLeastOnceQueue", dead[i])])

Consumers ==
  [World({Desired(WorkerKind, "w", <<>>),
          Carrying(Desired("WorkerBundle", "b", <<>>), "bundle"),
          Version("v1", {"queue"}),
          Deployment(<<"v1">>),
          Desired("AtLeastOnceQueue", "p", <<>>), Desired("AtLeastOnceQueue", "q", <<>>),
          Consumer("c", "p", <<"q">>), Consumer("c", "p", <<>>), Consumer("e", "q", <<"p">>)}, {"apply", "delete"})
     EXCEPT !.seeded = {<<"t", "bundle">>}]

\* Databases and their migrations
Application(name, set) ==
  Desired(MigrationKind, name, <<Ref(DatabasePtr, "SQLiteDatabase", "db"),
                                 Ref(MigrationSetPtr, "SQLiteMigrationSet", set)>>)
Set(name) == Carrying(Desired("SQLiteMigrationSet", name, <<>>), name)

Databases ==
  [World({Desired("SQLiteDatabase", "db", <<>>), Set("first"), Set("both"), Set("other"),
          Application("a1", "first"), Application("a2", "both"), Application("a3", "other")}, {"apply", "delete"})
     EXCEPT !.seeded = {<<"t", "first">>, <<"t", "both">>, <<"t", "other">>}]

\* Pull queues, topics and subscriptions
Queue(name, dead) ==
  Desired("PullQueue", name, [i \in DOMAIN dead |-> Ref("/deadLetter/queue", "PullQueue", dead[i])])

Subscription(name, target, dead) ==
  Desired("TopicSubscription", name,
          <<Ref("/topic", "Topic", "t"), Ref("/target", "PullQueue", target),
            Ref("/deadLetter", "PullQueue", dead)>>)

Messaging ==
  World({Queue("p", <<>>), Queue("p", <<"q">>), Queue("q", <<>>), Queue("q", <<"p">>),
         Desired("Topic", "t", <<>>), Subscription("x", "p", "q"), Subscription("y", "p", "q"),
         Subscription("y", "q", "p")}, {"apply", "delete"})

\* Container services
Revision(name, service) ==
  Desired("ContainerRevision", name, <<Ref("/service", "ContainerService", service)>>)
Traffic(service, revs) ==
  Desired("ContainerTraffic", "traffic",
          <<Ref("/service", "ContainerService", service)>>
            \o [i \in DOMAIN revs |->
                  Item("/revisions/*/containerRevision", i, "ContainerRevision", revs[i])])
Domain(name, service) ==
  [Desired("ContainerCustomDomain", name, <<Ref("/service", "ContainerService", service)>>)
     EXCEPT !.spec.claim = "example.com"]

Containers ==
  [World({Desired("ContainerService", "a", <<>>), Desired("ContainerService", "b", <<>>),
          Revision("r", "a"), Revision("s", "b"), Traffic("a", <<"r">>), Traffic("b", <<"s">>),
          Traffic("a", <<"r", "s">>)}, Legal)
     EXCEPT !.adopts = {Desired("ContainerService", "a", <<>>)}]

\* Interleaved callers
Protocol ==
  [World({Valued(Queue("q", <<>>), 1), Valued(Queue("q", <<>>), 2)}, {"review", "cancel"})
     EXCEPT !.keys = {k1, k2}]

\* ... of which each sends reviews of any generation and incarnation that is past
Stale ==
  [World({Valued(Queue("q", <<>>), 1), Valued(Queue("q", <<>>), 2)}, {"review"})
     EXCEPT !.keys = {OneShot}, !.operations = 0, !.generations = 3, !.reviews = 4]

Observed ==
  [World({Queue("q", <<>>)}, {"review", "observe"}) EXCEPT !.keys = {k1, k2}]

\* One name deleted and created again while an Operation on it is pending
Reborn ==
  [World({Queue("q", <<>>)}, {"review"}) EXCEPT !.keys = {k1, k2, k3}]

Linked ==
  [World({Queue("q", <<"r">>), Queue("r", <<>>)}, {"review"}) EXCEPT !.keys = {k1, k2}, !.reviews = 4]

\* Two tenants that use the same names, and claim the same host name
Tenants ==
  [World({Queue("q", <<"r">>), Queue("q", <<>>), Queue("r", <<>>),
          As(Queue("q", <<"r">>), Bob), As(Queue("r", <<>>), Bob)}, Legal)
     EXCEPT !.adopts = {Queue("r", <<>>), As(Queue("r", <<>>), Bob)}]

Domains ==
  [World({Desired("ContainerService", "a", <<>>), Domain("m", "a"), Domain("n", "a"),
          As(Desired("ContainerService", "a", <<>>), Bob), As(Domain("m", "a"), Bob)}, Legal)
     EXCEPT !.recreated = 0,
            !.adopts = {Desired("ContainerService", "a", <<>>), Domain("m", "a"), Domain("n", "a")}]

\* Uploads
Uploads ==
  [World({Desired("Topic", "t", <<>>), As(Desired("Topic", "t", <<>>), Anne),
          As(Desired("Topic", "t", <<>>), Bob)}, {"upload"})
     EXCEPT !.uploads = {"site", "docs"}, !.keys = {k1, k2}]

\* One world for each rule
RuleWorlds ==
  "Aggregate" :> Aggregate @@ "Classes" :> Classes @@ "Consumers" :> Consumers
    @@ "Databases" :> Databases @@ "Messaging" :> Messaging @@ "Containers" :> Containers
    @@ "Domains" :> Domains

\* ... and one for each way in which the requests of two callers interleave
ProtocolWorlds ==
  "Protocol" :> Protocol @@ "Stale" :> Stale @@ "Observed" :> Observed @@ "Reborn" :> Reborn @@ "Linked" :> Linked
    @@ "Tenants" :> Tenants @@ "Uploads" :> Uploads

ClassWorlds == "Classes" :> Classes
=============================================================================
