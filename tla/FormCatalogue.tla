---------------------------- MODULE FormCatalogue ----------------------------
(***************************************************************************)
(* The published Forms as the reference Host installs them                 *)
(* (internal/*formcatalog/catalog.go): what the rules of HostRules read of *)
(* each one.  A Form's kind names its exact FormRef; a relation that       *)
(* requires an exact Form, or an Interface only one Form provides, accepts *)
(* that one Form.                                                          *)
(***************************************************************************)
EXTENDS TLC

\* A Form whose every desired field is immutable, or a revision, declares no
\* update; the others say Updatable.
Form(kind, role) ==
  [kind |-> kind, role |-> role, update |-> FALSE, entry |-> "", artifact |-> "",
   claims |-> FALSE, targets |-> <<>>, uninstalled |-> {}, exclusive |-> <<>>, constraints |-> {},
   declares |-> <<>>]

Updatable(form) == [form EXCEPT !.update = TRUE]
Pointing(form, targets) == [form EXCEPT !.targets = targets]

\* moduleWorkerRef, activatingWorkerRef and classHolderWorkerRef
Worker == "/worker" :> {"ModuleWorker"}
Activating(form, handler) == [form EXCEPT !.targets = Worker, !.entry = handler]
ClassHolder(form) == [form EXCEPT !.targets = Worker, !.exclusive = "/worker" :> "by_class"]

----------------------------------------------------------------------------
\* The Edge Platform Family

ModuleWorker == Form("ModuleWorker", "identity")

WorkerBundle == [Form("WorkerBundle", "revision") EXCEPT !.artifact = "WorkerBundle"]

StaticAssetBundle ==
  [Form("StaticAssetBundle", "revision") EXCEPT !.artifact = "StaticAssetBundle"]

WorkerVersion ==
  Pointing(Form("WorkerVersion", "revision"),
           Worker @@ "/bundle" :> {"WorkerBundle"}
                  @@ "/assets/bundle" :> {"StaticAssetBundle"}
                  @@ "/kvBindings/*/resource" :> {"EdgeKVNamespace"}
                  @@ "/sqliteBindings/*/resource" :> {"SQLiteDatabase"}
                  @@ "/queueProducerBindings/*/resource" :> {"AtLeastOnceQueue"}
                  @@ "/serviceBindings/*/resource" :> {"ModuleWorker"}
                  @@ "/workflowBindings/*/resource" :> {"DurableWorkflow"}
                  @@ "/actorBindings/*/resource" :> {"ActorNamespace"})

WorkerDeployment ==
  [Updatable(Pointing(Form("WorkerDeployment", "deployment"),
                      Worker @@ "/versions/*/workerVersion" :> {"WorkerVersion"}))
     EXCEPT !.exclusive = "/worker" :> "alone"]

WorkerCustomDomain ==
  [Activating(Form("WorkerCustomDomain", "attachment"), "fetch") EXCEPT !.claims = TRUE]

WorkerEndpoint == Activating(Form("WorkerEndpoint", "attachment"), "fetch")

WorkerCronTrigger == Updatable(Activating(Form("WorkerCronTrigger", "attachment"), "scheduled"))

EdgeKVNamespace == Form("EdgeKVNamespace", "identity")

SQLiteDatabase == Form("SQLiteDatabase", "identity")

SQLiteMigrationSet ==
  [Form("SQLiteMigrationSet", "revision") EXCEPT !.artifact = "MigrationBundle"]

SQLiteMigrationApplication ==
  [Pointing(Form("SQLiteMigrationApplication", "attachment"),
            "/database" :> {"SQLiteDatabase"} @@ "/migrationSet" :> {"SQLiteMigrationSet"})
     EXCEPT !.exclusive = "/database" :> "alone"]

AtLeastOnceQueue == Updatable(Form("AtLeastOnceQueue", "identity"))

QueueConsumer ==
  [Updatable(Pointing(Form("QueueConsumer", "attachment"),
                      Worker @@ "/queue" :> {"AtLeastOnceQueue"}
                             @@ "/deadLetterQueue" :> {"AtLeastOnceQueue"}))
     EXCEPT !.entry = "queue", !.exclusive = "/queue" :> "alone"]

DurableWorkflow == ClassHolder(Form("DurableWorkflow", "identity"))

ActorNamespace == ClassHolder(Form("ActorNamespace", "identity"))

----------------------------------------------------------------------------
\* The generic families.  No rule of the Host is about their kinds; the entry
\* point an endpoint requires is read only off a member called worker.

ContainerService == Form("ContainerService", "identity")

ContainerRevision ==
  Pointing(Form("ContainerRevision", "revision"), "/service" :> {"ContainerService"})

ContainerTraffic ==
  [Updatable(Pointing(Form("ContainerTraffic", "deployment"),
                      "/service" :> {"ContainerService"}
                        @@ "/revisions/*/containerRevision" :> {"ContainerRevision"}))
     EXCEPT !.exclusive = "/service" :> "alone",
            !.constraints =
              {<<"sameResolvedTarget", "/service", "/revisions/*/containerRevision", "/service">>}]

ContainerEndpoint ==
  [Pointing(Form("ContainerEndpoint", "attachment"), "/service" :> {"ContainerService"})
     EXCEPT !.exclusive = "/service" :> "alone"]

ContainerCustomDomain ==
  [Pointing(Form("ContainerCustomDomain", "attachment"), "/service" :> {"ContainerService"})
     EXCEPT !.claims = TRUE]

Function == Form("Function", "identity")

FunctionVersion == Pointing(Form("FunctionVersion", "revision"), "/function" :> {"Function"})

FunctionDeployment ==
  [Updatable(Pointing(Form("FunctionDeployment", "deployment"),
                      "/function" :> {"Function"}
                        @@ "/versions/*/functionVersion" :> {"FunctionVersion"}))
     EXCEPT !.exclusive = "/function" :> "alone",
            !.constraints =
              {<<"sameResolvedTarget", "/function", "/versions/*/functionVersion", "/function">>}]

FunctionEndpoint ==
  [Pointing(Form("FunctionEndpoint", "attachment"), "/function" :> {"Function"})
     EXCEPT !.exclusive = "/function" :> "alone"]

PullQueue ==
  [Updatable(Pointing(Form("PullQueue", "identity"), "/deadLetter/queue" :> {"PullQueue"}))
     EXCEPT !.constraints = {<<"acyclic", "/deadLetter/queue">>}]

Topic == Form("Topic", "identity")

TopicSubscription ==
  [Updatable(Pointing(Form("TopicSubscription", "attachment"),
                      "/topic" :> {"Topic"} @@ "/target" :> {"PullQueue"}
                        @@ "/deadLetter" :> {"PullQueue"}))
     EXCEPT !.constraints =
              {<<"distinctPair", "/target", "/deadLetter">>, <<"uniquePair", "/topic", "/target">>}]

Schedule ==
  Updatable(Pointing(Form("Schedule", "identity"),
                     "/target/queue" :> {"PullQueue"} @@ "/target/topic" :> {"Topic"}))

Table == Updatable(Form("Table", "identity"))

VectorIndex == Form("VectorIndex", "identity")
=============================================================================
