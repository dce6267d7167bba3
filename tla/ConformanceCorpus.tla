--------------------------- MODULE ConformanceCorpus ---------------------------
(***************************************************************************)
(* The probe resources of the conformance suite: the corpus of the Edge    *)
(* lane (conformance/portable-host-v3) and the targets its checks derive   *)
(* from them.  A name is the one the runner uses.                          *)
(***************************************************************************)
EXTENDS ConformanceRunner

Named(d, name) == [d EXCEPT !.name = name]
InSpace(d, space) == [d EXCEPT !.space = space]
Judged(d, verdict) == [d EXCEPT !.spec.verdict = verdict]
Binding(d, refs) == [d EXCEPT !.spec.refs = @ \o refs]

KvProbe == Desired("EdgeKVNamespace", "edge-kv-probe", <<>>)
WorkerProbe == Desired("ModuleWorker", "module-worker-probe", <<>>)
QueueProbe == Desired("AtLeastOnceQueue", "queue-probe", <<>>)
BundleProbe == Carrying(Desired("WorkerBundle", "worker-bundle-probe", <<>>), "worker bundle")

WorkerNamed(name) == Named(WorkerProbe, name)
KvNamed(name) == Named(KvProbe, name)
QueueNamed(name) == Named(QueueProbe, name)

\* The same kind in another group, and a second Definition of the worker Form
KvOfSecondGroup(name) == Desired("EdgeKVNamespaceOfGroup2", name, <<>>)
WorkerUnderSecondDefinition(name) == Desired("ModuleWorkerDefinition2", name, <<>>)

AllHandlers == {"fetch", "scheduled", "queue"}

WorkerVersionOfBundle(name, worker, bundle, handlers) ==
  [Desired(VersionKind, name, On(worker) \o <<Ref(BundlePtr, "WorkerBundle", bundle)>>)
     EXCEPT !.spec.handlers = handlers]

WorkerVersionOf(name, worker, handlers) ==
  WorkerVersionOfBundle(name, worker, "worker-bundle-probe", handlers)

KvBinding(kv) == <<Item("/kvBindings/*/resource", 1, "EdgeKVNamespace", kv)>>
ServiceBinding(worker) == <<Item(ServiceDecl, 1, WorkerKind, worker)>>

VersionProbe == Binding(WorkerVersionOf("worker-version-probe", "module-worker-probe", AllHandlers),
                   KvBinding("edge-kv-probe"))

DeploymentOf(name, worker, versions) ==
  Desired(DeploymentKind, name,
          On(worker) \o [i \in DOMAIN versions |-> Item(VersionsDecl, i, VersionKind, versions[i])])

DeploymentProbe == DeploymentOf("worker-deployment-probe", "module-worker-probe", <<"worker-version-probe">>)

DomainOf(name, worker, hostname) ==
  [Desired("WorkerCustomDomain", name, On(worker)) EXCEPT !.spec.claim = hostname]
CronOf(name, worker) == Desired("WorkerCronTrigger", name, On(worker))
EndpointOf(name, worker) == Desired("WorkerEndpoint", name, On(worker))

\* dead is <<>> or the one dead-letter queue
QueueConsumerOf(name, worker, queue, dead) ==
  Desired("QueueConsumer", name,
          On(worker) \o <<Ref(QueuePtr, "AtLeastOnceQueue", queue)>>
            \o [i \in DOMAIN dead |-> Ref(DeadLetterPtr, "AtLeastOnceQueue", dead[i])])

ClassHolderOf(kind, name, worker, class) == [Desired(kind, name, On(worker)) EXCEPT !.spec.class = class]

DomainProbe == DomainOf("custom-domain-probe", "module-worker-probe", "probe.invalid")
EndpointProbe == EndpointOf("endpoint-probe", "module-worker-probe")
CronProbe == CronOf("cron-trigger-probe", "module-worker-probe")
ConsumerProbe == QueueConsumerOf("queue-consumer-probe", "module-worker-probe", "queue-probe", <<>>)
WorkflowProbe == ClassHolderOf("DurableWorkflow", "durable-workflow-probe", "module-worker-probe", "OrderFulfilment")
NamespaceProbe == ClassHolderOf("ActorNamespace", "actor-namespace-probe", "module-worker-probe", "ChatRoom")

MigrationApplicationOf(name, set) ==
  Desired(MigrationKind, name, <<Ref(DatabasePtr, "SQLiteDatabase", "sqlite-database-probe"),
                                 Ref(MigrationSetPtr, "SQLiteMigrationSet", set)>>)

\* The domain, the cron trigger and the consumer of one worker
AttachmentsOf(prefix, worker) ==
  <<DomainOf(prefix \o "-domain", worker, prefix), CronOf(prefix \o "-cron", worker),
    QueueConsumerOf(prefix \o "-consumer", worker, "queue-probe", <<>>)>>
=============================================================================
