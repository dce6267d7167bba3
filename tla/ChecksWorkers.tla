----------------------------- MODULE ChecksWorkers -----------------------------
(***************************************************************************)
(* The checks of the conformance suite on the Worker aggregate: versions,  *)
(* the one deployment, what is attached to it, class holders and endpoints *)
(* (runner_checks.go, runner_worker_aggregate_checks.go,                   *)
(* runner_worker_endpoint_checks.go, runner_runtime_abi_checks.go,         *)
(* runner_declared_constraint_checks.go).                                  *)
(***************************************************************************)
EXTENDS ConformanceCorpus

CallerOf(name, worker, called) ==
  Binding(WorkerVersionOf(name, worker, {"fetch"}), ServiceBinding(called))

CheckAttachmentRequiresActiveDeployment ==
  LET attachments == <<DomainProbe, EndpointProbe, CronProbe, ConsumerProbe>>
  IN  ReadShowing(WorkerProbe, "Provisioning")
        \o Script([i \in DOMAIN attachments |-> RefusedCreate(attachments[i], "unsupported_capability")])
        \o Create(WorkerNamed("service-caller-worker"))
        \o RefusedCreate(CallerOf("service-caller-version", "service-caller-worker", "module-worker-probe"),
                         "unsupported_capability")

\* The weights of a deployment sum to 10000.
CheckDeploymentWeightSum ==
  LET second == WorkerVersionOf("weight-sum-version", "module-worker-probe", {"fetch"})
      long   == DeploymentOf("worker-deployment-probe", "module-worker-probe",
                             <<"worker-version-probe", "weight-sum-version">>)
  IN  RefusedAtPrepare(Judged(DeploymentProbe, "refused_early"))
        \o Create(second)
        \o RefusedAtPrepare(Judged(long, "refused_early"))
        \o Discard(second)
        \o Create(DeploymentProbe)
        \o ReadShowing(WorkerProbe, "Available")

CheckDeploymentIntegrity ==
  LET Of(name, versions) == DeploymentOf(name, "other-worker", versions)
      split       == Of("split-deployment", <<"other-version", "other-version-b">>)
      replacement == Of("replacement-deployment", <<"other-version">>)
  IN  RefusedCreate(Named(DeploymentProbe, "second-deployment"), "invalid_argument")
        \o Create(WorkerNamed("other-worker"))
        \o Create(WorkerVersionOf("other-version", "other-worker", {"fetch"}))
        \o RefusedCreate(Of("ownership-deployment", <<"worker-version-probe">>), "invalid_argument")
        \o Create(Valued(WorkerVersionOf("other-version-b", "other-worker", {"fetch"}), 1))
        \o Create(split) \o Discard(split)
        \o Create(replacement) \o Discard(replacement)
        \o RefusedCreate(Of("duplicate-deployment", <<"other-version", "other-version">>), "invalid_argument")

CheckHandlerGatedAttachments ==
  LET Deployed(version) == DeploymentOf("gate-deployment", "gate-worker", <<version>>)
      attachments == AttachmentsOf("gate", "gate-worker")
      gated == Tail(attachments)
  IN  Create(WorkerNamed("gate-worker"))
        \o Create(WorkerVersionOf("gate-fetch-version", "gate-worker", {"fetch"}))
        \o Create(Deployed("gate-fetch-version"))
        \o Create(attachments[1])
        \o Script([i \in DOMAIN gated |-> RefusedCreate(gated[i], "unsupported_capability")])
        \o Create(WorkerVersionOf("gate-full-version", "gate-worker", AllHandlers))
        \o Update(Deployed("gate-full-version"))
        \o CreateAll(gated)
        \o Discard(attachments[3])

CheckBindingNameCollision ==
  LET version == Binding(WorkerVersionOf("collision-version", "module-worker-probe", {"fetch"}),
                         KvBinding("edge-kv-probe"))
      Collides == RefusedCreate(Judged(version, "refused"), "invalid_argument")
  IN  Collides \o Collides \o Create(version) \o Discard(version)

CheckDeploymentChangePreservesDependents ==
  LET Deployed(version) == DeploymentOf("dependents-deployment", "dependents-worker", <<version>>)
      ToNoFetch == Deployed("dependents-nofetch-version")
      attachments == AttachmentsOf("dependents", "dependents-worker")
      caller == CallerOf("dependents-caller-version", "module-worker-probe", "dependents-worker")
      Refused(d) == RefusedUpdate(d, "unsupported_capability", "created")
  IN  Create(WorkerNamed("dependents-worker"))
        \o Create(WorkerVersionOf("dependents-full-version", "dependents-worker", AllHandlers))
        \o CreateNoted(Deployed("dependents-full-version"), "created")
        \o CreateAll(attachments) \o Create(caller)
        \o Create(WorkerVersionOf("dependents-fetch-version", "dependents-worker", {"fetch"}))
        \o Create(WorkerVersionOf("dependents-nofetch-version", "dependents-worker", {"scheduled", "queue"}))
        \o Refused(Deployed("dependents-fetch-version")) \o Refused(ToNoFetch)
        \o DiscardAll(attachments)
        \o Refused(ToNoFetch)
        \o Discard(caller)
        \o Update(ToNoFetch)

\* The deployment stays while something is attached to its worker.
DeploymentHeld ==
  Read(DeploymentProbe) \o Send("delete", DeploymentProbe, "dependency_in_use", [fence |-> "current"])
    \o Read(DeploymentProbe)

CheckDeploymentDeleteBlockedByDependent ==
  LET attachments == <<DomainProbe, CronProbe, ConsumerProbe>>
      caller == CallerOf("inbound-delete-caller-version", "inbound-delete-caller-worker", "module-worker-probe")
  IN  Script([i \in DOMAIN attachments |-> Create(attachments[i]) \o DeploymentHeld \o Discard(attachments[i])])
        \o Create(WorkerNamed("inbound-delete-caller-worker"))
        \o Create(caller) \o DeploymentHeld \o Discard(caller)

CheckClassHolderRules ==
  LET Holding(name, worker) ==
        <<ClassHolderOf("DurableWorkflow", name \o "-workflow", worker, "OrderFulfilment"),
          ClassHolderOf("ActorNamespace", name \o "-namespace", worker, "ChatRoom")>>
      AllRefused(ds, code) == Script([i \in DOMAIN ds |-> RefusedCreate(ds[i], code)])
  IN  Create(WorkerNamed("class-holder-worker"))
        \o CreateAll(Holding("undeployed", "class-holder-worker"))
        \o AllRefused(Holding("duplicate", "class-holder-worker"), "invalid_argument")
        \o UploadAndCommitManifestAs(Alice, "fetch only", {"fetch module"})
        \o Create(Carrying(Named(BundleProbe, "classless-bundle"), "fetch only"))
        \o Create(WorkerNamed("classless-worker"))
        \o Create(WorkerVersionOfBundle("classless-version", "classless-worker", "classless-bundle", {"fetch"}))
        \o Create(DeploymentOf("classless-deployment", "classless-worker", <<"classless-version">>))
        \o AllRefused(Holding("unserved", "classless-worker"), "unsupported_capability")

----------------------------------------------------------------------------
\* Every exclusive relation of the corpus, derived from its Definitions

\* The corpus resource itself holds the target, or one created for the purpose.
Contested(d, holder) ==
  holder \o Send("apply", Named(d, "declared-exclusive-rival"), "invalid_argument", [fence |-> "create"])

DriveExclusiveHold(d) ==
  LET holder == Named(d, "declared-exclusive-holder")
  IN  Contested(d, Gone(d) \o Create(holder)) \o Discard(holder)

\* The targets of the migration application are gone by now, which leaves it
\* out.
CheckDeclaredExclusiveHoldsEnforced ==
  LET application == MigrationApplicationOf("sqlite-migration-application-probe", "sqlite-migration-set-probe")
  IN  Contested(DeploymentProbe, Read(DeploymentProbe))
        \o Gone(application)
        \o Send("apply", Named(application, "declared-exclusive-holder"), "resource_not_found", [fence |-> "create"])
        \o DriveExclusiveHold(ConsumerProbe)
        \o DriveExclusiveHold(WorkflowProbe) \o DriveExclusiveHold(NamespaceProbe)

----------------------------------------------------------------------------
\* What a version declares and what its bundle exports

CheckUndeclaredRuntimeHandlerRejected ==
  LET version == WorkerVersionOf("runtime-abi-version", "module-worker-probe", AllHandlers)
  IN  Rejected(Judged(version, "diagnosed")) \o Create(version) \o Discard(version)

CheckDeclaredHandlerNotExportedRejected ==
  LET Declaring(handlers) ==
        WorkerVersionOfBundle("fetch-only-version", "fetch-only-worker", "fetch-only-bundle-probe", handlers)
  IN  UploadAndCommitManifestAs(Alice, "fetch only", {})
        \o Create(Carrying(Named(BundleProbe, "fetch-only-bundle-probe"), "fetch only"))
        \o Create(WorkerNamed("fetch-only-worker"))
        \o RefusedCreate(Declaring({"fetch", "queue"}), "invalid_argument")
        \o Create(Declaring({"fetch"})) \o Discard(Declaring({"fetch"}))

----------------------------------------------------------------------------
\* Endpoints

CheckWorkerEndpointAddressIsHostAssigned == Create(EndpointProbe) \o Read(EndpointProbe)

CheckWorkerEndpointSinglePerWorker == RefusedCreate(Named(EndpointProbe, "second-endpoint"), "invalid_argument")

CheckFormDeclaredOutputsAreExact ==
  Read(WorkerProbe) \o Read(KvProbe) \o Read(QueueProbe) \o Read(BundleProbe) \o Read(DeploymentProbe)
    \o Read(EndpointProbe)

EndpointDeployment(version) == DeploymentOf("endpoint-deployment", "endpoint-worker", <<version>>)

CheckWorkerEndpointFollowsTheActiveDeployment ==
  LET endpoint == EndpointOf("promotion-endpoint", "endpoint-worker")
      deployed == EndpointDeployment("endpoint-first-version")
  IN  Create(WorkerNamed("endpoint-worker"))
        \o Create(WorkerVersionOf("endpoint-first-version", "endpoint-worker", {"fetch"}))
        \o Create(deployed)
        \o CreateNoted(endpoint, "before") \o Read(EndpointProbe)
        \o Read(deployed) \o Send("delete", deployed, "dependency_in_use", [fence |-> "current"])
        \o Create(WorkerVersionOf("endpoint-second-version", "endpoint-worker", {"fetch"}))
        \o Update(EndpointDeployment("endpoint-second-version"))
        \o Send("read", endpoint, OK, [as |-> "before", same |-> {"uid"}, shows |-> "Available"])
        \o Discard(endpoint) \o Discard(EndpointProbe)

\* The address is a function of the incarnation, which stays.
CheckWorkerEndpointAddressIsStableForItsUID ==
  LET endpoint == EndpointOf("stable-endpoint", "endpoint-worker")
      rollback == EndpointDeployment("endpoint-first-version")
      Stays == Send("read", endpoint, OK, [as |-> "created", same |-> {"uid"}])
  IN  CreateNoted(endpoint, "created")
        \o Send("observe", endpoint, OK, [fence |-> "current", probe |-> "touch", as |-> "created", moved |-> {"rev"}])
        \o Stays
        \o Read(rollback) \o Update(rollback)
        \o Stays \o Stays
        \o Discard(endpoint)
=============================================================================
