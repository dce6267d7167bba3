---------------------------- MODULE ChecksRelations ----------------------------
(***************************************************************************)
(* The checks of the conformance suite on relations: what a reference may  *)
(* name, what happens to the source when its target goes or comes back,    *)
(* and who may be deleted (runner_checks.go, runner_exact_ref_checks.go,   *)
(* runner_derived_rendering_checks.go).                                    *)
(***************************************************************************)
EXTENDS ConformanceCorpus

VersionBoundTo(name, kv) ==
  Binding(WorkerVersionOf(name, "module-worker-probe", AllHandlers), KvBinding(kv))

DeleteRefused(d) == Read(d) \o Send("delete", d, "dependency_in_use", [fence |-> "current"])

CheckNoUpdateSpecChangeRejected(d) ==
  ReadNoted(d, "before")
    \o Send("apply", Valued(d, 1), "invalid_argument", [fence |-> "current"])
    \o Unmoved(d, "before")

CheckWorkerVersionFlow ==
  LET missing == VersionBoundTo("worker-version-probe", "absent-kv")
  IN  RefusedCreate(WorkerVersionOf("relation-missing-version", "absent-worker", AllHandlers),
                    "resource_not_found")
        \o Send("apply", missing, "resource_not_found", [fence |-> "create"]) \o Gone(VersionProbe)
        \o Create(VersionProbe)
        \o Send("apply", VersionProbe, "invalid_argument", [fence |-> "first"])
        \o CheckNoUpdateSpecChangeRejected(VersionProbe)
        \o DeleteRefused(KvProbe) \o Read(KvProbe)

\* A namespace of the same kind in another group does not satisfy the binding;
\* a Host may refuse it at the review already, this one does at the apply.
CheckBindingContractVerified ==
  LET offender == Binding(WorkerVersionOf("binding-contract-version", "module-worker-probe", AllHandlers),
                          <<Item("/kvBindings/*/resource", 1, "EdgeKVNamespaceOfGroup2", "binding-contract-kv")>>)
  IN  Create(KvOfSecondGroup("binding-contract-kv"))
        \o RefusedCreate(offender, "invalid_argument")

CheckRelationIncarnationChange ==
  LET target == KvNamed("incarnation-kv")
      source == VersionBoundTo("incarnation-version", "incarnation-kv")
  IN  CreateNoted(target, "created")
        \o CreateNoted(source, "bound")
        \o LoseExternally(target) \o ReadShowing(source, "DependencyMissing")
        \o Send("apply", target, OK, [fence |-> "create", as |-> "created", moved |-> {"uid"}])
        \o Send("read", source, OK, [as |-> "bound", same |-> {"gen"}, shows |-> "ExternalChange"])
        \o ReadShowing(source, "ExternalChange")

CheckRelationReapplyRepins ==
  LET queue    == QueueNamed("repin-queue")
      consumer == QueueConsumerOf("repin-consumer", "module-worker-probe", "repin-queue", <<>>)
  IN  Create(queue) \o CreateNoted(consumer, "bound")
        \o LoseExternally(queue) \o Create(queue)
        \o Send("read", consumer, OK, [shows |-> "ExternalChange", note |-> "drifted"])
        \o Send("apply", consumer, OK,
                [fence |-> "current", as |-> "drifted", same |-> {"gen"}, moved |-> {"rev"}, note |-> "repinned"])
        \o Send("apply", consumer, OK, [fence |-> "current", as |-> "repinned", same |-> {"gen", "rev"}])
        \o Send("delete", consumer, OK, [fence |-> "current"])

CheckRelationDeletionProtection ==
  DeleteRefused(VersionProbe) \o Read(VersionProbe)
    \o DeleteRefused(BundleProbe)
    \o Read(DeploymentProbe) \o Send("delete", DeploymentProbe, OK, [fence |-> "current"])

----------------------------------------------------------------------------
\* Exact Form references

CheckResourceAnswersOnlyUnderItsRecordedFormRef ==
  LET first  == WorkerNamed("recorded-ref-probe")
      other  == WorkerUnderSecondDefinition("recorded-ref-probe")
      second == WorkerUnderSecondDefinition("recorded-ref-probe-second")
  IN  CreateNoted(first, "created")
        \o Gone(other)
        \o Send("observe", other, "resource_not_found", [fence |-> "first"])
        \o Send("apply", other, "resource_not_found", [fence |-> "first", review |-> "of nothing"])
        \o Send("delete", other, "resource_not_found", [fence |-> "first"])
        \o Send("apply", second, OK, [fence |-> "create", as |-> "created", moved |-> {"uid"}])
        \o SameIncarnation(first, "created")
        \o Read(second)

ExactRefRelationFixture ==
  Create(WorkerNamed("target-contract-worker"))
    \o Create(WorkerUnderSecondDefinition("target-contract-other"))

CheckRelationTargetFormRefVerified ==
  Create(WorkerVersionOf("target-contract-version", "target-contract-worker", {"fetch"}))
    \o RefusedCreate(DeploymentOf("target-contract-deployment", "target-contract-other",
                                  <<"target-contract-version">>), "invalid_argument")

CheckRelationTargetInterfaceVerified ==
  RefusedCreate(WorkerVersionOf("target-interface-version", "target-contract-other", {"fetch"}),
                "invalid_argument")

CheckRelationPinRecordsTargetFormRef ==
  LET source == WorkerVersionOf("pin-ref-version", "pin-ref-worker", {"fetch"})
  IN  Create(WorkerNamed("pin-ref-worker")) \o CreateNoted(source, "bound")
        \o LoseExternally(WorkerNamed("pin-ref-worker"))
        \o Create(WorkerUnderSecondDefinition("pin-ref-worker"))
        \o Send("read", source, OK, [shows |-> "ExternalChange", as |-> "bound", same |-> {"gen"}])

----------------------------------------------------------------------------
\* What is derived from other resources has its revision move with it.

CheckDependentRevisionAdvancesWithRendering ==
  LET worker     == WorkerNamed("rendering-worker")
      deployment == DeploymentOf("rendering-deployment", "rendering-worker", <<"rendering-version">>)
      source     == Binding(WorkerVersionOf("rendering-source-version", "rendering-worker", {"fetch"}),
                            KvBinding("rendering-kv"))
  IN  Create(worker) \o Create(WorkerVersionOf("rendering-version", "rendering-worker", {"fetch"}))
        \o Send("read", worker, OK, [shows |-> "Provisioning", note |-> "before"])
        \o Create(deployment)
        \o Send("read", worker, OK, [shows |-> "Available", as |-> "before", same |-> {"uid", "gen"},
                                     moved |-> {"rev"}, note |-> "after"])
        \o Update(deployment)
        \o Unmoved(worker, "after")
        \o Create(KvNamed("rendering-kv"))
        \o CreateNoted(source, "bound")
        \o LoseExternally(KvNamed("rendering-kv"))
        \o Send("read", source, OK, [shows |-> "DependencyMissing", as |-> "bound", same |-> {"uid", "gen"},
                                     moved |-> {"rev"}])

CheckDeleteFenceSurvivesDerivedRendering ==
  LET worker     == WorkerNamed("teardown-worker")
      version    == WorkerVersionOf("teardown-version", "teardown-worker", {"fetch"})
      deployment == DeploymentOf("teardown-deployment", "teardown-worker", <<"teardown-version">>)
  IN  CreateAll(<<worker, version, deployment>>)
        \o Send("read", worker, OK, [shows |-> "Available", note |-> "live"])
        \o Send("delete", deployment, OK, [fence |-> "current"])
        \o Send("delete", version, OK, [fence |-> "current"])
        \o Send("delete", worker, "revision_conflict", [fence |-> "current", rev |-> "live"])
        \o Read(worker)
        \o Send("delete", worker, OK, [fence |-> "current"]) \o Gone(worker)
=============================================================================
