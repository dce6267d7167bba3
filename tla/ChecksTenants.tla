---------------------------- MODULE ChecksTenants ----------------------------
(***************************************************************************)
(* The checks of the conformance suite on what one tenant may see and do   *)
(* of another's: the address, every operation, the resolution of relations,*)
(* reviews and idempotency keys (runner_tenant_isolation_checks.go).       *)
(* Alice and Anne are of one tenant, Bob of another; Bob sends the fence   *)
(* of what Alice holds, always at its first generation.                    *)
(***************************************************************************)
EXTENDS ConformanceCorpus

TenantProbe(x) == WorkerNamed("tenant-" \o x \o "-probe")
OfBob(d) == As(d, Bob)

\* What is another tenant's and what nobody has are refused alike.
NotThere(do, x, options) ==
  LET Refused(y) == Send(do, OfBob(TenantProbe(y)), "resource_not_found", options)
  IN  Refused(x) \o Refused("absent")

CheckResourceAddressIsTenantScoped ==
  LET shared == TenantProbe("address")
  IN  CreateNoted(shared, "primary")
        \o Send("apply", OfBob(shared), OK, [fence |-> "create", as |-> "primary", moved |-> {"uid"},
                                             is |-> [gen |-> 1, rev |-> 1], note |-> "alternate"])
        \o SameIncarnation(shared, "primary") \o SameIncarnation(OfBob(shared), "alternate")

CheckResourceReadIsTenantIsolated ==
  Create(TenantProbe("private")) \o NotThere("read", "private", <<>>)

CheckResourceObserveIsTenantIsolated ==
  LET private == TenantProbe("private")
  IN  ReadNoted(private, "before")
        \o NotThere("observe", "private", [fence |-> "first"])
        \o Send("observe", private, OK, [fence |-> "current", as |-> "before", same |-> {"uid"}])

CheckResourceUpdateIsTenantIsolated ==
  LET private == TenantProbe("private")
  IN  ReadNoted(private, "before")
        \o Send("prepare", OfBob(private), "resource_not_found", [fence |-> "first"])
        \o Send("prepare", OfBob(private), OK, [note |-> "own"])
        \o Send("apply", OfBob(private), "resource_not_found", [fence |-> "first", review |-> "own"])
        \o SameIncarnation(private, "before")
        \o Send("apply", private, OK, [fence |-> "current", as |-> "before", same |-> {"uid", "gen"}])

CheckResourceImportIsTenantIsolated ==
  LET held    == TenantProbe("import-held")
      free    == TenantProbe("import-free")
      claimed == TenantProbe("native-claim")
      Adopted(d, native, options) ==
        Send("import", d, OK, options @@ [fence |-> "create", native |-> native])
      Adopting(d) ==
        Send("import", OfBob(d), "resource_not_found", [fence |-> "first", native |-> "native-tenant-import"])
      shared == "native-tenant-shared-object"
  IN  CreateNoted(held, "held")
        \o Adopting(held) \o Adopting(free)
        \o Adopted(OfBob(held), "native-tenant-held", [as |-> "held", moved |-> {"uid"}, note |-> "adopted"])
        \o Adopted(OfBob(free), "native-tenant-free", <<>>)
        \o SameIncarnation(OfBob(held), "adopted")
        \o Unmoved(held, "held")
        \o Adopted(claimed, shared, [note |-> "claimed"])
        \o Adopted(OfBob(TenantProbe("native-claim-foreign")), shared, [as |-> "claimed", moved |-> {"uid"}])
        \o RefusedImport(OfBob(TenantProbe("native-claim-foreign-rival")), shared, "import_conflict")

CheckResourceDeleteIsTenantIsolated ==
  LET private == TenantProbe("private")
  IN  ReadNoted(private, "before")
        \o Send("delete", OfBob(private), "resource_not_found", [fence |-> "first", rev |-> "before"])
        \o Send("read", private, OK, [as |-> "before", same |-> {"uid", "rev"}])
        \o Send("delete", private, OK, [fence |-> "current", rev |-> "before"])
        \o Gone(private)

CheckRelationResolutionIsTenantScoped ==
  LET holder == WorkerNamed("tenant-relation-worker")
      bundle == OfBob(Named(BundleProbe, "tenant-relation-bundle"))
      source == OfBob(WorkerVersionOfBundle("tenant-relation-version", "tenant-relation-worker",
                                            "tenant-relation-bundle", {"fetch"}))
  IN  CreateNoted(holder, "holder") \o Create(bundle)
        \o Send("apply", source, "resource_not_found", [fence |-> "create"])
        \o Send("apply", OfBob(holder), OK, [fence |-> "create", as |-> "holder", moved |-> {"uid"}])
        \o Create(source)
        \o Discard(holder)
        \o Read(source)
        \o Read(OfBob(holder))
        \o Send("delete", OfBob(holder), "dependency_in_use", [fence |-> "current"])
        \o DiscardAll(<<source, OfBob(holder), bundle>>)

CheckPrepareIsTenantScoped ==
  LET subject == TenantProbe("prepare")
      Applied(c, code, review) ==
        Send("apply", As(subject, c), code, [fence |-> "create", review |-> review])
  IN  Send("prepare", subject, OK, [note |-> "minted"])
        \o Applied(Bob, "invalid_argument", "minted")
        \o Applied(Bob, OK, "")
        \o Gone(subject)
        \o Applied(Anne, OK, "minted")
        \o Discard(subject) \o Discard(OfBob(subject))

CheckIdempotencyIsTenantScoped ==
  LET subject == TenantProbe("idempotency")
      Keyed(options) ==
        Send("apply", OfBob(subject), OK,
             options @@ [fence |-> "create", review |-> "own", key |-> "tenant-idempotency-shared"])
  IN  Send("apply", subject, OK, [fence |-> "create", key |-> "tenant-idempotency-shared", note |-> "primary"])
        \o Send("prepare", OfBob(subject), OK, [note |-> "own"])
        \o Keyed([as |-> "primary", moved |-> {"uid"}, note |-> "alternate"])
        \o SameIncarnation(OfBob(subject), "alternate")
        \o Keyed([as |-> "alternate", same |-> {"uid", "gen", "rev"}])
        \o SameIncarnation(subject, "primary")

CheckEachTenantMutatesItsOwnPlane ==
  LET subject == QueueNamed("tenant-own-mutation-probe")
  IN  CreateNoted(subject, "primary") \o CreateNoted(OfBob(subject), "alternate")
        \o Send("apply", OfBob(Valued(subject, 1)), OK,
                [fence |-> "current", as |-> "alternate", same |-> {"uid"}, moved |-> {"gen"}, note |-> "updated"])
        \o Unmoved(OfBob(subject), "updated")
        \o Unmoved(subject, "primary")
        \o Discard(OfBob(subject)) \o Gone(OfBob(subject))
        \o Unmoved(subject, "primary")
        \o Discard(subject)

CheckTenantIsolatedResourcePlane ==
  CheckResourceAddressIsTenantScoped \o CheckResourceReadIsTenantIsolated
    \o CheckResourceObserveIsTenantIsolated \o CheckResourceUpdateIsTenantIsolated
    \o CheckResourceImportIsTenantIsolated \o CheckResourceDeleteIsTenantIsolated
    \o CheckRelationResolutionIsTenantScoped \o CheckPrepareIsTenantScoped
    \o CheckIdempotencyIsTenantScoped \o CheckEachTenantMutatesItsOwnPlane
=============================================================================
