---------------------------- MODULE ChecksLifecycle ----------------------------
(***************************************************************************)
(* The checks of the conformance suite on one resource: validate, prepare, *)
(* create, update, observe, the fences and the idempotency records         *)
(* (runner_checks.go, runner_replay_lifetime_checks.go,                    *)
(* runner_current_lane_checks.go).                                         *)
(***************************************************************************)
EXTENDS ConformanceCorpus

Prepared(d, fence, label) == Send("prepare", d, OK, [fence |-> fence, note |-> label])

CheckValidate ==
  Send("validate", WorkerProbe, OK, <<>>) \o Send("validate", KvProbe, OK, <<>>) \o Send("validate", QueueProbe, OK, <<>>)

CheckNegativeFixtures == Send("validate", Judged(QueueProbe, "diagnosed"), "invalid_argument", <<>>)

CheckPrepareBinding == Prepared(QueueProbe, "absent", "")

CheckPrepareSubstitution ==
  Prepared(QueueProbe, "absent", "reviewed")
    \o Send("apply", Valued(QueueProbe, 600), "invalid_argument", [fence |-> "create", review |-> "reviewed"])
    \o Gone(QueueProbe)

CheckApplyHeaders ==
  LET probe == KvNamed("headers-probe")
  IN  Prepared(probe, "absent", "reviewed")
        \o Send("apply", probe, "invalid_argument",
                [fence |-> "create", key |-> "none", review |-> "reviewed"])
        \o Send("apply", probe, "invalid_argument", [review |-> "reviewed"])
        \o Gone(probe)

CheckCreateLifecycle ==
  LET create == [fence |-> "create", review |-> "reviewed", key |-> "create kv"]
  IN  Prepared(KvProbe, "absent", "reviewed")
        \o Send("apply", KvProbe, OK, [note |-> "created", is |-> [gen |-> 1, rev |-> 1]] @@ create)
        \o Send("apply", KvProbe, OK, [as |-> "created", same |-> {"uid", "gen", "rev"}] @@ create)
        \o Send("apply", KvProbe, "invalid_argument", [audit |-> "another package"] @@ create)
        \o Send("apply", As(KvProbe, Anne), "generation_conflict", create)
        \o Send("apply", As(KvProbe, Bob), "invalid_argument", create)
        \o Send("apply", KvProbe, "generation_conflict", [key |-> "create kv again"] @@ create)
        \o Create(WorkerProbe) \o Create(QueueProbe)

\* A record answers for its incarnation only: the same bytes create again once
\* it is gone, and the delete of the first never touches the second.
CheckReplayRecordRetiresWithItsIncarnation ==
  LET probe  == KvNamed("replay-retirement-probe")
      create == [fence |-> "create", review |-> "reviewed", key |-> "retirement create"]
      remove == [fence |-> "first", key |-> "retirement delete"]
  IN  Prepared(probe, "absent", "reviewed")
        \o Send("apply", probe, OK, [note |-> "created"] @@ create)
        \o Send("apply", probe, OK, [as |-> "created", same |-> {"uid", "gen", "rev"}] @@ create)
        \o Send("delete", probe, OK, remove)
        \o Gone(probe)
        \o Send("apply", probe, OK, [as |-> "created", moved |-> {"uid"}, note |-> "again"] @@ create)
        \o SameIncarnation(probe, "again")
        \o Send("delete", probe, OK, remove)
        \o SameIncarnation(probe, "again")
        \o Discard(probe)

CheckAcceptedReplayRetiresWithItsIncarnation ==
  LET probe  == KvNamed("replay-retirement-async-probe")
      accept == [fence |-> "create", review |-> "reviewed", key |-> "retirement async", probe |-> "async"]
  IN  Prepared(probe, "absent", "reviewed")
        \o Send("apply", probe, "accepted", [note |-> "first"] @@ accept)
        \o Awaited(probe, "first", OK)
        \o ReadNoted(probe, "created")
        \o Discard(probe)
        \o Send("apply", probe, "accepted", [as |-> "first", moved |-> {"op"}, note |-> "second"] @@ accept)
        \o Awaited(probe, "second", OK)
        \o Send("read", probe, OK, [as |-> "created", moved |-> {"uid"}])
        \o Discard(probe)

CheckGenerationFences ==
  LET updated == Valued(QueueProbe, 60)
  IN  Send("apply", updated, OK, [fence |-> "first", is |-> [gen |-> 2, rev |-> 2]])
        \o Prepared(updated, "current", "reviewed")
        \o Send("apply", updated, "generation_conflict", [fence |-> "first", review |-> "reviewed"])

CheckPrepareFences ==
  LET probe == QueueNamed("prepare-fence-probe")
  IN  CreateNoted(probe, "created")
        \o Send("prepare", probe, "invalid_argument", <<>>)
        \o Send("prepare", probe, "generation_conflict", [fence |-> "stale"])
        \o Prepared(probe, "current", "reviewed")
        \o Send("apply", Valued(probe, 30), OK,
                [fence |-> "current", as |-> "created", moved |-> {"gen"}, note |-> "updated"])
        \o Send("apply", probe, "invalid_argument", [fence |-> "current", review |-> "reviewed"])
        \o Unmoved(probe, "updated")

CheckReadETags == Read(WorkerProbe) \o Read(KvProbe) \o Read(QueueProbe)

CheckConditionReasonsClosed == Read(WorkerProbe) \o Read(KvProbe) \o Read(QueueProbe)

\* The two creates are concurrent; the Host takes one request at a time.
CheckConcurrentUnrelatedMutation ==
  LET first  == KvNamed("concurrent-probe-one")
      second == QueueNamed("concurrent-probe-two")
  IN  CreateNoted(first, "first")
        \o Send("apply", second, OK,
                [fence |-> "create", as |-> "first", moved |-> {"uid"}, note |-> "second"])
        \o SameIncarnation(first, "first") \o SameIncarnation(second, "second")

CheckObserveAndStatusTouch ==
  Send("observe", QueueProbe, "generation_conflict", [fence |-> "first"])
    \o Send("observe", QueueProbe, OK, [fence |-> "current", is |-> [gen |-> 2]])
    \o ReadNoted(QueueProbe, "before")
    \o Send("observe", QueueProbe, OK, [fence |-> "current", probe |-> "touch", as |-> "before",
                                   same |-> {"gen"}, moved |-> {"rev"}, note |-> "touched"])
    \o Unmoved(QueueProbe, "touched")

CheckExpectedUID ==
  LET current == Valued(QueueProbe, 60)
  IN  ReadNoted(QueueProbe, "read")
        \o Send("apply", QueueProbe, "uid_mismatch", [fence |-> "current", uid |-> "other"])
        \o Send("apply", current, OK,
                [fence |-> "current", uid |-> "current", as |-> "read", same |-> {"uid", "gen"}])

CheckPackageDigestNotIdentity ==
  ReadNoted(QueueProbe, "before")
    \o Send("apply", Valued(QueueProbe, 60), OK, [fence |-> "current", audit |-> "another package",
                                             as |-> "before", same |-> {"uid", "gen"}])

CheckSameKindTwoGroups ==
  LET first == KvNamed("two-group-probe")
      other == KvOfSecondGroup("two-group-probe")
  IN  CreateNoted(first, "first")
        \o Send("apply", other, OK, [fence |-> "create", as |-> "first", moved |-> {"uid"}])
        \o Read(first) \o Read(other)
        \o Send("delete", other, OK, [fence |-> "current"])
        \o Read(first) \o Gone(other)

----------------------------------------------------------------------------
\* Import

CheckImportFlows ==
  LET adopted == KvNamed("import-probe")
      invalid == Binding(WorkerVersionOf("import-invalid-probe", "module-worker-probe", AllHandlers),
                         KvBinding("absent-kv"))
  IN  Send("import", adopted, OK, [fence |-> "create", native |-> "native/import-probe",
                                   is |-> [gen |-> 1, rev |-> 1], note |-> "adopted"])
        \o SameIncarnation(adopted, "adopted")
        \o RefusedImport(invalid, "native/import-invalid-probe", "resource_not_found")

CheckNativeIdentityClaim ==
  LET holder    == KvNamed("native-claim-holder")
      rival     == KvNamed("native-claim-rival")
      crossKind == QueueNamed("native-claim-cross-kind-rival")
      native    == "native/claimed-object"
  IN  Send("import", holder, OK, [fence |-> "create", native |-> native, note |-> "held"])
        \o RefusedImport(rival, native, "import_conflict")
        \o RefusedImport(InSpace(rival, "alt"), native, "import_conflict")
        \o RefusedImport(crossKind, native, "import_conflict")
        \o Unmoved(holder, "held")
        \o Discard(holder)
        \o Send("import", crossKind, OK, [fence |-> "create", native |-> native])
        \o Discard(crossKind)

RefuseNativeIdentityChange(d, label) ==
  Send("import", d, "import_conflict", [fence |-> "current", native |-> "native/other-object"])
    \o Unmoved(d, label)

ExpectSameNativeIdentityReimported(d, native, label) ==
  Read(d) \o Send("import", d, OK, [fence |-> "current", native |-> native, as |-> label, same |-> {"uid"}])

CheckRecordedNativeIdentity ==
  LET created == QueueNamed("native-recorded-created-probe")
      rival   == KvNamed("native-recorded-created-rival")
      target  == KvNamed("native-recorded-probe")
      late    == "native/adopted-after-create"
      born    == "native/recorded-object"
  IN  CreateNoted(created, "made")
        \o Send("import", created, OK,
                [fence |-> "current", native |-> late, as |-> "made", same |-> {"uid"}])
        \o RefusedImport(rival, late, "import_conflict")
        \o Send("apply", Valued(created, 600), OK, [fence |-> "current", note |-> "updated"])
        \o RefusedImport(rival, late, "import_conflict")
        \o RefuseNativeIdentityChange(created, "updated")
        \o ExpectSameNativeIdentityReimported(created, late, "made")
        \o Discard(created)
        \o Send("import", target, OK, [fence |-> "create", native |-> born, note |-> "first"])
        \o RefuseNativeIdentityChange(target, "first")
        \o ExpectSameNativeIdentityReimported(target, born, "first")
        \o Discard(target)

----------------------------------------------------------------------------
\* Delete, and the whole fence matrix

CheckDeleteFences ==
  ReadNoted(VersionProbe, "version")
    \o Send("delete", VersionProbe, "revision_conflict", [fence |-> "current", rev |-> "stale"])
    \o Send("delete", VersionProbe, OK, [fence |-> "current", rev |-> "version"])
    \o Gone(VersionProbe)
    \o ReadNoted(KvProbe, "kv")
    \o Send("delete", KvProbe, "invalid_argument", <<>>)
    \o Send("delete", KvProbe, "generation_conflict", [fence |-> "stale"])
    \o Read(KvProbe)
    \o Send("delete", KvProbe, OK, [fence |-> "current"])
    \o Send("apply", KvProbe, OK,
            [fence |-> "create", key |-> "recreate kv", as |-> "kv", moved |-> {"uid"}])

CheckFenceMatrixObserved ==
  LET probe == KvNamed("fence-matrix-probe")
      Applied(code, options) ==
        Prepared(probe, "current", "reviewed") \o Send("apply", probe, code, options @@ [review |-> "reviewed"])
  IN  Create(probe)
        \o Applied("invalid_argument", <<>>)
        \o Send("apply", probe, "generation_conflict", [fence |-> "stale", review |-> "reviewed"])
        \o Send("delete", probe, "invalid_argument", <<>>)
        \o Send("delete", probe, "generation_conflict", [fence |-> "stale"])
        \o Send("delete", probe, "revision_conflict", [fence |-> "current", rev |-> "stale"])
        \o Applied(OK, [fence |-> "body"])
        \o Read(probe)
        \o Applied("invalid_argument", [fence |-> "disagreeing"])
        \o Send("apply", KvNamed("fence-matrix-contradictory-create"), "invalid_argument",
                [fence |-> "contradictory"])
        \o Applied(OK, [fence |-> "current", echo |-> "honest"])
        \o Read(probe)
        \o Applied("invalid_argument", [fence |-> "current", echo |-> "wrong"])
        \o Discard(probe)

CheckPortableDefaultsMaterialized ==
  LET probe == QueueNamed("portable-defaults-probe")
  IN  CreateNoted(Valued(probe, Omitted), "created")
        \o Send("apply", Valued(probe, Default), OK,
                [fence |-> "current", as |-> "created", same |-> {"gen"}])
        \o Discard(probe)

CheckCrossSpace ==
  LET alternate == InSpace(KvProbe, "alt")
  IN  ReadNoted(KvProbe, "primary")
        \o Send("apply", alternate, OK,
                [fence |-> "create", key |-> "recreate kv", as |-> "primary", moved |-> {"uid"}])
        \o SameIncarnation(KvProbe, "primary")
        \o Gone(InSpace(KvNamed("async-probe"), "alt"))
=============================================================================
