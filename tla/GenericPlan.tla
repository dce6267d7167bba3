----------------------------- MODULE GenericPlan -----------------------------
(***************************************************************************)
(* The generic conformance plan (internal/portableconformancev3/           *)
(* stable_generic_plan.go and stable_generic_plan_cases.go): one sequence  *)
(* of cases, sent to the in-memory Host and to the reference Host in turn. *)
(* Each must observe what the case expects, and both the same.             *)
(*                                                                         *)
(* A case is [id, actor, want, checks] and the fields of its command.  A   *)
(* want is a record of what is expected, code always among it.             *)
(***************************************************************************)
EXTENDS GenericAdapter

StableGenericRequiredChecks ==
  {"apply-idempotency-replay", "artifact-commit-binds-declared-size", "artifact-digest-mismatch",
   "artifact-upload-missing-blob", "async-operation-flow", "create-conflict-when-exists",
   "declared-constraint-semantics-enforced", "declared-exclusive-holds-enforced",
   "delete-generation-fence", "delete-revision-fence", "delete-then-recreate-uid-changes",
   "error-envelope-taxonomy", "exact-form-ref-fails-closed-on-unknown-definition",
   "fence-matrix-observed", "operation-bound-to-its-creating-principal", "operation-cancel",
   "operation-replay-terminal", "operation-resumable-after-settlement",
   "portable-defaults-materialized", "prepare-binds-exact-spec", "prepare-is-tenant-scoped",
   "prepare-requires-update-fence", "replay-record-retires-with-its-incarnation",
   "spec-change-bumps-generation", "stale-revision-rejected",
   "status-change-bumps-revision-not-generation", "unauthenticated-request-refused",
   "upload-session-bound-to-its-creating-principal"}

----------------------------------------------------------------------------
\* Commands

PlanCatalog(do, surface, ref, protocol) ==
  [plane |-> "catalog", do |-> do, surface |-> surface, space |-> "s", ref |-> ref, protocol |-> protocol]
PlanValidate(in) == [plane |-> "admission", do |-> "validate", in |-> in]
PlanPrepare(handle, in, gen) ==
  [plane |-> "admission", do |-> "prepare", in |-> [in EXCEPT !.prep = handle, !.gen = gen]]
PlanResource(do, in) ==
  [plane |-> "resource", do |-> do, in |-> in, effect |-> "", async |-> FALSE]
PlanOperation(do, handle) == [plane |-> "operation", do |-> do, op |-> handle]
PlanArtifact(do, a) == [a EXCEPT !.do = do]

\* A case proves nothing until it is said to prove a check.
Case(id, actor, command, want) == [id |-> id, actor |-> actor, want |-> want, checks |-> {}] @@ command
Proving(case, checks) == [case EXCEPT !.checks = checks]
Primarily(id, command, want) == Case(id, "primary", command, want)

Only(code) == [code |-> code]
AtRev(code, in, gen, rev) == [code |-> code, handle |-> in.handle, gen |-> gen, rev |-> rev]
AtRevAs(code, in, gen, rev) == AtRev(code, in, gen, rev) @@ [desired |-> MemoryMaterialize(in.desired)]
Created(in) == AtRev("created", in, 1, 1)
CreatedAs(in) == AtRevAs("created", in, 1, 1)
PreparedAs(handle) == [code |-> OK, prepared |-> handle]
Found(valid) == [code |-> OK, valid |-> valid]

----------------------------------------------------------------------------
\* Inputs.  0, "" and <<>> are absent.

PlanBody == [pair |-> <<>>, rows |-> <<>>, weights |-> <<>>, assigned |-> FALSE, unexpected |-> FALSE, services |-> <<>>]
PlanDesired == [refs |-> <<>>, claim |-> "", value |-> Omitted, body |-> PlanBody]
Between(lower, upper) == [PlanDesired EXCEPT !.body.pair = <<lower, upper>>]
AtMode(d, v) == [d EXCEPT !.value = v]
Relating(refs) == [PlanDesired EXCEPT !.refs = refs]

GenericPlanResource(handle, ref, name, desired) ==
  [handle |-> handle, ref |-> ref, audit |-> "sealed", name |-> name, space |-> "s", desired |-> desired,
   native |-> "", uid |-> NoUid, gen |-> 0, body |-> 0, disagree |-> 0, omit |-> FALSE, createFence |-> 0,
   rev |-> 0, prep |-> "", hash |-> <<>>, idem |-> <<"none">>, create |-> FALSE]

\* The same input as a create or an update under a preparation
Creating(in, prep, key) == [in EXCEPT !.create = TRUE, !.prep = prep, !.idem = <<key>>]
Updating(in, gen, prep, key) == [in EXCEPT !.gen = gen, !.prep = prep, !.idem = <<key>>]
Fencing(in, gen, rev, key) == [in EXCEPT !.gen = gen, !.rev = rev, !.idem = <<key>>]
Renamed(in, handle, name) == [in EXCEPT !.handle = handle, !.name = name]

PlanPrimary == GenericPlanResource("primary", "RangeCounter", "range-counter-probe", Between(1, 2))
PlanPrimaryUpdated == [PlanPrimary EXCEPT !.desired = AtMode(Between(1, 3), 1)]
PlanKeyed == GenericPlanResource("keyed", "RangeGauge", "range-gauge-probe", Between(2, 4))
PlanKeyedUpdated == [PlanKeyed EXCEPT !.desired = AtMode(Between(2, 5), 1)]
PlanKeyedSecond == [PlanKeyed EXCEPT !.desired = AtMode(Between(2, 6), 1)]
PlanRevision == GenericPlanResource("revision", "RevisionNote", "revision-note-probe", AtMode(PlanDesired, 1))
PlanOutput == GenericPlanResource("output", "AssignedCounter", "assigned-counter-probe", AtMode(PlanDesired, 1))
PlanSecondGroup == GenericPlanResource("second-group", "RangeGaugeOfGroup2", "same-kind-plan", PlanDesired)
InvalidSchema(d) == [d EXCEPT !.body.unexpected = TRUE]
Asking(d, protocol, required) ==
  [d EXCEPT !.body.services = <<[protocol |-> protocol, required |-> required]>>]
AlternateSpace == "s2"

----------------------------------------------------------------------------
\* The cases of stableBuildGenericPlan, in order.

CatalogPlanCases ==
  <<Primarily("catalog-discover", PlanCatalog("discover", "", "", ""), Only(OK)),
    Primarily("catalog-list-primary", PlanCatalog("list", "", PlanPrimary.ref, ""),
              [code |-> OK, forms |-> {MemoryForm(PlanPrimary.ref)}])>>
    \o [i \in 1..3 |->
         LET ref == <<PlanPrimary.ref, "RangeCounterDefinition2", PlanSecondGroup.ref>>[i]
         IN  Primarily(<<"catalog-get-primary", "catalog-get-second-definition", "catalog-get-second-group">>[i],
                       PlanCatalog("get", "definition", ref, ""), [code |-> OK, form |-> MemoryForm(ref)])]
    \o <<Primarily("catalog-form-support", PlanCatalog("get", "form support", PlanPrimary.ref, ""),
                   [code |-> OK, form |-> MemoryForm(PlanPrimary.ref)]),
         Primarily("catalog-standard-service-supported",
                   PlanCatalog("get", "standard service support", "", "a supported protocol"),
                   [code |-> OK, satisfiable |-> TRUE]),
         Primarily("catalog-standard-service-unsupported",
                   PlanCatalog("get", "standard service support", "", "a future protocol"),
                   [code |-> OK, satisfiable |-> FALSE])>>

EnvelopePlanCases ==
  <<Proving(Case("validate-unauthenticated", "nobody", PlanValidate(PlanPrimary), Only("unauthenticated")),
            {"unauthenticated-request-refused"})>>
    \o [i \in DOMAIN ErrorCodeOrder |->
         Proving(Primarily("error-envelope-" \o ErrorCodeOrder[i], [plane |-> "probe", fault |-> ErrorCodeOrder[i]],
                           Only(ErrorCodeOrder[i])),
                 IF i = Len(ErrorCodeOrder) THEN {"error-envelope-taxonomy"} ELSE {})]

AdmissionPlanCases ==
  <<Primarily("validate-invalid-space", PlanValidate([PlanPrimary EXCEPT !.space = MalformedSpace]),
              Only("invalid_argument")),
    Proving(Primarily("validate-unknown-exact-ref", PlanValidate([PlanPrimary EXCEPT !.ref = "unknown definition"]),
                      Only("form_unknown")),
            {"exact-form-ref-fails-closed-on-unknown-definition"}),
    Proving(Primarily("validate-primary", PlanValidate(PlanPrimary),
                      Found(TRUE) @@ [effective |-> MemoryMaterialize(PlanPrimary.desired)]),
            {"portable-defaults-materialized"}),
    Primarily("validate-invalid-schema",
              PlanValidate([PlanPrimary EXCEPT !.name = "invalid-schema-plan", !.desired = InvalidSchema(@)]), Found(FALSE)),
    Primarily("validate-invalid-declared-constraint",
              PlanValidate([PlanPrimary EXCEPT !.name = "invalid-constraint-plan", !.desired = Between(3, 2)]), Found(FALSE)),
    Primarily("prepare-required-unsupported-service",
              PlanPrepare("required-service-prepare",
                          [PlanPrimary EXCEPT !.name = "required-service-plan",
                                              !.desired = Asking(@, "a future protocol", "")], 0),
              Only("unsupported_capability")),
    Primarily("validate-optional-unsupported-service",
              PlanValidate([PlanPrimary EXCEPT !.name = "optional-service-plan",
                                               !.desired = Asking(@, "a future protocol", "no")]), Found(TRUE))>>

PrimaryCreate == Creating(PlanPrimary, "primary-create-prepare", "generic-plan-primary-create")

CreatePlanCases ==
  <<Proving(Primarily("prepare-primary-create", PlanPrepare("primary-create-prepare", PlanPrimary, 0),
                      PreparedAs("primary-create-prepare") @@ [effective |-> MemoryMaterialize(PlanPrimary.desired)]),
            {"prepare-binds-exact-spec"}),
    Primarily("apply-primary-create", PlanResource("apply", PrimaryCreate), CreatedAs(PlanPrimary) @@ [ready |-> TRUE]),
    Proving(Primarily("apply-primary-replay", PlanResource("apply", PrimaryCreate),
                      CreatedAs(PlanPrimary) @@ [sameUid |-> "apply-primary-create"]),
            {"apply-idempotency-replay"}),
    Case("apply-primary-cross-principal", "alternate", PlanResource("apply", PrimaryCreate), Only("invalid_argument")),
    Proving(Primarily("apply-primary-create-conflict",
                      PlanResource("apply", [PrimaryCreate EXCEPT !.idem = <<"generic-plan-primary-conflict">>]),
                      Only("generation_conflict")),
            {"create-conflict-when-exists"}),
    Primarily("read-primary", PlanResource("read", PlanPrimary),
              AtRevAs(OK, PlanPrimary, 1, 1) @@ [sameUid |-> "apply-primary-create"]),
    Case("read-primary-other-tenant", "other tenant", PlanResource("read", PlanPrimary), Only("resource_not_found")),
    Primarily("read-primary-other-space", PlanResource("read", [PlanPrimary EXCEPT !.space = AlternateSpace]),
              Only("resource_not_found"))>>

PrimaryUpdate ==
  [Updating(PlanPrimaryUpdated, 1, "primary-update-prepare", "generic-plan-primary-update")
     EXCEPT !.uid = <<"primary", 1>>]
PrimaryUpdateAgain(prep, key) == [PrimaryUpdate EXCEPT !.gen = 2, !.prep = prep, !.idem = <<key>>]

UpdatePlanCases ==
  <<Proving(Primarily("prepare-primary-update-without-fence", PlanPrepare("primary-unfenced-update", PlanPrimaryUpdated, 0),
                      Only("invalid_argument")),
            {"prepare-requires-update-fence"}),
    Primarily("prepare-primary-update", PlanPrepare("primary-update-prepare", PlanPrimaryUpdated, 1),
              PreparedAs("primary-update-prepare") @@ [effective |-> MemoryMaterialize(PlanPrimaryUpdated.desired)]),
    Proving(Primarily("apply-primary-update", PlanResource("apply", PrimaryUpdate),
                      AtRevAs(OK, PlanPrimaryUpdated, 2, 2) @@ [sameUid |-> "apply-primary-create"]),
            {"spec-change-bumps-generation"}),
    Primarily("apply-primary-stale",
              PlanResource("apply", [PrimaryUpdate EXCEPT !.idem = <<"generic-plan-primary-stale">>]),
              Only("generation_conflict")),
    Primarily("prepare-primary-current", PlanPrepare("primary-current-prepare", PrimaryUpdate, 2),
              PreparedAs("primary-current-prepare")),
    Primarily("apply-primary-wrong-uid",
              PlanResource("apply", [PrimaryUpdateAgain("primary-current-prepare", "generic-plan-primary-wrong-uid")
                                       EXCEPT !.uid = <<"not-primary", 1>>]),
              Only("uid_mismatch")),
    Case("apply-primary-other-tenant", "other tenant",
         PlanResource("apply", PrimaryUpdateAgain("missing-other-tenant-prepare", "generic-plan-other-tenant-update")),
         Only("invalid_argument"))>>

ObservePrimary == Fencing(PlanPrimary, 2, 0, "generic-plan-primary-observe")

ObservePlanCases ==
  <<Proving(Primarily("observe-primary", [PlanResource("observe", ObservePrimary) EXCEPT !.effect = "touch"],
                      AtRevAs(OK, PlanPrimaryUpdated, 2, 3) @@ [sameUid |-> "apply-primary-create"]),
            {"status-change-bumps-revision-not-generation"}),
    Case("observe-primary-other-tenant", "other tenant", PlanResource("observe", ObservePrimary),
         Only("resource_not_found"))>>

MatrixOf(key) == PrimaryUpdateAgain("primary-fence-prepare", "generic-plan-fence-" \o key)

FencePlanCases ==
  <<Primarily("prepare-primary-fence-matrix", PlanPrepare("primary-fence-prepare", PrimaryUpdate, 2),
              PreparedAs("primary-fence-prepare"))>>
    \o [i \in 1..5 |->
         Proving(<<Primarily("apply-primary-fence-missing",
                             PlanResource("apply", [MatrixOf("missing") EXCEPT !.gen = 0, !.omit = TRUE]),
                             Only("invalid_argument")),
                   Primarily("apply-primary-fence-body",
                             PlanResource("apply", [MatrixOf("body") EXCEPT !.gen = 0, !.body = 2]),
                             AtRevAs(OK, PlanPrimaryUpdated, 2, 3)),
                   Primarily("apply-primary-fence-disagree",
                             PlanResource("apply", [MatrixOf("disagree") EXCEPT !.disagree = 20]),
                             Only("invalid_argument")),
                   Primarily("apply-primary-fence-echo-honest",
                             PlanResource("apply", [MatrixOf("echo-honest") EXCEPT
                                                      !.hash = <<MemoryMaterialize(PlanPrimaryUpdated.desired)>>]),
                             AtRev(OK, PlanPrimary, 2, 3)),
                   Primarily("apply-primary-fence-echo-lying",
                             PlanResource("apply", [MatrixOf("echo-lying") EXCEPT !.hash = <<PlanDesired>>]),
                             Only("invalid_argument"))>>[i],
                 {"fence-matrix-observed"})]

DeletePrimary(gen, rev, key) ==
  PlanResource("delete", Fencing(PlanPrimary, gen, rev, "generic-plan-primary-delete" \o key))

DeletePlanCases ==
  <<Proving(Primarily("delete-primary-stale-generation", DeletePrimary(1, 0, "-stale-generation"),
                      Only("generation_conflict")),
            {"delete-generation-fence"}),
    Proving(Primarily("delete-primary-stale-revision", DeletePrimary(2, 2, "-stale-revision"), Only("revision_conflict")),
            {"delete-revision-fence", "stale-revision-rejected"}),
    Case("delete-primary-other-tenant", "other tenant", DeletePrimary(2, 0, "-other-tenant"), Only("resource_not_found")),
    Primarily("delete-primary", DeletePrimary(2, 3, ""), Only("deleted")),
    Primarily("prepare-primary-recreate", PlanPrepare("primary-recreate-prepare", PlanPrimary, 0),
              PreparedAs("primary-recreate-prepare")),
    Proving(Primarily("apply-primary-recreate",
                      PlanResource("apply", [PrimaryCreate EXCEPT !.prep = "primary-recreate-prepare"]),
                      CreatedAs(PlanPrimary) @@ [differentUid |-> "apply-primary-create"]),
            {"delete-then-recreate-uid-changes", "replay-record-retires-with-its-incarnation"})>>

AuditPlanCases ==
  LET audit == [PlanPrimary EXCEPT !.audit = "another valid audit"]
  IN  <<Primarily("prepare-package-audit", PlanPrepare("package-audit-prepare", audit, 1), PreparedAs("package-audit-prepare")),
        Primarily("apply-package-audit",
                  PlanResource("apply", Updating(audit, 1, "package-audit-prepare", "generic-plan-package-audit")),
                  AtRevAs(OK, PlanPrimary, 1, 1) @@ [sameUid |-> "apply-primary-recreate"])>>

\* A create in two cases, as the plan mostly writes it
PreparedThenApplied(prepareId, applyId, actor, in, prep, key, want) ==
  <<Case(prepareId, actor, PlanPrepare(prep, in, 0), PreparedAs(prep)),
    Case(applyId, actor, PlanResource("apply", Creating(in, prep, key)), want)>>

AddRevisionPlanCases ==
  LET updated == [PlanRevision EXCEPT !.desired = AtMode(PlanDesired, 2)]
  IN  PreparedThenApplied("prepare-revision-create", "apply-revision-create", "primary", PlanRevision,
                          "revision-create-prepare", "generic-plan-revision-create", CreatedAs(PlanRevision))
        \o <<Primarily("prepare-revision-update", PlanPrepare("revision-update-prepare", updated, 1),
                       PreparedAs("revision-update-prepare")),
             Primarily("apply-revision-update",
                       PlanResource("apply", Updating(updated, 1, "revision-update-prepare", "generic-plan-revision-update")),
                       Only("invalid_argument"))>>

AddOutputPlanCases ==
  PreparedThenApplied("prepare-output-create", "apply-output-create", "primary", PlanOutput, "output-create-prepare",
                      "generic-plan-output-create", CreatedAs(PlanOutput) @@ [outputs |-> AssignedOutputs(PlanOutput.ref)])

PlanImport(handle, name, native, key) ==
  [Renamed(PlanKeyed, handle, name) EXCEPT !.native = native, !.create = TRUE, !.idem = <<key>>]

AddImportPlanCases ==
  LET first == PlanImport("imported", "generic-import-plan", "native/generic-plan", "generic-plan-import")
      rival == PlanImport("import-rival", "generic-import-rival", "native/generic-plan", "generic-plan-import-rival")
      invalid ==
        PlanImport("import-invalid", "generic-import-invalid", "native/generic-invalid", "generic-plan-import-invalid")
      other ==
        PlanImport("imported-other-tenant", "generic-import-plan", "native/generic-plan", "generic-plan-import-other-tenant")
  IN  <<Primarily("import-resource", PlanResource("import", first), CreatedAs(first)),
        Primarily("import-native-claim-conflict", PlanResource("import", rival), Only("import_conflict")),
        Primarily("import-invalid", PlanResource("import", [invalid EXCEPT !.desired = InvalidSchema(Between(1, 2))]),
                  Only("invalid_argument")),
        Case("import-other-tenant", "other tenant", PlanResource("import", other), CreatedAs(other))>>

AddTenantPlanCases ==
  LET shared == Renamed(PlanKeyed, "tenant-resource", "tenant-plan")
      attempt == PlanResource("apply", Creating(shared, "other-tenant-prepare", "generic-plan-tenant-shared-key"))
  IN  <<Case("prepare-other-tenant", "other tenant", PlanPrepare("other-tenant-prepare", shared, 0),
             PreparedAs("other-tenant-prepare")),
        Proving(Primarily("apply-foreign-preparation", attempt, Only("invalid_argument")), {"prepare-is-tenant-scoped"}),
        Case("apply-other-tenant", "other tenant", attempt, CreatedAs(shared))>>

----------------------------------------------------------------------------
\* Operations: one awaited, one cancelled, one overtaken by a synchronous
\* update before it is looked at.

AcceptedAs(in) == [code |-> "accepted", op |-> in.handle, done |-> FALSE]
Asynchronously(command) == [command EXCEPT !.async = TRUE]

AsyncPlanCases ==
  LET async == Renamed(PlanKeyed, "async-create", "async-plan")
      settled == [CreatedAs(async) EXCEPT !.code = "completed"] @@ [op |-> async.handle, done |-> TRUE]
      get == PlanOperation("get", async.handle)
  IN  <<Primarily("prepare-async-create", PlanPrepare("async-create-prepare", async, 0), PreparedAs("async-create-prepare")),
        Primarily("apply-async-create",
                  Asynchronously(PlanResource("apply", Creating(async, "async-create-prepare", "generic-plan-async-create"))),
                  AcceptedAs(async)),
        Proving(Case("get-async-as-other-principal", "alternate", get, Only("operation_not_found")),
                {"operation-bound-to-its-creating-principal"}),
        Proving(Primarily("get-async-terminal", get, settled), {"async-operation-flow"}),
        Proving(Primarily("get-async-terminal-replay", get, settled),
                {"operation-replay-terminal", "operation-resumable-after-settlement"})>>

CancelPlanCases ==
  LET in == Renamed(PlanKeyed, "async-cancel", "async-cancel-plan")
      ended == [code |-> "cancelled", op |-> in.handle, done |-> TRUE, cancelled |-> TRUE]
  IN  <<Primarily("prepare-async-cancel", PlanPrepare("async-cancel-prepare", in, 0), PreparedAs("async-cancel-prepare")),
        Primarily("apply-async-cancel",
                  Asynchronously(PlanResource("apply", Creating(in, "async-cancel-prepare", "generic-plan-async-cancel"))),
                  AcceptedAs(in)),
        Proving(Primarily("cancel-async", PlanOperation("cancel", in.handle), ended), {"operation-cancel"}),
        Primarily("cancel-async-replay", PlanOperation("cancel", in.handle), ended)>>

RevalidatePlanCases ==
  LET as(in) == Renamed(in, "async-revalidate", "async-revalidate-plan")
      first == Updating(as(PlanKeyedUpdated), 1, "revalidate-async-prepare", "generic-plan-revalidate-async")
      second == Updating(as(PlanKeyedSecond), 1, "revalidate-sync-prepare", "generic-plan-revalidate-sync")
  IN  PreparedThenApplied("prepare-revalidate-create", "apply-revalidate-create", "primary", as(PlanKeyed),
                          "revalidate-create-prepare", "generic-plan-revalidate-create", CreatedAs(as(PlanKeyed)))
        \o <<Primarily("prepare-revalidate-async", PlanPrepare("revalidate-async-prepare", as(PlanKeyedUpdated), 1),
                       PreparedAs("revalidate-async-prepare")),
             Primarily("apply-revalidate-async", Asynchronously(PlanResource("apply", first)), AcceptedAs(first)),
             Primarily("prepare-revalidate-sync", PlanPrepare("revalidate-sync-prepare", as(PlanKeyedSecond), 1),
                       PreparedAs("revalidate-sync-prepare")),
             Primarily("apply-revalidate-sync", PlanResource("apply", second), AtRevAs(OK, second, 2, 2)),
             Primarily("get-revalidate-terminal", PlanOperation("get", "async-revalidate"),
                       [code |-> "generation_conflict", op |-> "async-revalidate", done |-> TRUE])>>

AddOperationPlanCases == AsyncPlanCases \o CancelPlanCases \o RevalidatePlanCases

\* Artifacts: one honest upload, and one that lies about the size.
PlanUpload(upload, manifest, size, key) ==
  [plane |-> "artifact", do |-> "begin", upload |-> upload, manifest |-> manifest, blob |-> "plan blob",
   size |-> size, idem |-> <<"generic-plan-" \o key>>, fault |-> ""]
HonestUpload(key) == PlanUpload("opaque-upload", "opaque-manifest", 1, key)
SizeLie(key) == PlanUpload("size-lie-upload", "size-lie-manifest", 2, key)
HonestCommit(key) == PlanArtifact("commit", HonestUpload(key))
PlanCommitted == [code |-> "committed", upload |-> "opaque-upload", manifest |-> "opaque-manifest"]

AddArtifactPlanCases ==
  LET begin == HonestUpload("artifact-begin")
      put == PlanArtifact("put", begin)
  IN  <<Primarily("artifact-begin", begin, [code |-> OK, upload |-> "opaque-upload", missing |-> 1]),
        Proving(Primarily("artifact-commit-before-blob", HonestCommit("artifact-early"), Only("artifact_missing")),
                {"artifact-upload-missing-blob"}),
        Proving(Primarily("artifact-put-wrong-digest", [put EXCEPT !.fault = "wrong bytes"], Only("artifact_invalid")),
                {"artifact-digest-mismatch"}),
        Primarily("artifact-put", put, [code |-> "uploaded", upload |-> "opaque-upload"]),
        Proving(Case("artifact-commit-other-tenant", "other tenant", HonestCommit("artifact-foreign"),
                     Only("artifact_missing")),
                {"upload-session-bound-to-its-creating-principal"}),
        Primarily("artifact-commit", HonestCommit("artifact-commit"), PlanCommitted),
        Primarily("artifact-commit-replay", HonestCommit("artifact-commit-replay"),
                  PlanCommitted @@ [sameManifest |-> "artifact-commit"]),
        Primarily("artifact-get-manifest", PlanArtifact("get manifest", begin), [code |-> OK, manifest |-> "opaque-manifest"]),
        Case("artifact-get-manifest-other-tenant", "other tenant", PlanArtifact("get manifest", begin),
             Only("artifact_missing")),
        Primarily("artifact-head-blob", PlanArtifact("head blob", begin), [code |-> OK, present |-> TRUE]),
        Primarily("artifact-size-lie-begin", [SizeLie("size-lie-begin") EXCEPT !.fault = "wrong size"],
                  [code |-> OK, upload |-> "size-lie-upload", missing |-> 0]),
        Proving(Primarily("artifact-size-lie-commit", PlanArtifact("commit", SizeLie("size-lie-commit")),
                          Only("artifact_invalid")),
                {"artifact-commit-binds-declared-size"})>>

----------------------------------------------------------------------------
\* Declared constraints, one scenario for every mechanism.

AppendCreate(id, in) ==
  PreparedThenApplied(id \o "-prepare", id \o "-apply", "primary", in, id \o "-prepare", "generic-plan-" \o id, Created(in))
AppendApplyInvalid(id, in) ==
  PreparedThenApplied(id \o "-prepare", id \o "-apply", "primary", in, id \o "-prepare", "generic-plan-" \o id,
                      Only("invalid_argument"))
AppendValidateInvalid(id, in) == <<Primarily(id, PlanValidate(in), Found(FALSE))>>
AppendValidateValid(id, in) == <<Primarily(id, PlanValidate(in), Found(TRUE))>>
AppendPrepareInvalid(id, in) == <<Primarily(id, PlanPrepare(id \o "-prepare", in, 0), Only("invalid_argument"))>>
AppendDelete(id, in, effect) ==
  <<Primarily(id, [PlanResource("delete", Fencing(in, 1, 0, "generic-plan-" \o id)) EXCEPT !.effect = effect],
              Only("deleted"))>>

\* An input named after its handle
Probing(handle, ref, desired) == GenericPlanResource(handle, ref, handle, desired)

Weighing(weights) == [PlanDesired EXCEPT !.body.weights = weights]
Claiming(value) == [PlanDesired EXCEPT !.claim = value]
ClaimPrimary == Probing("constraint-claim-primary", "ClaimTicket", Claiming("shared-claim"))
ClaimAlternate ==
  [Probing("constraint-claim-alternate", "ClaimLease", Claiming("shared-claim")) EXCEPT !.space = AlternateSpace]
BeforeHolder(in) == in.handle \o "-prepare-before-holder"
PrepareBeforeHolder(in) == Primarily(BeforeHolder(in), PlanPrepare(BeforeHolder(in), in, 0), PreparedAs(BeforeHolder(in)))

\* Sums, claims, what only a Host assigns, and keys of a list
ValuePlanCases ==
  AppendValidateValid("constraint-sum-valid", Probing("constraint-sum", "WeightedSet", Weighing(<<40, 60>>)))
    \o AppendValidateInvalid("constraint-sum-invalid", Probing("constraint-sum-invalid", "WeightedSet", Weighing(<<40, 50>>)))
    \o <<PrepareBeforeHolder(ClaimPrimary), PrepareBeforeHolder(ClaimAlternate),
         Primarily("constraint-claim-primary-apply",
                   PlanResource("apply", Creating(ClaimPrimary, BeforeHolder(ClaimPrimary),
                                                  "generic-plan-constraint-claim-primary")),
                   Created(ClaimPrimary)),
         Primarily("constraint-claim-alternate-conflict",
                   PlanResource("apply", Creating(ClaimAlternate, BeforeHolder(ClaimAlternate),
                                                  "generic-plan-constraint-claim-alternate-conflict")),
                   Only("invalid_argument"))>>
    \o AppendDelete("constraint-claim-primary-delete", ClaimPrimary, "")
    \o AppendCreate("constraint-claim-alternate-after-release", ClaimAlternate)
    \o AppendValidateInvalid("constraint-host-assigned-substitute",
                             Probing("constraint-host-assigned-substitute", "AssignedCounter",
                                     [PlanDesired EXCEPT !.body.assigned = TRUE]))
    \o AppendValidateInvalid("constraint-unique-by-duplicate",
                             Probing("constraint-structural", "NeutralStructuralHolder",
                                     [Between(1, 2) EXCEPT !.body.rows = <<"duplicate", "duplicate">>]))

ToNode(decl, name) == Ref(decl, "NeutralNode", name)
Left(name) == ToNode("/left", name)
Right(name) == ToNode("/right", name)
NextTo(name) == Relating(<<ToNode("/next", name)>>)
PlanNode(handle) == Probing(handle, "NeutralNode", PlanDesired)
NodeA == PlanNode("constraint-node-a")
NodeB == PlanNode("constraint-node-b")
PairAB == Relating(<<Left(NodeA.name), Right(NodeB.name)>>)
Distinct(handle, refs) == Probing(handle, "NeutralDistinctPairHolder", Relating(refs))
Unique(handle, desired) == Probing(handle, "NeutralUniquePairHolder", desired)
UniqueOne == Unique("constraint-unique-one", PairAB)
UniqueDuplicate == Unique("constraint-unique-duplicate", PairAB)

\* Pairs of relations: distinct, and unique in the order of the pair, for one
\* exact Form, as long as they are held
PairPlanCases ==
  AppendCreate("constraint-node-a", NodeA)
    \o AppendCreate("constraint-node-b", NodeB)
    \o <<Primarily("constraint-distinct-missing-prepare",
                   PlanPrepare("constraint-distinct-missing-prepare",
                               Distinct("constraint-distinct-missing", <<Left(NodeA.name)>>), 0),
                   PreparedAs("constraint-distinct-missing-prepare"))>>
    \o AppendValidateInvalid("constraint-distinct-same-validate",
                             Distinct("constraint-distinct-same", <<Left(NodeA.name), Right(NodeA.name)>>))
    \o AppendCreate("constraint-unique-one", UniqueOne)
    \o AppendPrepareInvalid("constraint-unique-duplicate-prepare", UniqueDuplicate)
    \o AppendDelete("constraint-unique-one-delete", UniqueOne, "")
    \o AppendCreate("constraint-unique-after-release", UniqueDuplicate)
    \o AppendCreate("constraint-unique-reversed",
                    Unique("constraint-unique-reversed", Relating(<<Left(NodeB.name), Right(NodeA.name)>>)))
    \o AppendCreate("constraint-unique-second",
                    Probing("constraint-unique-second", "NeutralUniquePairHolderDefinition2", PairAB))

NodeBLinked == [NodeB EXCEPT !.desired = NextTo(NodeA.name)]
Member(handle) == Probing(handle, "NeutralMember", Relating(<<ToNode("/through", NodeA.name)>>))
MemberOne == Member("constraint-member-one")
MemberTwo == Member("constraint-member-two")
Anchored(handle, anchor, members) ==
  Probing(handle, "NeutralSameTargetHolder",
          Relating(<<ToNode("/anchor", anchor)>>
                     \o [i \in DOMAIN members |-> Item("/members/*", i, "NeutralMember", members[i])]))

\* Cycles, and members that must resolve to the anchor
GraphPlanCases ==
  <<Primarily("constraint-node-b-link-prepare", PlanPrepare("constraint-node-b-link-prepare", NodeBLinked, 1),
              PreparedAs("constraint-node-b-link-prepare")),
    Primarily("constraint-node-b-link-apply",
              PlanResource("apply", Updating(NodeBLinked, 1, "constraint-node-b-link-prepare",
                                             "generic-plan-constraint-node-b-link")),
              AtRev(OK, NodeB, 2, 2))>>
    \o AppendPrepareInvalid("constraint-node-cycle-prepare", [NodeA EXCEPT !.desired = NextTo(NodeB.name)])
    \o AppendValidateInvalid("constraint-node-self-validate", [NodeA EXCEPT !.desired = NextTo(NodeA.name)])
    \o AppendCreate("constraint-member-one", MemberOne)
    \o AppendCreate("constraint-member-two", MemberTwo)
    \o AppendCreate("constraint-same-valid",
                    Anchored("constraint-same-valid", NodeA.name, <<MemberOne.name, MemberTwo.name>>))
    \o AppendValidateInvalid("constraint-same-mismatch-validate",
                             Anchored("constraint-same-mismatch", NodeB.name, <<MemberOne.name, MemberTwo.name>>))

\* What was pinned to a node that was since replaced under its name
DriftPlanCases ==
  AppendDelete("constraint-node-a-external-delete", NodeA, "external")
    \o [AppendCreate("constraint-node-a-recreate", NodeA)
          EXCEPT ![2].want = @ @@ [differentUid |-> "constraint-node-a-apply"]]
    \o AppendPrepareInvalid("constraint-node-replacement-drift-prepare",
                            Probing("constraint-node-drift", "NeutralNode", NextTo(NodeB.name)))
    \o AppendValidateInvalid("constraint-same-replacement-drift-validate",
                             Anchored("constraint-same-drift", NodeA.name, <<MemberOne.name>>))
    \o AppendCreate("constraint-unique-replacement", Unique("constraint-unique-replacement", PairAB))

Holding(handle, ref, kind, name) == Probing(handle, ref, Relating(<<Ref("/target", kind, name)>>))
LeaseOn(handle, ref) == Holding(handle, ref, "RangeCounter", PlanPrimary.name)
Sequenced == GenericPlanResource("constraint-sequence", "RangeSequence", "range-sequence-probe", Between(3, 6))
ReservationOn(handle) == Holding(handle, "CounterReservation", "RangeSequence", Sequenced.name)

\* A target is held by one resource of an exact Form.
ExclusivePlanCases ==
  AppendCreate("constraint-lease-holder", [LeaseOn("constraint-lease-holder", "CounterLease") EXCEPT !.name = "counter-lease-probe"])
    \o AppendApplyInvalid("constraint-lease-rival", LeaseOn("constraint-lease-rival", "CounterLease"))
    \o AppendCreate("constraint-lease-second-exact-form", LeaseOn("constraint-lease-second", "CounterLeaseDefinition2"))
    \o AppendCreate("constraint-sequence", Sequenced)
    \o AppendCreate("constraint-reservation-holder",
                    [ReservationOn("constraint-reservation-holder") EXCEPT !.name = "counter-reservation-probe"])
    \o AppendApplyInvalid("constraint-reservation-rival", ReservationOn("constraint-reservation-rival"))

AllProving(cases, checks) == [i \in DOMAIN cases |-> Proving(cases[i], checks)]

AddConstraintPlanCases ==
  AllProving(ValuePlanCases \o PairPlanCases \o GraphPlanCases \o DriftPlanCases,
             {"declared-constraint-semantics-enforced"})
    \o AllProving(ExclusivePlanCases,
                  {"declared-constraint-semantics-enforced", "declared-exclusive-holds-enforced"})

SecondGroupPlanCases ==
  PreparedThenApplied("prepare-second-group", "apply-second-group", "primary", PlanSecondGroup, "second-group-prepare",
                      "generic-plan-second-group", Created(PlanSecondGroup))

StableBuildGenericPlan ==
  CatalogPlanCases \o EnvelopePlanCases \o AdmissionPlanCases \o CreatePlanCases \o UpdatePlanCases
    \o ObservePlanCases \o FencePlanCases \o DeletePlanCases \o AuditPlanCases
    \o AddRevisionPlanCases \o AddOutputPlanCases \o AddImportPlanCases \o AddTenantPlanCases
    \o AddOperationPlanCases \o AddArtifactPlanCases \o AddConstraintPlanCases \o SecondGroupPlanCases

----------------------------------------------------------------------------
\* The run.  What a want leaves out is not asked.

CommandVariants == {"catalog", "admission", "resource", "operation", "artifact", "probe"}

\* Every case has its own id and one command, and every required check has a case.
ValidateGenericPlan(cases) ==
  /\ \A i \in DOMAIN cases : cases[i].id # "" /\ cases[i].plane \in CommandVariants
  /\ Cardinality({cases[i].id : i \in DOMAIN cases}) = Len(cases)
  /\ UNION {cases[i].checks : i \in DOMAIN cases} = StableGenericRequiredChecks

Observing(obs, field, value) == field \in DOMAIN obs /\ obs[field] = value

ObservedFields == {"valid", "effective", "prepared", "op", "done", "cancelled", "upload", "manifest", "present",
                   "forms", "form", "satisfiable"}
ResourceFields == {"handle", "gen", "rev", "desired", "outputs", "ready"}

UidRelates(obs, want, history) ==
  /\ "sameUid" \in DOMAIN want => obs.resource.uid = history[want.sameUid].resource.uid
  /\ "differentUid" \in DOMAIN want => obs.resource.uid # history[want.differentUid].resource.uid

VerifyGenericExpected(want, obs, history) ==
  /\ obs.code = want.code
  /\ \A f \in DOMAIN want \cap ObservedFields : Observing(obs, f, want[f])
  /\ \A f \in DOMAIN want \cap ResourceFields : "resource" \in DOMAIN obs /\ obs.resource[f] = want[f]
  /\ UidRelates(obs, want, history)
  /\ "missing" \in DOMAIN want => Cardinality(obs.missing) = want.missing
  /\ "sameManifest" \in DOMAIN want => obs.manifest = history[want.sameManifest].manifest

\* Both Hosts start from nothing; a plan the runner refuses is not begun.
NewPlan ==
  [host |-> NewHost, memory |-> NewMemory, adapter |-> NewAdapter, history |-> <<>>, next |-> 1,
   failed |-> IF ValidateGenericPlan(StableBuildGenericPlan) THEN <<>> ELSE <<"refused">>]

\* Both observations met the case and are the same, so one history is both.
GenericPlanCase(plan, c, saw, wired) ==
  IF \/ ~VerifyGenericExpected(c.want, saw.obs, plan.history)
     \/ ~VerifyGenericExpected(c.want, wired.obs, plan.history)
     \/ saw.obs # wired.obs
    THEN [plan EXCEPT !.failed = <<c.id, c.want, saw.obs, wired.obs>>]
  ELSE [plan EXCEPT !.host = wired.h, !.memory = saw.m, !.adapter = wired.g, !.next = @ + 1,
                    !.history = (c.id :> saw.obs) @@ @]

\* The plan goes on until a case fails or is observed differently.
PlanGoesOn(plan) == plan.failed = <<>> /\ plan.next <= Len(StableBuildGenericPlan)

\* Both Hosts are sent the next case.
StableRunGenericPlan(plan) ==
  LET c == StableBuildGenericPlan[plan.next]
  IN  GenericPlanCase(plan, c, MemoryCall(plan.memory, c), AdapterCall(plan.host, plan.adapter, c))
=============================================================================
