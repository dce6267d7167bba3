--------------------------- MODULE ConformanceSuite ---------------------------
(***************************************************************************)
(* The conformance runner at work: the suite is played against a reference *)
(* Host while a caller of another tenant plays a script of its own, at any *)
(* pace, between any two of its requests.  The generic plan is run in a    *)
(* world of its own, against a reference Host and the in-memory one, and   *)
(* the runtime ABI runner in a third.                                      *)
(***************************************************************************)
EXTENDS ChecksLifecycle, ChecksOperations, ChecksArtifacts, ChecksRelations, ChecksWorkers, ChecksClaims,
  ChecksConstraints, ChecksTenants, ChecksSurface, GenericPlan, RuntimeConformance

CONSTANT Scripts   \* the checks of each player, in the order it plays them

VARIABLES
  subject,  \* the Host under test
  players,  \* which step each player is at, what it has noted and where it failed
  plan      \* the two Hosts of the generic plan, what they have shown, and the next case

suite == <<subject, players, plan, runtimeVars>>

\* The checks of v3Runner.run in its order
Suite ==
  <<CheckErrorTaxonomy, CheckUnauthenticatedRequestRefused, CheckFormsAvailability, CheckFormDefinitions,
    CheckValidate, CheckNegativeFixtures, CheckPrepareBinding, CheckPrepareSubstitution,
    CheckApplyHeaders, CheckCreateLifecycle, CheckReplayRecordRetiresWithItsIncarnation,
    CheckAcceptedReplayRetiresWithItsIncarnation, CheckGenerationFences, CheckPrepareFences,
    CheckReadETags, CheckNamespacedGroupPathSegments, CheckConditionReasonsClosed, CheckSpaceIDGrammar,
    CheckConcurrentUnrelatedMutation,
    CheckObserveAndStatusTouch, CheckExpectedUID, CheckPackageDigestNotIdentity,
    CheckSameKindTwoGroups,
    CheckArtifacts, CheckArtifactRejectList, CheckArtifactManifestKindExclusive,
    CheckBundleMainModuleIsLoadable, CheckArtifactRetentionWhileReferenced,
    CheckUploadSessionOwnership, CheckArtifactDigestIsNotACapability,
    CheckManifestReferenceIsNotACapability, CheckStaticAssetSPAJourney,
    CheckSQLiteMigrationLedgerReadiness,
    CheckWorkerVersionFlow, CheckBindingContractVerified, CheckRelationIncarnationChange,
    CheckAttachmentRequiresActiveDeployment, CheckDeploymentWeightSum, CheckDeploymentIntegrity,
    CheckHandlerGatedAttachments, CheckClassHolderRules, CheckDeclaredExclusiveHoldsEnforced,
    CheckDeclaredConstraintSemanticsEnforced, CheckCronGrammarEnforced, CheckSingleQueueConsumerEnforced,
    CheckCustomDomainHostnameCanonicalized, CheckCustomDomainHostnameClaimUnique,
    CheckCustomDomainHostnameClaimStopsAtTheTenant, CheckDeadLetterCycleRejected,
    CheckAttachmentClaimDecidedOnImport, CheckAttachmentClaimRevalidatedAtCommit,
    CheckCustomDomainULabelRefused,
    CheckUndeclaredRuntimeHandlerRejected, CheckDeclaredHandlerNotExportedRejected,
    CheckBindingNameCollision, CheckWorkerEndpointAddressIsHostAssigned,
    CheckWorkerEndpointSinglePerWorker, CheckFormDeclaredOutputsAreExact,
    CheckWorkerEndpointFollowsTheActiveDeployment, CheckWorkerEndpointAddressIsStableForItsUID,
    CheckDeploymentChangePreservesDependents, CheckDeploymentDeleteBlockedByDependent,
    CheckDependentRevisionAdvancesWithRendering, CheckDeleteFenceSurvivesDerivedRendering,
    CheckRelationReapplyRepins, CheckRelationDeletionProtection,
    CheckImportFlows, CheckNativeIdentityClaim, CheckRecordedNativeIdentity, CheckDeleteFences,
    CheckOperations, CheckOperationOwnership, CheckOperationResumableAfterSettlement,
    CheckExactFormRefFailsClosedOnUnknownDefinition, CheckTwoDefinitionVersionsAnswerIndependently,
    CheckResourceAnswersOnlyUnderItsRecordedFormRef,
    ExactRefRelationFixture \o CheckRelationTargetFormRefVerified, CheckRelationTargetInterfaceVerified,
    CheckRelationPinRecordsTargetFormRef, CheckAsyncCommitRevalidates,
    CheckAsyncCommitBindsAcceptedIdentity, CheckCrossSpace, CheckSupportProfiles,
    CheckTenantIsolatedResourcePlane, CheckFenceMatrixObserved, CheckFormsRouteEnumerates,
    CheckAvailabilityTruthConditions, CheckCancelOutcomesClosed,
    CheckStableStandardServiceSupportEnforced, CheckPortableDefaultsMaterialized>>

\* The other tenant uses the names and the bytes of the suite.
Bystander ==
  LET kv == As(KvProbe, Carol)
  IN  Create(kv)
        \o Started(Carol, "worker bundle", {"module"})
        \o Uploaded(Carol, "worker bundle", "module", OK)
        \o Send("import", kv, OK, [fence |-> "current", native |-> "native"])
        \o Abandoned(Carol, "worker bundle", OK)
        \o Send("delete", kv, OK, [fence |-> "current"])

----------------------------------------------------------------------------

SuiteBegins ==
  /\ subject = NewHost
  /\ players = [p \in DOMAIN Scripts |-> [check |-> 1, step |-> 1, notes |-> <<>>, failed |-> <<>>]]
  /\ plan = NewPlan
  /\ IF world = "Runtime" THEN MeasurementBegins ELSE NothingMeasured

\* What the next check still knows of this one.
KeptNotes(notes) == [l \in DOMAIN notes \cap {"cancelled"} |-> notes[l]]

Advanced(checks, at, notes) ==
  IF at.step < Len(checks[at.check]) THEN [at EXCEPT !.step = @ + 1, !.notes = notes]
  ELSE [at EXCEPT !.check = @ + 1, !.step = 1, !.notes = KeptNotes(notes)]

\* The records of keys nobody repeats
CleanUp(h) == [h EXCEPT !.replays = [rk \in {x \in DOMAIN @ : x[3] # OneShot} |-> @[rk]]]

Judge(p, s, q, r) ==
  /\ subject' = CleanUp(r.h)
  /\ players' = [players EXCEPT ![p] =
       IF MeetsDemand(s, @.notes, r) THEN Advanced(Scripts[p], @, Noted(s, @.notes, q, subject, r.ans))
       ELSE [@ EXCEPT !.failed = <<s.do, s.d.name, s.want, r.ans>>]]

Ask(p, s, q) == Judge(p, s, q, Sent(subject, s, players[p].notes, q))

Turn(p, s) == Ask(p, s, Asked(s, players[p].notes, CurrentOf(subject, KeyOf(s.d))))

Running(p) == players[p].failed = <<>> /\ players[p].check <= Len(Scripts[p])

Play ==
  /\ world = "Suite"
  /\ \E p \in DOMAIN Scripts :
       /\ Running(p)
       /\ Turn(p, Scripts[p][players[p].check][players[p].step])
  /\ UNCHANGED <<vars, plan, runtimeVars>>

RunPlan ==
  /\ world = "Plan"
  /\ PlanGoesOn(plan)
  /\ plan' = StableRunGenericPlan(plan)
  /\ UNCHANGED <<vars, subject, players, runtimeVars>>

MeasureRuntime ==
  /\ world = "Runtime"
  /\ Measure
  /\ UNCHANGED <<vars, subject, players, plan>>

SuiteInit == Init /\ SuiteBegins
SuiteNext == Play \/ RunPlan \/ MeasureRuntime
SuiteSpec == SuiteInit /\ [][SuiteNext]_<<vars, suite>>

\* Every answer the conformance suite demands is the one the reference Host
\* gives, whatever a caller of another tenant does under the same names between
\* any two requests of the suite; no case of the generic plan tells the
\* reference Host from the in-memory one; and the runtime ABI runner reports of
\* a runtime exactly the defects it has, run after run against one deployment.
ConformancePasses ==
  /\ \A p \in DOMAIN Scripts : players[p].failed = <<>>
  /\ plan.failed = <<>>
  /\ VerdictsAreTrue
  /\ AcceptedWorkSettles
=============================================================================
