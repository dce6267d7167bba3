---------------------------- MODULE ChecksArtifacts ----------------------------
(***************************************************************************)
(* The checks of the conformance suite on artifacts: uploads, commits,     *)
(* what a digest gives access to, and the bundles, asset bundles and       *)
(* migration sets built on them (runner_checks.go,                         *)
(* runner_operability_checks.go, runner_edge_app_checks.go,                *)
(* runner_attachment_claim_checks.go).  An artifact is the name of its     *)
(* manifest, a blob the name of its bytes.                                 *)
(***************************************************************************)
EXTENDS ConformanceCorpus

Primary == Caller(Alice)

NotStarted(artifact) == Send("start", Primary, "artifact_invalid", [artifact |-> artifact])
Abandoned(c, artifact, code) == Send("abandon", Caller(c), code, [of |-> artifact])
ReadManifest(c, artifact, code) == Send("manifest", Caller(c), code, [artifact |-> artifact])
HeadBlob(c, blob, code) == Send("head", Caller(c), code, [blob |-> blob])

BundleCarrying(name, artifact) == Carrying(Named(BundleProbe, name), artifact)

CheckArtifacts ==
  Started(Alice, "worker bundle", {"module"})
    \o Committed(Alice, "worker bundle", "artifact_missing")
    \o Send("blob", Primary, "artifact_invalid",
            [of |-> "worker bundle", blob |-> "module", whole |-> FALSE])
    \o Uploaded(Alice, "worker bundle", "module", OK)
    \o Committed(Alice, "worker bundle", OK)
    \o Committed(Alice, "worker bundle", OK)
    \o ReadManifest(Alice, "worker bundle", OK)
    \o HeadBlob(Alice, "module", OK)
    \o HeadBlob(Alice, "absent blob", "not_found")
    \o Create(BundleProbe)
    \o RefusedCreate(BundleCarrying("bundle-uncommitted-probe", "never committed"), "artifact_missing")
    \o UploadAndCommitManifestAs(Alice, "assets", {"index page"})
    \o RefusedCreate(BundleCarrying("bundle-wrong-kind-probe", "assets"), "artifact_invalid")

CheckArtifactRejectList ==
  NotStarted("orphan source map") \o NotStarted("oversized")
    \o Started(Alice, "mislabelled", {})
    \o Committed(Alice, "mislabelled", "artifact_invalid")
    \o HeadBlob(Alice, "module", OK)

CheckArtifactManifestKindExclusive ==
  LET Refused(mixture) == NotStarted(mixture) \o ReadManifest(Alice, mixture, "artifact_missing")
  IN  Refused("bundle with files") \o Refused("assets with modules")
        \o Refused("migrations with a main module")

\* A module the runtime cannot load is no main module.
CheckBundleMainModuleIsLoadable ==
  NotStarted("main is a source map")
    \o UploadAndCommitManifestAs(Alice, "main beside its source map", {"its map"})

CheckArtifactRetentionWhileReferenced ==
  Read(BundleProbe)
    \o Started(Alice, "unrelated", {"unrelated module"})
    \o Uploaded(Alice, "unrelated", "unrelated module", OK)
    \o Abandoned(Alice, "unrelated", OK)
    \o ReadManifest(Alice, "worker bundle", OK)
    \o HeadBlob(Alice, "module", OK)
    \o Read(BundleProbe)

CheckUploadSessionOwnership ==
  LET Foreign(c) ==
        Uploaded(c, "ownership", "owned module", "artifact_missing")
          \o Committed(c, "ownership", "artifact_missing")
          \o Abandoned(c, "ownership", "artifact_missing")
  IN  Started(Alice, "ownership", {"owned module"})
        \o Foreign(Anne) \o Foreign(Bob)
        \o Uploaded(Alice, "ownership", "owned module", OK)
        \o Committed(Alice, "ownership", OK)

CheckArtifactDigestIsNotACapability ==
  ReadManifest(Bob, "worker bundle", "artifact_missing") \o HeadBlob(Bob, "module", "not_found")
    \o ReadManifest(Anne, "worker bundle", OK) \o HeadBlob(Anne, "module", OK)
    \o UploadAndCommitManifestAs(Bob, "worker bundle", {"module"})
    \o ReadManifest(Bob, "worker bundle", OK) \o HeadBlob(Bob, "module", OK)
    \o ReadManifest(Alice, "worker bundle", OK)

CheckManifestReferenceIsNotACapability ==
  LET foreign == BundleCarrying("bundle-foreign-reference-probe", "reference")
      Refused(do, native) ==
        Send(do, As(foreign, Bob), "artifact_missing", [fence |-> "create", native |-> native])
          \o Gone(foreign)
  IN  UploadAndCommitManifestAs(Alice, "reference", {"referenced module"})
        \o Create(As(BundleCarrying("bundle-holder-reference-probe", "reference"), Anne))
        \o Refused("apply", "") \o Refused("import", "native-foreign-reference-probe")
        \o UploadAndCommitManifestAs(Bob, "reference", {"referenced module"})
        \o Create(As(foreign, Bob))

----------------------------------------------------------------------------
\* Asset bundles and migrations

CheckStaticAssetSPAJourney ==
  LET assets  == Carrying(Desired("StaticAssetBundle", "static-assets-probe", <<>>), "static site")
      version == [Binding(Named(VersionProbe, "static-assets-spa-version"),
                          <<Ref(AssetsPtr, "StaticAssetBundle", "static-assets-probe")>>)
                    EXCEPT !.spec.spa = TRUE]
  IN  UploadAndCommitManifestAs(Alice, "static site", {"site index"})
        \o Create(assets)
        \o Create(version) \o ReadShowing(version, "Available")
        \o Discard(version) \o Discard(assets)

CheckSQLiteMigrationLedgerReadiness ==
  LET db     == Desired("SQLiteDatabase", "sqlite-database-probe", <<>>)
      first  == Carrying(Desired("SQLiteMigrationSet", "sqlite-migration-set-probe", <<>>), "schema")
      second == Carrying(Desired("SQLiteMigrationSet", "sqlite-migration-set-superset", <<>>), "schema and more")
      applied  == MigrationApplicationOf("sqlite-migration-application-probe", "sqlite-migration-set-probe")
      extended == MigrationApplicationOf("sqlite-migration-application-superset", "sqlite-migration-set-superset")
  IN  UploadAndCommitManifestAs(Alice, "schema", {"schema step"})
        \o Create(db) \o Create(first) \o Create(applied) \o ReadShowing(applied, "Available")
        \o UploadAndCommitManifestAs(Alice, "schema and more", {"more steps"})
        \o Create(second)
        \o Send("apply", extended, "invalid_argument", [fence |-> "create"])
        \o Discard(applied)
        \o Create(extended) \o ReadShowing(extended, "Available")
        \o DiscardAll(<<extended, second, first, db>>)
=============================================================================
