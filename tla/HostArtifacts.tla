---------------------------- MODULE HostArtifacts ----------------------------
(***************************************************************************)
(* The artifact plane of the reference Host (reference_host.go): upload    *)
(* sessions, the blobs they stage, and the manifests they commit.          *)
(*                                                                         *)
(* A blob or a manifest is its digest.  h.blobs and h.manifests say which  *)
(* tenant holds which; the bytes themselves are stored once, while anyone  *)
(* holds them.                                                             *)
(***************************************************************************)
EXTENDS HostOps

HoldsBlob(h, tenant, blob) == <<tenant, blob>> \in h.blobs
HoldsManifest(h, tenant, digest) == <<tenant, digest>> \in h.manifests

ArtifactAnswer(code, upload, missing) == [code |-> code, upload |-> upload, missing |-> missing]
ArtifactRefuse(h, code) == [h |-> h, ans |-> ArtifactAnswer(code, NoUid, {}), bind |-> Unbound]

\* Artifact requests name no Space.
ArtifactReplayKey(caller, idem) == <<caller, "", idem>>

\* Once, for answers of this plane.
ArtifactOnce(h, rk, print, done) ==
  IF rk[3] = NoIdem THEN ArtifactRefuse(h, "invalid_argument")
  ELSE IF rk \in DOMAIN h.replays
    THEN IF h.replays[rk].print = print THEN [h |-> h, ans |-> h.replays[rk].ans]
         ELSE ArtifactRefuse(h, "invalid_argument")
  ELSE IF done.ans.code = OK
    THEN [h |-> RecordReplay(done.h, rk, print, done.ans, Unbound), ans |-> done.ans]
  ELSE done

\* The two reads: whoever's tenant does not hold it is told it is unknown.
HandleArtifactManifestRead(h, caller, digest) ==
  ArtifactAnswer(IF HoldsManifest(h, caller[1], digest) THEN OK ELSE "artifact_missing", NoUid, {})
HandleArtifactBlobHead(h, caller, blob) ==
  ArtifactAnswer(IF HoldsBlob(h, caller[1], blob) THEN OK ELSE "not_found", NoUid, {})

Missing(h, tenant, digest) == {b \in BlobDigests(Manifests[digest]) : ~HoldsBlob(h, tenant, b)}

HandleArtifactUploadStart(h, caller, idem, digest) ==
  LET nth == Count(h.opened, caller) + 1
      n   == <<caller, nth>>
      done == IF ~ValidateArtifactManifest(Manifests[digest]) THEN ArtifactRefuse(h, "artifact_invalid")
              ELSE [h |-> [h EXCEPT !.opened = (caller :> nth) @@ @,
                                    !.uploads = (n :> [owner |-> caller, manifest |-> digest]) @@ @],
                    ans |-> ArtifactAnswer(OK, n, Missing(h, caller[1], digest))]
  IN  ArtifactOnce(h, ArtifactReplayKey(caller, idem), <<"start", digest>>, done)

OwnedUpload(h, caller, n) == n \in DOMAIN h.uploads /\ h.uploads[n].owner = caller

\* The size the last entry with this digest declares.
DeclaredSize(m, blob) ==
  LET es == Entries(m) IN es[SelectLastInSeq(es, LAMBDA e : e.digest = blob)].size

VerifyCommittedSizes(m) ==
  \A i \in DOMAIN Entries(m) : Entries(m)[i].size = BlobSize[Entries(m)[i].digest]

\* matches: the body of the request hashes to blob.
HandleArtifactBlobUpload(h, caller, n, blob, matches) ==
  LET m == Manifests[h.uploads[n].manifest]
  IN  IF ~OwnedUpload(h, caller, n) THEN ArtifactRefuse(h, "artifact_missing")
      ELSE IF blob \notin BlobDigests(m) \/ ~matches \/ DeclaredSize(m, blob) # BlobSize[blob]
        THEN ArtifactRefuse(h, "artifact_invalid")
      ELSE [h |-> [h EXCEPT !.blobs = @ \cup {<<caller[1], blob>>}],
            ans |-> ArtifactAnswer(OK, n, {})]

HandleArtifactCommit(h, caller, idem, n) ==
  LET digest == h.uploads[n].manifest
      done == IF ~OwnedUpload(h, caller, n) THEN ArtifactRefuse(h, "artifact_missing")
              ELSE IF ~ValidateArtifactManifest(Manifests[digest]) THEN ArtifactRefuse(h, "artifact_invalid")
              ELSE IF Missing(h, caller[1], digest) # {} THEN ArtifactRefuse(h, "artifact_missing")
              ELSE IF ~VerifyCommittedSizes(Manifests[digest]) THEN ArtifactRefuse(h, "artifact_invalid")
              ELSE [h |-> [h EXCEPT !.manifests = @ \cup {<<caller[1], digest>>}],
                    ans |-> ArtifactAnswer(OK, n, {})]
  IN  ArtifactOnce(h, ArtifactReplayKey(caller, idem), <<"commit", n>>, done)

\* Mutant: what a session staged goes, whoever else holds it in another tenant.
MutCollectEveryTenant(h, tenant, digest) ==
  LET retained == UNION {BlobDigests(Manifests[d]) : d \in {e \in DOMAIN Manifests : HoldsManifest(h, tenant, e)}}
  IN  [h EXCEPT !.blobs = {p \in @ : p[2] \notin BlobDigests(Manifests[digest]) \ retained}]

\* Mutant: what a session staged goes, committed or not.
MutCollectStagedBlobs(h, tenant, digest) ==
  [h EXCEPT !.blobs = @ \ {<<tenant, b>> : b \in BlobDigests(Manifests[digest])}]

\* What a session staged goes, save the blobs a manifest of the tenant names.
CollectStagedBlobs(h, tenant, digest) ==
  LET retained == UNION {BlobDigests(Manifests[d]) : d \in {e \in DOMAIN Manifests : HoldsManifest(h, tenant, e)}}
  IN  [h EXCEPT !.blobs = @ \ {<<tenant, b>> : b \in BlobDigests(Manifests[digest]) \ retained}]

HandleArtifactUploadAbandon(h, caller, idem, n) ==
  LET gone == [h EXCEPT !.uploads = [u \in DOMAIN @ \ {n} |-> @[u]]]
  IN  IF idem = NoIdem THEN ArtifactRefuse(h, "invalid_argument")
      ELSE IF ~OwnedUpload(h, caller, n) THEN ArtifactRefuse(h, "artifact_missing")
      ELSE [h |-> CollectStagedBlobs(gone, caller[1], h.uploads[n].manifest),
            ans |-> ArtifactAnswer(OK, n, {})]
=============================================================================
