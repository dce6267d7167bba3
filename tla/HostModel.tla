------------------------------ MODULE HostModel ------------------------------
(***************************************************************************)
(* The store of the reference Host of Host API v3                          *)
(* (internal/portableconformancev3/reference_host.go) and the relations    *)
(* its resources hold on each other (relations.go).  ServeHTTP runs every  *)
(* request under one mutex, so the Host is a value h and a request is a    *)
(* function of it; the modules that EXTEND this one add what a request     *)
(* validates and does.                                                     *)
(*                                                                         *)
(* h is a record:                                                          *)
(*   res       the stored resources, a function of their keys              *)
(*   holders   relationHolders, as the set of its <<uid, holder key>>      *)
(*   born      how many resources were ever created under each key         *)
(*   prepares  the prepare bindings handed out                             *)
(*   replays   the idempotency records, a function of their keys           *)
(*   ops       the accepted Operations, in order of acceptance             *)
(*   uploads   the artifact upload sessions, a function of their ids       *)
(*   opened    how many upload sessions each caller ever started           *)
(*   blobs     who holds which blob, as a set of <<tenant, digest>>        *)
(*   manifests who committed which manifest, as a set of <<tenant, digest>>*)
(*   ledgers   the applied migrations of each database uid                 *)
(*                                                                         *)
(* A uid is <<key, n>>, the nth resource created under that key: it is     *)
(* fresh for every create, as the Host's counter is, and does not depend   *)
(* on the order in which other resources were created; an upload id is     *)
(* <<caller, n>>, the nth session of that caller.  A FormRef is a          *)
(* name for one exact identity (group, kind, definition version, digest);  *)
(* a spec is a record of what the rules of the Host tell apart, and its    *)
(* canonical digest is the spec itself.                                    *)
(***************************************************************************)
EXTENDS Naturals, Sequences, FiniteSets, SequencesExt

CONSTANTS
  Forms,          \* the installed Form of each exact FormRef
  ModuleExports,  \* the handlers a module exports, for the blobs the Host knows
  ModuleClasses,  \* the classes a module exports, for the blobs the Host knows
  Manifests,      \* the artifact manifest behind each manifest digest
  BlobSize        \* the length of the bytes behind each blob digest

OK == "ok"

\* The first refusal of two checks made in this order.
a ?? b == IF a = OK THEN b ELSE a

\* The first refusal of a list of checks.
FirstRefusal(codes) == FoldRight(LAMBDA code, rest : code ?? rest, codes, OK)

NoUid == <<>>
NoKey == <<>>

----------------------------------------------------------------------------
\* Addresses

ResourceKey(scope, kind, name) == <<scope[1], scope[2], kind, name>>
ScopeOf(key) == <<key[1], key[2]>>
TenantOf(key) == key[1]
KindOf(key) == key[3]
NameOf(key) == key[4]

Live(h) == DOMAIN h.res
Scoped(h, scope) == {k \in Live(h) : ScopeOf(k) = scope}
OfTenant(h, tenant) == {k \in Live(h) : TenantOf(k) = tenant}

ResourceUnderExactRef(h, key, ref) == key \in Live(h) /\ h.res[key].ref = ref

LiveUids(h) == {h.res[k].uid : k \in Live(h)}

NewHost ==
  [res |-> <<>>, holders |-> {}, born |-> <<>>, prepares |-> {}, replays |-> <<>>, ops |-> <<>>,
   uploads |-> <<>>, opened |-> <<>>, blobs |-> {}, manifests |-> {}, ledgers |-> <<>>]

\* How often a key, or an upload owner, has been used so far.
Count(f, x) == IF x \in DOMAIN f THEN f[x] ELSE 0

----------------------------------------------------------------------------
\* Relations.  An instance in a spec is [ptr, decl, kind, name]: the concrete
\* pointer, the declared one it comes from and the target it names.  A stored
\* relation adds the uid and the FormRef of the target it resolved to.

RelationTargetUID(rels, ptr) ==
  LET i == SelectInSeq(rels, LAMBDA r : r.ptr = ptr)
  IN  IF i = 0 THEN NoUid ELSE rels[i].uid

RelationsForDeclaration(rels, decl) == SelectSeq(rels, LAMBDA r : r.decl = decl)

TargetKey(scope, r) == ResourceKey(scope, r.kind, r.name)

\* The target still is the incarnation the relation pins ...
Resolves(h, scope, r) ==
  TargetKey(scope, r) \in Live(h) /\ h.res[TargetKey(scope, r)].uid = r.uid

\* ... under the contract it was pinned under.
PinnedLive(h, scope, r) == Resolves(h, scope, r) /\ h.res[TargetKey(scope, r)].ref = r.ref

\* The target of a relation, NoKey when it is no longer the pinned one.
RelationTargetResource(h, scope, rels, ptr) ==
  LET i == SelectInSeq(rels, LAMBDA r : r.ptr = ptr /\ PinnedLive(h, scope, r))
  IN  IF i = 0 THEN NoKey ELSE TargetKey(scope, rels[i])

\* A target that exists must have been applied under a Form the declaration
\* accepts: verifyBindingContract and verifyTargetContract, which read the two
\* installed Forms only, are the set Forms[ref].targets[decl].  A binding whose
\* contract the Host has not installed can be verified of no target.
InstanceRefusal(h, ref, scope, r) ==
  CASE TargetKey(scope, r) \notin Live(h) -> "resource_not_found"
    [] TargetKey(scope, r) \in Live(h) ->
         IF r.decl \in Forms[ref].uninstalled THEN "unsupported_capability"
         ELSE IF h.res[TargetKey(scope, r)].ref \in Forms[ref].targets[r.decl]
           THEN OK ELSE "invalid_argument"

ResolveRefusal(h, ref, scope, spec) ==
  FirstRefusal([i \in DOMAIN spec.refs |-> InstanceRefusal(h, ref, scope, spec.refs[i])])

ResolveRelations(h, scope, spec) ==
  [i \in DOMAIN spec.refs |->
     LET r == spec.refs[i]
         t == h.res[TargetKey(scope, r)]
     IN  [ptr |-> r.ptr, decl |-> r.decl, kind |-> r.kind, name |-> r.name,
          uid |-> t.uid, ref |-> t.ref]]

\* What relationDrift reports of the first relation whose target is not the
\* one it was bound to; <<>> when there is none.
NoDrift == <<>>

DriftOf(h, r, k) ==
  IF k \notin Live(h) THEN <<"DependencyMissing", r>>
  ELSE <<"ExternalChange", r, h.res[k].uid, h.res[k].ref>>

RelationDrift(h, key) ==
  LET scope   == ScopeOf(key)
      broken  == SelectSeq(h.res[key].rels, LAMBDA r : ~PinnedLive(h, scope, r))
      First(rs) == IF rs = <<>> THEN NoDrift ELSE DriftOf(h, rs[1], TargetKey(scope, rs[1]))
  IN  First(broken)

\* An accepted delete that has not finished yet targets this resource.
DeletionPending(h, key) ==
  \E i \in DOMAIN h.ops : ~h.ops[i].done /\ h.ops[i].deleteTarget = key

----------------------------------------------------------------------------
\* Artifact manifests: [kind, main, modules, files], where a module or a file
\* is an entry [path, formed, media, maps, size, digest]: formed says that its
\* path and digest are well spelt, maps is the module a source map is about.

MaximumBundleBytes == 10485760
MaximumBundleFiles == 16384
MaximumWorkerBundleModules == 4096
MaximumArtifactBytes == 268435456

SourceMap == "application/source-map+json"
SQL == "application/sql"
ModuleMediaTypes ==
  {"application/javascript+module", "application/octet-stream", "application/wasm", "text/plain",
   SourceMap}

Entries(m) == m.modules \o m.files
BlobDigests(m) == {Entries(m)[i].digest : i \in DOMAIN Entries(m)}
Paths(entries) == {entries[i].path : i \in DOMAIN entries}

\* Per kind: a worker bundle is modules with a main one, the others files.
ManifestShape(m) ==
  CASE m.kind = "WorkerBundle" -> m.main # "" /\ m.modules # <<>> /\ m.files = <<>>
    [] m.kind \in {"StaticAssetBundle", "MigrationBundle"} ->
         m.files # <<>> /\ m.main = "" /\ m.modules = <<>>
    [] OTHER -> FALSE

ModuleValid(m, e) ==
  /\ e.media \in ModuleMediaTypes
  /\ e.media = SourceMap => e.maps \in Paths(m.modules)

\* bare: a normalized media type without parameters.
FileValid(m, e) == (m.kind = "MigrationBundle" => e.media = SQL) /\ (m.kind = "StaticAssetBundle" => e.bare)

ValidateArtifactManifest(m) ==
  LET es == Entries(m)
  IN  /\ ManifestShape(m)
      /\ Len(m.modules) <= MaximumWorkerBundleModules /\ Len(m.files) <= MaximumBundleFiles
      /\ \A i \in DOMAIN es : es[i].formed /\ es[i].size \in 0..MaximumArtifactBytes
      /\ Cardinality(Paths(es)) = Len(es)
      /\ FoldSeq(LAMBDA e, n : e.size + n, 0, es) <= MaximumBundleBytes
      /\ \A i \in DOMAIN m.modules : ModuleValid(m, m.modules[i])
      /\ \A i \in DOMAIN m.files : FileValid(m, m.files[i])
      /\ m.kind = "WorkerBundle" =>
           \E i \in DOMAIN m.modules : m.modules[i].path = m.main /\ m.modules[i].media # SourceMap

\* What the rules read of a committed manifest.
MainModule(m) == m.modules[SelectInSeq(m.modules, LAMBDA e : e.path = m.main)].digest
HasIndex(m) == "index.html" \in Paths(m.files)
MigrationFiles(m) == [i \in DOMAIN m.files |-> <<m.files[i].path, m.files[i].digest>>]

\* The manifest an artifact-backed spec names, resolved for one tenant and
\* validated again.
ManifestRefusal(h, tenant, digest, kind) ==
  CASE digest \notin DOMAIN Manifests -> "artifact_invalid"
    [] digest \in DOMAIN Manifests ->
         IF <<tenant, digest>> \notin h.manifests THEN "artifact_missing"
         ELSE IF Manifests[digest].kind # kind \/ ~ValidateArtifactManifest(Manifests[digest])
           THEN "artifact_invalid" ELSE OK
=============================================================================
