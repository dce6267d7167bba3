----------------------------- MODULE HostWorkers -----------------------------
(***************************************************************************)
(* The Worker aggregate of the reference Host (worker_aggregate.go): which *)
(* deployment serves a worker, who depends on it, what a deployment, a     *)
(* version, an attachment or a class holder must satisfy before it is      *)
(* stored, and why a worker or a class holder is not Ready.                *)
(*                                                                         *)
(* Every rule is about one worker INCARNATION, the uid the `/worker`       *)
(* relation pins, inside one scope.  In these operators scope is the       *)
(* caller's, w a worker uid, and rels the relations this very request      *)
(* resolved.                                                               *)
(***************************************************************************)
EXTENDS HostModel

WorkerKind == "ModuleWorker"
VersionKind == "WorkerVersion"
DeploymentKind == "WorkerDeployment"
ClassHolderKinds == {"DurableWorkflow", "ActorNamespace"}
FetchHandler == "fetch"

WorkerPtr == "/worker"
BundlePtr == "/bundle"
VersionsDecl == "/versions/*/workerVersion"
ServiceDecl == "/serviceBindings/*/resource"

WorkerOf(h, key) == RelationTargetUID(h.res[key].rels, WorkerPtr)

----------------------------------------------------------------------------
\* What serves a worker

ActiveDeployments(h, scope, w) ==
  {k \in Scoped(h, scope) : KindOf(k) = DeploymentKind /\ w # NoUid /\ WorkerOf(h, k) = w}

\* The code takes the first one in key order; there is at most one.
ActiveDeployment(h, scope, w) ==
  IF ActiveDeployments(h, scope, w) = {} THEN NoKey
  ELSE CHOOSE k \in ActiveDeployments(h, scope, w) : TRUE

WeightedVersions(h, scope, rels) ==
  LET live == SelectSeq(rels, LAMBDA r : r.decl = VersionsDecl /\ Resolves(h, scope, r))
  IN  [i \in DOMAIN live |-> TargetKey(scope, live[i])]

DeclaresHandler(h, version, handler) == handler \in h.res[version].spec.handlers

\* Whether every weighted version does, given those that do not.  The answer
\* carries the first of them, which the Host names in its message.
Serves == <<"serves">>

Served(versions, offenders) ==
  IF versions = <<>> THEN <<"none">>
  ELSE IF offenders = <<>> THEN Serves ELSE <<"offender", NameOf(offenders[1])>>

ServesHandler(h, versions, handler) ==
  Served(versions, SelectSeq(versions, LAMBDA v : ~DeclaresHandler(h, v, handler)))

\* The main module of the bundle a version runs, when the Host can tell.
BundleMainModule(h, scope, rels) ==
  LET bundles == SelectSeq(rels, LAMBDA r : r.ptr = BundlePtr /\ Resolves(h, scope, r))
      Digest(r) == h.res[TargetKey(scope, r)].spec.manifest
      Known(d) == IF d \in {m[2] : m \in h.manifests} THEN <<MainModule(Manifests[d])>> ELSE <<>>
  IN  IF bundles = <<>> THEN <<>> ELSE Known(Digest(bundles[1]))

FactsOf(module, facts) ==
  IF module # <<>> /\ module[1] \in DOMAIN facts THEN <<facts[module[1]]>> ELSE <<>>

KnownExports(h, scope, rels, facts) == FactsOf(BundleMainModule(h, scope, rels), facts)

\* Every weighted version runs a module that exports the class; one whose
\* module the Host does not know counts as exporting it.
Lacks(known, class) == known # <<>> /\ class \notin known[1]

VersionsExportClass(h, scope, versions, class) ==
  Served(versions, SelectSeq(versions,
    LAMBDA v : Lacks(KnownExports(h, scope, h.res[v].rels, ModuleClasses), class)))

----------------------------------------------------------------------------
\* Who depends on it: attachments, class holders, and the versions that bind
\* the worker as a service.  A class holder names a class and no handler.

Attachments(h, scope, w) ==
  {k \in Scoped(h, scope) : Forms[h.res[k].ref].entry # "" /\ WorkerOf(h, k) = w}

ClassHolders(h, scope, w) ==
  {k \in Scoped(h, scope) : KindOf(k) \in ClassHolderKinds /\ WorkerOf(h, k) = w}

InboundBindings(h, scope, w) ==
  {k \in Scoped(h, scope) :
     /\ KindOf(k) = VersionKind
     /\ \E i \in DOMAIN h.res[k].rels :
          h.res[k].rels[i].decl = ServiceDecl /\ h.res[k].rels[i].uid = w}

WorkerDependents(h, scope, w) ==
  {[key |-> k, handler |-> Forms[h.res[k].ref].entry] : k \in Attachments(h, scope, w)}
    \cup {[key |-> k, handler |-> ""] : k \in ClassHolders(h, scope, w)}
    \cup {[key |-> k, handler |-> FetchHandler] : k \in InboundBindings(h, scope, w)}

----------------------------------------------------------------------------
\* What is refused before anything is stored

Unserved(served) == IF served THEN OK ELSE "unsupported_capability"

\* Deployments are looked at only once the worker is known.
DeploymentServes(h, scope, d, handler) ==
  d # NoKey /\ ServesHandler(h, WeightedVersions(h, scope, h.res[d].rels), handler) = Serves

RequireServingDeployment(h, scope, w, handler) ==
  IF w = NoUid THEN "invalid_argument"
  ELSE Unserved(DeploymentServes(h, scope, ActiveDeployment(h, scope, w), handler))

DeploymentExports(h, scope, d, class) ==
  d # NoKey => VersionsExportClass(h, scope, WeightedVersions(h, scope, h.res[d].rels), class) = Serves

ValidateWorkerClassHolder(h, scope, spec, rels) ==
  LET w == RelationTargetUID(rels, WorkerPtr)
  IN  IF w = NoUid THEN "invalid_argument"
      ELSE Unserved(DeploymentExports(h, scope, ActiveDeployment(h, scope, w), spec.class))

AllKnown(handlers, known) == known = <<>> \/ handlers \subseteq known[1]

ExportedHandlerViolation(h, scope, spec, rels) ==
  IF AllKnown(spec.handlers, KnownExports(h, scope, rels, ModuleExports)) THEN OK ELSE "invalid_argument"

ValidateInboundServiceBindings(h, scope, rels) ==
  FirstRefusal([i \in DOMAIN rels |->
    IF rels[i].decl = ServiceDecl THEN RequireServingDeployment(h, scope, rels[i].uid, FetchHandler) ELSE OK])

VersionUnavailable(h, version) ==
  RelationDrift(h, version) # NoDrift \/ DeletionPending(h, version)

\* Deployment integrity, then the dependents of the worker it points at.
DeploymentIntegrity(h, scope, w, weighted) ==
  /\ w # NoUid
  /\ weighted # <<>>
  /\ \A i \in DOMAIN weighted :
       LET v == TargetKey(scope, weighted[i])
       IN  /\ Resolves(h, scope, weighted[i])
           /\ \A j \in 1..(i - 1) : weighted[j].uid # weighted[i].uid
           /\ WorkerOf(h, v) = w
           /\ ~VersionUnavailable(h, v)

\* Mutant: the dependents of the worker are not asked.
MutValidateWorkerDeployment(h, scope, rels) ==
  IF DeploymentIntegrity(h, scope, RelationTargetUID(rels, WorkerPtr), RelationsForDeclaration(rels, VersionsDecl))
    THEN OK ELSE "invalid_argument"

ValidateWorkerDeployment(h, scope, rels) ==
  LET w        == RelationTargetUID(rels, WorkerPtr)
      versions == WeightedVersions(h, scope, rels)
  IN  IF ~DeploymentIntegrity(h, scope, w, RelationsForDeclaration(rels, VersionsDecl))
        THEN "invalid_argument"
      ELSE IF \E d \in WorkerDependents(h, scope, w) : ServesHandler(h, versions, d.handler) # Serves
        THEN "unsupported_capability"
      ELSE OK

\* A second endpoint of one worker.
ValidateSingleWorkerEndpoint(h, key, rels) ==
  LET w == RelationTargetUID(rels, WorkerPtr)
  IN  IF w = NoUid \/ \E k \in Scoped(h, ScopeOf(key)) \ {key} :
                         KindOf(k) = KindOf(key) /\ WorkerOf(h, k) = w
        THEN "invalid_argument" ELSE OK

\* A deployment is not removed under its dependents.
DeploymentDeleteBlocked(h, key) ==
  KindOf(key) = DeploymentKind /\ WorkerDependents(h, ScopeOf(key), WorkerOf(h, key)) # {}

----------------------------------------------------------------------------
\* Readiness: <<>> when available, else the reason and what its text names.

Available == <<>>

\* d is the deployment of the worker, served what it makes of the demand.
Readiness(d, served) ==
  IF d = NoKey THEN <<"Provisioning">>
  ELSE IF served = Serves THEN Available
  ELSE <<"UnsupportedCapability", NameOf(d), served>>

FetchReadiness(h, scope, d) ==
  Readiness(d, ServesHandler(h, WeightedVersions(h, scope, h.res[d].rels), FetchHandler))
ClassReadiness(h, scope, d, class) ==
  Readiness(d, VersionsExportClass(h, scope, WeightedVersions(h, scope, h.res[d].rels), class))

WorkerServiceUnavailable(h, key) ==
  IF KindOf(key) # WorkerKind THEN Available
  ELSE FetchReadiness(h, ScopeOf(key), ActiveDeployment(h, ScopeOf(key), h.res[key].uid))

ClassHolderUnavailable(h, key) ==
  IF KindOf(key) \notin ClassHolderKinds THEN Available
  ELSE ClassReadiness(h, ScopeOf(key), ActiveDeployment(h, ScopeOf(key), WorkerOf(h, key)), h.res[key].spec.class)
=============================================================================
