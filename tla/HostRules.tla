------------------------------ MODULE HostRules ------------------------------
(***************************************************************************)
(* What the reference Host demands of a desired spec before it stores it:  *)
(* exclusive holds (exclusive.go), claimed values, worker assets, SQLite   *)
(* migrations and dead-letter cycles (edge_semantics.go), the constraints  *)
(* over resolved UIDs (resolved_uid_constraints.go), the Worker aggregate  *)
(* (HostWorkers), and validateDesiredSemantics, which asks all of them in  *)
(* one fixed order (reference_host.go).                                    *)
(*                                                                         *)
(* An installed Form is a record:                                          *)
(*   kind, role     its kind, and "identity", "revision", ...              *)
(*   update         it declares the update capability                      *)
(*   entry          the handler its worker must serve, "" for none         *)
(*   artifact       the manifest kind its spec names, "" for none          *)
(*   claims         the spec carries a value claimed per tenant            *)
(*   targets        the FormRefs each declared relation accepts            *)
(*   exclusive      the declared relations that are exclusive holds, each  *)
(*                  "alone" or "by_class" (keyed by the class it names)    *)
(*   constraints    the declared constraints over resolved UIDs            *)
(* A spec is a record of refs, handlers, class, claim, manifest and spa    *)
(* (notFoundHandling = single_page_application), a value the rules do not  *)
(* read, and verdict: what the rules that read the spec and its Form alone *)
(* say of it.  "diagnosed" is a spec the desired schema, a structural      *)
(* constraint, the handler ABI or the cron grammar rejects; "unsatisfied"  *)
(* one that requires a standard service this Host lacks; "refused_early"   *)
(* one that passes those and breaks a summed list or supplies a            *)
(* host-assigned output; "refused" one that breaks only the environment    *)
(* namespace, which a prepare does not ask about; "ok" any other.          *)
(***************************************************************************)
EXTENDS HostWorkers

AssetsPtr == "/assets/bundle"
DatabasePtr == "/database"
MigrationSetPtr == "/migrationSet"
QueuePtr == "/queue"
DeadLetterPtr == "/deadLetterQueue"

MaxTraversal == 256     \* maxResolvedUIDConstraintTraversal

----------------------------------------------------------------------------
\* Exclusive holds: at most one live resource of this exact Form per target
\* (and key) in the scope.

ExclusiveKey(hold, spec) == IF hold = "by_class" THEN spec.class ELSE ""

ExclusiveHolders(h, key, ref, decl, hold, uid, spec) ==
  {k \in Scoped(h, ScopeOf(key)) \ {key} :
     /\ h.res[k].ref = ref
     /\ RelationTargetUID(h.res[k].rels, decl) = uid
     /\ ExclusiveKey(hold, h.res[k].spec) = ExclusiveKey(hold, spec)}

ValidateExclusiveHolds(h, key, ref, spec, rels) ==
  LET holds == Forms[ref].exclusive
      Taken(decl) == LET uid == RelationTargetUID(rels, decl)
                     IN  /\ uid # NoUid
                         /\ ExclusiveHolders(h, key, ref, decl, holds[decl], uid, spec) # {}
  IN  IF \E decl \in DOMAIN holds : Taken(decl) THEN "invalid_argument" ELSE OK

----------------------------------------------------------------------------
\* Claimed values: one holder per tenant, whatever its kind or space.

ClaimHolders(h, key, claim) ==
  {k \in OfTenant(h, TenantOf(key)) \ {key} :
     Forms[h.res[k].ref].claims /\ h.res[k].spec.claim = claim}

ValidateClaimedValues(h, key, ref, spec) ==
  IF Forms[ref].claims /\ ClaimHolders(h, key, spec.claim) # {} THEN "invalid_argument" ELSE OK

----------------------------------------------------------------------------
\* Artifact-backed specs and the assets of a worker version

RequireReferencedArtifact(h, tenant, ref, spec) ==
  IF Forms[ref].artifact = "" THEN OK
  ELSE ManifestRefusal(h, tenant, spec.manifest, Forms[ref].artifact)

ValidateWorkerVersionAssets(h, scope, ref, spec, rels) ==
  LET bundle   == RelationTargetResource(h, scope, rels, AssetsPtr)
      digest   == h.res[bundle].spec.manifest
      needsIndex == IF spec.spa /\ ~HasIndex(Manifests[digest]) THEN "invalid_argument" ELSE OK
  IN  IF Forms[ref].kind # VersionKind \/ RelationTargetUID(rels, AssetsPtr) = NoUid THEN OK
      ELSE IF bundle = NoKey THEN "resource_not_found"
      ELSE ManifestRefusal(h, scope[1], digest, "StaticAssetBundle") ?? needsIndex

----------------------------------------------------------------------------
\* SQLite migrations: the set may only extend what the database has applied.

MigrationKind == "SQLiteMigrationApplication"

Ledger(h, uid) == IF uid \in DOMAIN h.ledgers THEN h.ledgers[uid] ELSE <<>>

MigrationDatabase(h, scope, rels) == RelationTargetResource(h, scope, rels, DatabasePtr)
MigrationSet(h, scope, rels) == RelationTargetResource(h, scope, rels, MigrationSetPtr)

\* Mutant: the set need not extend what was applied.
MutSqliteMigrationPlan(h, scope, ref, rels) ==
  IF Forms[ref].kind # MigrationKind THEN OK
  ELSE IF MigrationDatabase(h, scope, rels) = NoKey \/ MigrationSet(h, scope, rels) = NoKey
    THEN "resource_not_found" ELSE OK

SqliteMigrationPlan(h, scope, ref, rels) ==
  LET db     == MigrationDatabase(h, scope, rels)
      set    == MigrationSet(h, scope, rels)
      digest == h.res[set].spec.manifest
      extends == IF IsPrefix(Ledger(h, h.res[db].uid), MigrationFiles(Manifests[digest]))
                   THEN OK ELSE "migration_required"
  IN  IF Forms[ref].kind # MigrationKind THEN OK
      ELSE IF db = NoKey \/ set = NoKey THEN "resource_not_found"
      ELSE ManifestRefusal(h, scope[1], digest, "MigrationBundle") ?? extends

\* Runs the suffix the database has not applied yet.
ApplySqliteMigrationSuffix(h, scope, ref, rels) ==
  LET db    == MigrationDatabase(h, scope, rels)
      files == MigrationFiles(Manifests[h.res[MigrationSet(h, scope, rels)].spec.manifest])
      uid   == h.res[db].uid
  IN  IF Forms[ref].kind # MigrationKind THEN h
      ELSE [h EXCEPT !.ledgers = (uid :> (Ledger(h, uid)
              \o SubSeq(files, Len(Ledger(h, uid)) + 1, Len(files)))) @@ @]

SqliteMigrationApplicationUnavailable(h, key) ==
  LET scope  == ScopeOf(key)
      rels   == h.res[key].rels
      db     == MigrationDatabase(h, scope, rels)
      set    == MigrationSet(h, scope, rels)
      digest == h.res[set].spec.manifest
      ledger == Ledger(h, h.res[db].uid)
  IN  IF KindOf(key) # MigrationKind THEN Available
      ELSE IF db = NoKey \/ set = NoKey THEN <<"DependencyMissing", "target">>
      ELSE IF <<TenantOf(key), digest>> \notin h.manifests THEN <<"DependencyMissing", "manifest">>
      ELSE IF ledger = MigrationFiles(Manifests[digest]) THEN Available
      ELSE <<"Converging", Len(MigrationFiles(Manifests[digest])), Len(ledger)>>

----------------------------------------------------------------------------
\* Dead-letter queues of Edge queue consumers.  The successor of a queue is
\* the dead-letter queue of the consumer that drains it, this one first.

ConsumerKind == "QueueConsumer"

DeadLetterEdges(h, key) ==
  {<<RelationTargetUID(h.res[k].rels, QueuePtr), RelationTargetUID(h.res[k].rels, DeadLetterPtr)>> :
     k \in {c \in OfTenant(h, TenantOf(key)) \ {key} : KindOf(c) = ConsumerKind}}

\* The queues reached from a queue in at most n hops over the edges, none of
\* which leaves origin: its successor is this consumer's own.
DeadLetterReach(edges, from, n) ==
  LET reach[i \in 0..n] ==
        IF i = 0 THEN {from}
        ELSE reach[i - 1] \cup {e[2] : e \in {x \in edges : x[1] \in reach[i - 1]}}
  IN  reach[n]

ValidateDeadLetterAcyclic(h, key, rels) ==
  LET origin == RelationTargetUID(rels, QueuePtr)
      dest   == RelationTargetUID(rels, DeadLetterPtr)
      edges  == {e \in DeadLetterEdges(h, key) : e[1] # NoUid /\ e[2] # NoUid /\ e[1] # origin}
  IN  IF dest # NoUid /\ origin \in DeadLetterReach(edges, dest, Cardinality(edges))
        THEN "invalid_argument" ELSE OK
----------------------------------------------------------------------------
\* Constraints over resolved UIDs, whatever the family: <<kind, decl, ...>>.

\* The one relation a declaration resolved to: <<>> when absent, and a pair of
\* them when there is more than one, which every constraint refuses.
Operand(rels, decl) == RelationsForDeclaration(rels, decl)
Absent(rels, decl) == Operand(rels, decl) = <<>>
One(rels, decl) == Len(Operand(rels, decl)) = 1
OperandUID(rels, decl) == Operand(rels, decl)[1].uid

DistinctPair(c, rels) ==
  /\ \A i \in {2, 3} : Absent(rels, c[i]) \/ One(rels, c[i])
  /\ (One(rels, c[2]) /\ One(rels, c[3])) => OperandUID(rels, c[2]) # OperandUID(rels, c[3])

\* Mutant: a pair is compared with the others when it is created only.
MutUniquePair(h, key, ref, c, rels) ==
  LET Pair(rs) == <<OperandUID(rs, c[2]), OperandUID(rs, c[3])>>
  IN  key \in Live(h) \/ \A k \in OfTenant(h, TenantOf(key)) \ {key} :
        h.res[k].ref = ref => Pair(h.res[k].rels) # Pair(rels)

UniquePair(h, key, ref, c, rels) ==
  LET Pair(rs) == <<OperandUID(rs, c[2]), OperandUID(rs, c[3])>>
      Readable(rs) == One(rs, c[2]) /\ One(rs, c[3])
      others == {k \in OfTenant(h, TenantOf(key)) \ {key} : h.res[k].ref = ref}
  IN  /\ Readable(rels)
      /\ \A k \in others : Readable(h.res[k].rels) /\ Pair(h.res[k].rels) # Pair(rels)

\* The edges met from this one on, following the declaration through the
\* resources of this exact Form: the walk ends at an absent edge, at a target
\* of another Form, or at one that is no longer what the edge pinned.
AcyclicWalk(h, scope, ref, decl, edge, n) ==
  LET walk[i \in 1..n] ==
        IF i = 1 THEN edge
        ELSE IF walk[i - 1] = <<>> THEN <<>>
        ELSE LET e == walk[i - 1][1]
             IN  IF PinnedLive(h, scope, e) /\ e.ref = ref
                   THEN Operand(h.res[TargetKey(scope, e)].rels, decl) ELSE <<>>
  IN  walk

\* Mutant: only an edge back to the source itself is a cycle of length one.
MutAcyclic(h, key, ref, c, rels) ==
  LET e == Operand(rels, c[2])
  IN  e = <<>> \/ (key \in Live(h) => e[1].uid # h.res[key].uid)

\* No edge of the walk returns to the source or to a target met before, and
\* every one is still live; n is past the last resource the walk can meet.
NoneRepeats(h, scope, walk, n, source) ==
  \A i \in 1..n :
    walk[i] # <<>> =>
      /\ i < n
      /\ Len(walk[i]) = 1
      /\ walk[i][1].uid \notin source \cup {walk[j][1].uid : j \in 1..(i - 1)}
      /\ PinnedLive(h, scope, walk[i][1])

Acyclic(h, key, ref, c, rels) ==
  LET n == Min({MaxTraversal + 1, Cardinality(Live(h)) + 2})
  IN  NoneRepeats(h, ScopeOf(key), AcyclicWalk(h, ScopeOf(key), ref, c[2], Operand(rels, c[2]), n), n,
                  {h.res[k].uid : k \in {x \in {key} : ResourceUnderExactRef(h, x, ref)}})

\* Mutant: the members must be live, and whose they are is not compared.
MutSameResolvedTarget(h, scope, c, rels) ==
  One(rels, c[2]) /\ \A i \in DOMAIN Operand(rels, c[3]) : PinnedLive(h, scope, Operand(rels, c[3])[i])

SameResolvedTarget(h, scope, c, rels) ==
  /\ One(rels, c[2])
  /\ PinnedLive(h, scope, Operand(rels, c[2])[1])
  /\ \A i \in DOMAIN Operand(rels, c[3]) :
       LET m  == Operand(rels, c[3])[i]
           rs == h.res[TargetKey(scope, m)].rels
       IN  /\ PinnedLive(h, scope, m)
           /\ c[4] \in DOMAIN Forms[m.ref].targets
           /\ One(rs, c[4])
           /\ PinnedLive(h, scope, Operand(rs, c[4])[1])
           /\ OperandUID(rs, c[4]) = OperandUID(rels, c[2])

ConstraintHolds(h, key, ref, c, rels) ==
  CASE c[1] = "acyclic" -> Acyclic(h, key, ref, c, rels)
    [] c[1] = "distinctPair" -> DistinctPair(c, rels)
    [] c[1] = "uniquePair" -> UniquePair(h, key, ref, c, rels)
    [] c[1] = "sameResolvedTarget" -> SameResolvedTarget(h, ScopeOf(key), c, rels)

ValidateResolvedUIDConstraints(h, key, ref, rels) ==
  IF \A c \in Forms[ref].constraints : ConstraintHolds(h, key, ref, c, rels)
    THEN OK ELSE "invalid_argument"

\* The same rules on a request that only asks: a self-edge is refused by name
\* before its target is looked up.
SelfEdge(key, ref, spec) ==
  \E c \in Forms[ref].constraints, i \in DOMAIN spec.refs :
    /\ c[1] = "acyclic"
    /\ spec.refs[i].decl = c[2]
    /\ spec.refs[i].kind = Forms[ref].kind
    /\ spec.refs[i].name = NameOf(key)

ValidateResolvedUIDConstraintRequest(h, key, ref, spec) ==
  LET scope == ScopeOf(key)
  IN  CASE Forms[ref].constraints = {} -> OK
        [] Forms[ref].constraints # {} ->
             IF SelfEdge(key, ref, spec) THEN "invalid_argument"
             ELSE ResolveRefusal(h, ref, scope, spec)
                    ?? ValidateResolvedUIDConstraints(h, key, ref, ResolveRelations(h, scope, spec))

----------------------------------------------------------------------------
\* The Worker aggregate, by kind

ServesEntry(h, scope, form, rels) ==
  RequireServingDeployment(h, scope, RelationTargetUID(rels, WorkerPtr), form.entry)

ValidateWorkerAggregate(h, key, ref, spec, rels) ==
  LET scope == ScopeOf(key)
      form  == Forms[ref]
  IN  CASE form.kind = DeploymentKind -> ValidateWorkerDeployment(h, scope, rels)
        [] form.kind = VersionKind ->
             ExportedHandlerViolation(h, scope, spec, rels)
               ?? ValidateInboundServiceBindings(h, scope, rels)
        [] form.kind \in ClassHolderKinds -> ValidateWorkerClassHolder(h, scope, spec, rels)
        [] form.kind = ConsumerKind ->
             ServesEntry(h, scope, form, rels) ?? ValidateDeadLetterAcyclic(h, key, rels)
        [] form.kind = "WorkerEndpoint" ->
             ServesEntry(h, scope, form, rels) ?? ValidateSingleWorkerEndpoint(h, key, rels)
        [] OTHER -> IF form.entry = "" THEN OK ELSE ServesEntry(h, scope, form, rels)

----------------------------------------------------------------------------
\* Everything, in the order of the code

\* The rules that read a spec and its Form alone: their outcome is the verdict.
Refusing(spec, verdict, code) == IF spec.verdict = verdict THEN code ELSE OK

ValidateStableStandardServiceSlots(spec) == Refusing(spec, "unsatisfied", "unsupported_capability")
ValidateStructuralConstraints(spec) == Refusing(spec, "diagnosed", "invalid_argument")
ValidateDeclaredTotals(spec) == Refusing(spec, "refused_early", "invalid_argument")
ValidateEnvironmentNamespace(spec) == Refusing(spec, "refused", "invalid_argument")
ValidateDeclaredHandlers(spec) == Refusing(spec, "diagnosed", "invalid_argument")

ValidateAdmissionConstraints(h, key, ref, spec) ==
  ValidateDeclaredTotals(spec)
    ?? (ValidateClaimedValues(h, key, ref, spec)
    ??  ValidateResolvedUIDConstraintRequest(h, key, ref, spec))

ValidateDesiredSemantics(h, key, ref, spec) ==
  LET scope == ScopeOf(key)
      rels  == ResolveRelations(h, scope, spec)
  IN  ValidateStableStandardServiceSlots(spec)
      ?? (ValidateStructuralConstraints(spec)
      ?? (ValidateDeclaredTotals(spec)
      ?? (ValidateClaimedValues(h, key, ref, spec)
      ?? (ValidateEnvironmentNamespace(spec)
      ?? (ValidateDeclaredHandlers(spec)
      ?? (ResolveRefusal(h, ref, scope, spec)
      ?? (ValidateResolvedUIDConstraints(h, key, ref, rels)
      ?? (RequireReferencedArtifact(h, scope[1], ref, spec)
      ?? (ValidateWorkerVersionAssets(h, scope, ref, spec, rels)
      ?? (ValidateExclusiveHolds(h, key, ref, spec, rels)
      ?? (SqliteMigrationPlan(h, scope, ref, rels)
      ??  ValidateWorkerAggregate(h, key, ref, spec, rels))))))))))))
=============================================================================
