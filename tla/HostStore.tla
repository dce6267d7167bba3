------------------------------ MODULE HostStore ------------------------------
(***************************************************************************)
(* How the reference Host changes its store: the next incarnation or       *)
(* version of a resource, its relations and their reverse index, and the   *)
(* derived conditions every stored resource is served with                 *)
(* (reference_host.go, relations.go, derived_rendering.go).                *)
(*                                                                         *)
(* A stored resource is a record: ref, uid, gen, rev, spec, rels, nativeId *)
(* ("" until adopted), imported, touches (the status touches an observe    *)
(* can be told to make) and derived, the conditions it was last served     *)
(* with.                                                                   *)
(***************************************************************************)
EXTENDS HostRules

\* The Ready condition: <<"Available">>, or the first reason it is not.
Unless(rule, reason, rest) == IF reason = Available THEN rest ELSE <<rule, reason>>

DerivedConditions(h, key) ==
  Unless("drift", RelationDrift(h, key),
  Unless("ledger", SqliteMigrationApplicationUnavailable(h, key),
  Unless("service", WorkerServiceUnavailable(h, key),
  Unless("class", ClassHolderUnavailable(h, key), <<"Available">>))))

\* Mutant: what is rendered anew keeps its revision.
MutAdvanceQuietly(h, scope, mutated) ==
  [h EXCEPT !.res = [k \in DOMAIN @ |->
     IF k \in Scoped(h, scope) THEN [@[k] EXCEPT !.derived = DerivedConditions(h, k)] ELSE @[k]]]

\* Mutant: only the mutated resource is rendered again.
MutAdvanceDerivedRevisions(h, scope, mutated) == h

\* Every other resource of the scope whose conditions a mutation changed.
Rendered(r, now) == IF now = r.derived THEN r ELSE [r EXCEPT !.derived = now, !.rev = @ + 1]

AdvanceDerivedRevisions(h, scope, mutated) ==
  [h EXCEPT !.res = [k \in Scoped(h, scope) \ {mutated} |-> Rendered(@[k], DerivedConditions(h, k))] @@ @]

----------------------------------------------------------------------------
Targets(rels) == {rels[i].uid : i \in DOMAIN rels}

IndexRelations(holders, key, rels) == holders \cup {<<u, key>> : u \in Targets(rels)}

\* Mutant: only the first relation is taken out of the index.
MutUnindexRelations(holders, key, rels) == holders \ {<<rels[i].uid, key>> : i \in DOMAIN rels \cap {1}}

UnindexRelations(holders, key, rels) == holders \ {<<u, key>> : u \in Targets(rels)}

\* What a create or an update makes of a spec; gen and rev move only when the
\* spec does.
NextResource(h, key, ref, spec, rels, nativeId, imported) ==
  LET old     == h.res[key]
      created == [ref |-> ref, uid |-> <<key, Count(h.born, key) + 1>>, gen |-> 1, rev |-> 1,
                  spec |-> spec, rels |-> rels, nativeId |-> nativeId, imported |-> imported,
                  touches |-> 0, derived |-> <<>>]
      step    == IF spec # old.spec THEN 1 ELSE 0
  IN  IF key \notin Live(h) THEN created
      ELSE [old EXCEPT !.spec = spec, !.gen = @ + step, !.rev = @ + step,
                       !.nativeId = IF nativeId = "" THEN @ ELSE nativeId]

\* The relations of this request replace the old pins; new pins under an
\* unmoved generation and revision are a new revision.
RepinRelations(h, key, next, rels) ==
  LET old   == h.res[key]
      moved == key \in Live(h) /\ old.rels # rels /\ next.gen = old.gen /\ next.rev = old.rev
  IN  [next EXCEPT !.rels = rels, !.rev = IF moved THEN @ + 1 ELSE @]

\* The conditions of what was just stored, then those of everything else.
Condition(h, key, before, unmoved, now) ==
  [h EXCEPT !.res[key].derived = now, !.res[key].rev = IF now # before /\ unmoved THEN @ + 1 ELSE @]
Rerender(h, key, before, unmoved) ==
  AdvanceDerivedRevisions(Condition(h, key, before, unmoved, DerivedConditions(h, key)), ScopeOf(key), key)

StoreResource(h, key, next) ==
  LET old     == h.res[key]
      had     == key \in Live(h)
      freed   == IF had THEN UnindexRelations(h.holders, key, old.rels) ELSE h.holders
      stored  == [h EXCEPT !.res = (key :> next) @@ @,
                           !.holders = IndexRelations(freed, key, next.rels),
                           !.born = IF had THEN @ ELSE (key :> (Count(@, key) + 1)) @@ @]
      unmoved == had /\ next.gen = old.gen /\ next.rev = old.rev
  IN  Rerender(stored, key, next.derived, unmoved)

RemoveResource(h, key) ==
  LET gone == [h EXCEPT !.res = [k \in DOMAIN @ \ {key} |-> @[k]],
                        !.holders = UnindexRelations(@, key, h.res[key].rels)]
  IN  IF key \in Live(h) THEN AdvanceDerivedRevisions(gone, ScopeOf(key), key) ELSE h

\* Mutant: only the dependents of a deployment are asked for.
MutDependencyInUse(h, key) == IF DeploymentDeleteBlocked(h, key) THEN "dependency_in_use" ELSE OK

\* A deployment with dependents, or a resource another one points at, stays.
DependencyInUse(h, key) ==
  IF DeploymentDeleteBlocked(h, key) \/ \E p \in h.holders : p[1] = h.res[key].uid /\ p[2] # key
    THEN "dependency_in_use" ELSE OK
=============================================================================
