----------------------------- MODULE HostSurface -----------------------------
(***************************************************************************)
(* What the reference Host answers before and beside the resource plane:   *)
(* who may ask, which Form a request names, and the reads that describe    *)
(* the installed Forms (ServeHTTP, exactPathQueryForm, resolveResourceWire,*)
(* handleFormsEnumerated, handleFormDefinition and routeSupport of         *)
(* reference_host.go).                                                     *)
(***************************************************************************)
EXTENDS HostArtifacts

Nobody == <<"", "">>
MalformedSpace == "/"
Malformed == "malformed"

HostRequestAuth(caller) == caller # Nobody
ValidSpaceID(space) == space # MalformedSpace

\* The taxonomy of the lane; a probe asks for the envelope of one of them.
ErrorCodeOrder ==
  <<"invalid_argument", "unauthenticated", "permission_denied", "form_unknown", "form_not_installed",
   "form_unavailable", "resource_not_found", "resource_busy", "import_conflict", "policy_denied",
   "backend_unavailable", "internal_error", "rate_limited", "deadline_exceeded", "operation_cancelled",
   "operation_not_found", "dependency_in_use", "artifact_missing", "artifact_invalid",
   "unsupported_capability", "migration_required", "uid_mismatch", "revision_conflict",
   "generation_conflict">>
ErrorCodes == {ErrorCodeOrder[i] : i \in DOMAIN ErrorCodeOrder}
Probes == {"", "async", "touch", "external"}

\* "" when the request reaches its route
ServeRefusal(caller, probe) ==
  IF ~HostRequestAuth(caller) THEN "unauthenticated"
  ELSE IF probe \in ErrorCodes THEN probe
  ELSE IF probe \notin Probes THEN "invalid_argument"
  ELSE ""

\* The Form of a request by path and query, and of one by its document
ExactPathQueryForm(q) ==
  IF ~ValidSpaceID(q.space) THEN "invalid_argument" ELSE IF q.ref \notin DOMAIN Forms THEN "form_unknown" ELSE ""
ResolveResourceWire(q) ==
  IF q.ref \notin DOMAIN Forms THEN "form_unknown" ELSE IF ~ValidSpaceID(q.space) THEN "invalid_argument" ELSE ""

\* A filter is a record of the query parameters given.
FilterKeys == {"space", "kind", "ref"}
WellFormed(filter) == \A k \in DOMAIN filter : k \in FilterKeys /\ filter[k] # Malformed
Matches(r, filter) ==
  \A k \in DOMAIN filter \ {"space"} : filter[k] = [kind |-> Forms[r].kind, ref |-> r][k]

HandleFormsEnumerated(filter) ==
  IF WellFormed(filter) THEN [code |-> OK, forms |-> {r \in DOMAIN Forms : Matches(r, filter)}]
  ELSE [code |-> "invalid_argument", forms |-> {}]

HandleFormDefinition(q) == LET code == ExactPathQueryForm(q) IN [code |-> IF code = "" THEN OK ELSE code, form |-> q.ref]

\* The profile of one line, and whether a protocol is satisfiable
Protocols == {"a supported protocol"}
FormSupport(ref) == [code |-> IF ref \in DOMAIN Forms THEN OK ELSE "form_unknown", form |-> ref]
HandleStandardServiceSupport(protocol) == [code |-> OK, satisfiable |-> protocol \in Protocols]
=============================================================================
