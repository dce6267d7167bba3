---------------------------- MODULE ChecksSurface ----------------------------
(***************************************************************************)
(* The checks of the conformance suite on who may ask, on the closed       *)
(* taxonomies and on the reads that describe the installed Forms           *)
(* (runner_checks.go, runner_exact_ref_checks.go,                          *)
(* runner_operability_checks.go, runner_current_lane_checks.go).           *)
(***************************************************************************)
EXTENDS ConformanceCorpus

Unknown(d) == [d EXCEPT !.ref = "unknown"]
Listing(filter, forms) == Send("forms", KvProbe, OK, [filter |-> filter, is |-> [forms |-> forms]])
Listed(d) == Listing([space |-> "s", ref |-> d.ref], {d.ref})
Unlisted(d) == Listing([space |-> "s", ref |-> Unknown(d).ref], {})
Defined(d) == Send("definition", d, OK, [is |-> [form |-> d.ref]])
Undefined(d) == Send("definition", Unknown(d), "form_unknown", <<>>)
Supported(d) == Send("support", d, OK, [is |-> [form |-> d.ref]])

CheckErrorTaxonomy ==
  Script([i \in DOMAIN ErrorCodeOrder |->
            Send("forms", KvProbe, ErrorCodeOrder[i], [probe |-> ErrorCodeOrder[i]])])

\* No header and an unissued credential name the same nobody.
CheckUnauthenticatedRequestRefused ==
  LET probe == KvNamed("unauthenticated-probe")
      create == [fence |-> "create", review |-> "reviewed", key |-> "unauthenticated create"]
      Turned == Send("forms", As(probe, Nobody), "unauthenticated", <<>>)
                  \o Send("apply", As(probe, Nobody), "unauthenticated", create) \o Gone(probe)
  IN  Send("prepare", probe, OK, [note |-> "reviewed"])
        \o Turned \o Turned
        \o Listed(probe) \o Send("apply", probe, OK, create) \o Discard(probe)

CheckFormsAvailability == Listed(WorkerProbe) \o Unlisted(WorkerProbe)

CheckFormDefinitions ==
  FoldSet(LAMBDA ref, rest : Defined(Desired(ref, "", <<>>)) \o rest, <<>>, DOMAIN Forms)

CheckNamespacedGroupPathSegments ==
  LET second == KvOfSecondGroup("")
  IN  Read(KvProbe) \o Defined(KvProbe) \o Supported(KvProbe) \o Defined(second) \o Supported(second)
        \o Read(KvProbe)

CheckSpaceIDGrammar ==
  LET bad == InSpace(KvProbe, MalformedSpace)
  IN  Send("read", bad, "invalid_argument", <<>>) \o Send("validate", bad, "invalid_argument", <<>>)
        \o Read(KvProbe)

\* An unknown definition version and an unknown schema digest alike
CheckExactFormRefFailsClosedOnUnknownDefinition ==
  LET Closed == Unlisted(KvProbe) \o Undefined(KvProbe) \o Send("read", Unknown(KvProbe), "form_unknown", <<>>)
  IN  Read(KvProbe) \o Closed \o Closed \o Listed(KvProbe) \o Defined(KvProbe) \o Read(KvProbe)

CheckTwoDefinitionVersionsAnswerIndependently ==
  LET Described(d) == Listed(d) \o Defined(d) \o Supported(d)
  IN  Described(WorkerProbe) \o Described(WorkerUnderSecondDefinition(""))
        \o Unlisted(WorkerProbe) \o Undefined(WorkerProbe)

CheckSupportProfiles == Supported(VersionProbe)

CheckFormsRouteEnumerates ==
  LET kind == Forms[WorkerProbe.ref].kind
      OfKind == {r \in DOMAIN Forms : Forms[r].kind = kind}
      Malforming(filter) == Send("forms", KvProbe, "invalid_argument", [filter |-> filter])
  IN  Listing([space |-> "s"], DOMAIN Forms)
        \o Listing([space |-> "s", kind |-> kind], OfKind)
        \o Listing([space |-> "s", kind |-> kind, ref |-> WorkerProbe.ref], {WorkerProbe.ref})
        \o Listed(WorkerProbe) \o Unlisted(WorkerProbe)
        \o Malforming([space |-> "s", packageDigest |-> "any"])
        \o Malforming([space |-> "s", kind |-> Malformed]) \o Malforming([space |-> "s", ref |-> Malformed])
        \o Malforming([space |-> Malformed])

CheckAvailabilityTruthConditions ==
  Listed(KvProbe) \o Send("read", Unknown(KvProbe), "form_unknown", <<>>)

CheckStableStandardServiceSupportEnforced ==
  LET Satisfies(protocol, is) == Send("service", VersionProbe, OK, [protocol |-> protocol, is |-> [satisfiable |-> is]])
      Slot(x) == Named(VersionProbe, "stable-standard-service-" \o x)
      required == Judged(Slot("required-unknown"), "unsatisfied")
  IN  Satisfies("a supported protocol", TRUE) \o Satisfies("an unknown protocol", FALSE)
        \o Create(Slot("supported")) \o Discard(Slot("supported"))
        \o Send("prepare", required, "unsupported_capability", <<>>) \o Gone(required)
        \o Create(Slot("optional-unknown")) \o Discard(Slot("optional-unknown"))
=============================================================================
