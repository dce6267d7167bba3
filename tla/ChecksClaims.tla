----------------------------- MODULE ChecksClaims -----------------------------
(***************************************************************************)
(* The checks of the conformance suite on what attachments claim: the      *)
(* hostname of a custom domain, the queue a consumer drains and where its  *)
(* dead letters go (runner_attachment_claim_checks.go,                     *)
(* runner_edge_semantics_checks.go).  They use the gate worker of          *)
(* CheckHandlerGatedAttachments.  All spellings of a hostname are the one  *)
(* claim it is stored as.                                                  *)
(***************************************************************************)
EXTENDS ConformanceCorpus

CustomDomainClaiming(name, hostname) == DomainOf(name, "gate-worker", hostname)
Draining(name, queue, dead) == QueueConsumerOf(name, "gate-worker", queue, <<dead>>)

\* A bundle, a worker, a version and a deployment to claim from
ClaimFixture(prefix) ==
  <<Named(BundleProbe, prefix \o "-bundle"), WorkerNamed(prefix \o "-worker"),
    WorkerVersionOfBundle(prefix \o "-version", prefix \o "-worker", prefix \o "-bundle", {"fetch"}),
    DeploymentOf(prefix \o "-deployment", prefix \o "-worker", <<prefix \o "-version">>)>>

ClaimFixtureElsewhere ==
  [i \in 1..4 |-> InSpace(ClaimFixture("claim-far")[i], "alt")]
ClaimFixtureOfBob ==
  [i \in 1..4 |-> As(ClaimFixture("claim-tenant")[i], Bob)]

CheckCronGrammarEnforced ==
  LET trigger  == CronOf("cron-grammar-trigger", "gate-worker")
      Offends  == Rejected(Judged(trigger, "diagnosed"))
      Accepts(v) == Send("validate", Valued(trigger, v), OK, <<>>) \o Create(Valued(trigger, v)) \o Discard(trigger)
  IN  Offends \o Offends \o Offends \o Offends \o Accepts(1) \o Accepts(2)

CheckSingleQueueConsumerEnforced ==
  LET queue == QueueNamed("single-consumer-queue")
      Of(name) == QueueConsumerOf(name, "gate-worker", "single-consumer-queue", <<>>)
      first  == Of("single-consumer-first")
      second == Of("single-consumer-second")
  IN  Create(queue) \o Create(first)
        \o RefusedCreate(second, "invalid_argument")
        \o Discard(first)
        \o Create(second) \o Discard(second)
        \o Read(queue) \o Send("delete", queue, OK, [fence |-> "current"])

CheckCustomDomainHostnameCanonicalized ==
  LET domain == CustomDomainClaiming("canonical-domain", "claim")
  IN  Send("prepare", domain, OK, [note |-> "rewritten"])
        \o Send("apply", domain, OK, [fence |-> "create", review |-> "rewritten", note |-> "created"])
        \o Read(domain)
        \o Send("prepare", domain, OK, [fence |-> "current", note |-> "restated"])
        \o Send("apply", domain, OK,
                [fence |-> "current", review |-> "restated", as |-> "created", same |-> {"gen"}])

CheckCustomDomainHostnameClaimUnique ==
  LET colliding == CustomDomainClaiming("claim-collision-domain", "claim")
      far       == InSpace(DomainOf("claim-far-domain", "claim-far-worker", "claim"), "alt")
  IN  RefusedAtPrepare(colliding) \o RefusedAtPrepare(colliding)
        \o CreateAll(ClaimFixtureElsewhere)
        \o RefusedAtPrepare(far)
        \o Discard(CustomDomainClaiming("canonical-domain", "claim"))
        \o Create(far)
        \o RefusedAtPrepare(colliding)
        \o Discard(far) \o DiscardAll(Reverse(ClaimFixtureElsewhere))
        \o Create(colliding) \o Discard(colliding)

CheckCustomDomainHostnameClaimStopsAtTheTenant ==
  LET held    == CustomDomainClaiming("claim-tenant-holder", "shared")
      Foreign(name) == As(DomainOf(name, "claim-tenant-worker", "shared"), Bob)
      foreign == Foreign("claim-tenant-domain")
  IN  CreateNoted(held, "held")
        \o CreateAll(ClaimFixtureOfBob)
        \o Send("apply", foreign, OK, [fence |-> "create", as |-> "held", moved |-> {"uid"}, note |-> "foreign"])
        \o SameIncarnation(held, "held") \o SameIncarnation(foreign, "foreign")
        \o Send("prepare", Foreign("claim-tenant-domain-again"), "invalid_argument", <<>>)
        \o RefusedAtPrepare(CustomDomainClaiming("claim-tenant-holder-again", "shared"))
        \o Discard(held)
        \o SameIncarnation(foreign, "foreign")
        \o Discard(foreign) \o DiscardAll(Reverse(ClaimFixtureOfBob))

CheckDeadLetterCycleRejected ==
  LET Q(x) == QueueNamed("dead-letter-queue-" \o x)
      Of(name, x, y) == Draining("dead-letter-" \o name, "dead-letter-queue-" \o x, "dead-letter-queue-" \o y)
  IN  Create(Q("a")) \o Create(Q("b"))
        \o RefusedCreate(Of("self", "a", "a"), "invalid_argument")
        \o Create(Of("forward", "a", "b"))
        \o RefusedCreate(Of("back", "b", "a"), "invalid_argument")
        \o Create(Q("c")) \o Create(Of("back", "b", "c"))
        \o RefusedCreate(Of("close", "c", "a"), "invalid_argument")
        \o Create(Q("d")) \o Create(Of("close", "c", "d"))
        \o Create(Q("e")) \o Create(Of("diamond", "e", "c"))
        \o DiscardAll(<<Of("diamond", "e", "c"), Of("close", "c", "d"), Of("back", "b", "c"), Of("forward", "a", "b")>>)
        \o DiscardAll(<<Q("e"), Q("d"), Q("c"), Q("b"), Q("a")>>)

Imported(d, native) == Send("import", d, OK, [fence |-> "create", native |-> native])

CheckAttachmentClaimDecidedOnImport ==
  LET holder   == CustomDomainClaiming("import-claim-holder", "adopted")
      adopting == CustomDomainClaiming("import-claim-adopted", "adopted")
      Q(x)     == QueueNamed("import-dead-letter-" \o x)
      Of(name, x, y) ==
        Draining("import-dead-letter-" \o name, "import-dead-letter-" \o x, "import-dead-letter-" \o y)
  IN  Create(holder)
        \o RefusedImport(adopting, "native/import-claim", "invalid_argument")
        \o Discard(holder)
        \o Imported(adopting, "native/import-claim") \o Discard(adopting)
        \o Create(Q("a")) \o Create(Q("b")) \o Create(Of("forward", "a", "b"))
        \o RefusedImport(Of("back", "b", "a"), "native/import-dead-letter", "invalid_argument")
        \o Create(Q("c")) \o Imported(Of("back", "b", "c"), "native/import-dead-letter")
        \o DiscardAll(<<Of("back", "b", "c"), Of("forward", "a", "b"), Q("c"), Q("b"), Q("a")>>)

\* What was free when the Operation was accepted is taken when it commits.
CheckAttachmentClaimRevalidatedAtCommit ==
  LET pending == CustomDomainClaiming("commit-claim-pending", "committed")
      taker   == CustomDomainClaiming("commit-claim-taker", "committed")
      a       == QueueNamed("commit-dead-letter-a")
      b       == QueueNamed("commit-dead-letter-b")
      waiting == Draining("commit-dead-letter-pending", "commit-dead-letter-b", "commit-dead-letter-a")
      closing == Draining("commit-dead-letter-closing", "commit-dead-letter-a", "commit-dead-letter-b")
      Overtaken(d, by) ==
        AcceptedCreate(d, "accepted") \o Create(by)
          \o Awaited(d, "accepted", "invalid_argument")
          \o Gone(d) \o Read(by) \o Discard(by)
  IN  Overtaken(pending, taker)
        \o Create(a) \o Create(b) \o Overtaken(waiting, closing)
        \o Discard(b) \o Discard(a)

CheckCustomDomainULabelRefused ==
  LET label == CustomDomainClaiming("a-label-domain", "a-label")
  IN  Rejected(Judged(CustomDomainClaiming("u-label-domain", "u-label"), "diagnosed"))
        \o Create(label) \o Discard(label)
=============================================================================
