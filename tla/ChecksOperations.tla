---------------------------- MODULE ChecksOperations ----------------------------
(***************************************************************************)
(* The checks of the conformance suite on accepted Operations: polling,    *)
(* cancelling, who may, and what the commit finds when the store moved in  *)
(* between (runner_checks.go, runner_operability_checks.go,                *)
(* runner_state_continuity_checks.go, runner_current_lane_checks.go).      *)
(***************************************************************************)
EXTENDS ConformanceCorpus

AcceptedDelete(d, label) ==
  Send("delete", d, "accepted", [fence |-> "current", probe |-> "async", note |-> label])

\* The record of an Operation that has ended, and a cancel that took
Record(d, label, code) ==
  Send("poll", d, code, [of |-> label, as |-> label, same |-> {"op"}])
Cancelled(d, label) ==
  Send("cancel", d, "operation_cancelled", [of |-> label, as |-> label, same |-> {"op"}])
CancelRefused(d, label) ==
  Send("cancel", d, "operation_cancelled", [of |-> label, is |-> [op |-> 0]])

CheckOperations ==
  LET async  == KvNamed("async-probe")
      cancel == KvNamed("cancel-probe")
  IN  AcceptedCreate(async, "accepted")
        \o Send("poll", async, "pending", [of |-> "accepted"])
        \o Send("poll", async, OK, [of |-> "accepted", note |-> "ended"])
        \o Read(async)
        \o Send("poll", async, OK, [of |-> "accepted", as |-> "ended", same |-> {"uid", "gen", "op"}])
        \o AcceptedCreate(cancel, "cancelled")
        \o Cancelled(cancel, "cancelled")
        \o Gone(cancel)
        \o Send("poll", cancel, "operation_not_found", <<>>)

\* Another principal of the tenant and another tenant: the Operation is not
\* theirs to see.
CheckOperationOwnership ==
  LET probe == KvNamed("operation-owner-probe")
      Hidden(caller) ==
        Send("poll", As(probe, caller), "operation_not_found", [of |-> "accepted"])
          \o Send("cancel", As(probe, caller), "operation_not_found", [of |-> "accepted"])
  IN  AcceptedCreate(probe, "accepted")
        \o Hidden(Anne) \o Hidden(Bob)
        \o Awaited(probe, "accepted", OK)
        \o Read(probe)

\* An id recorded before the settlement answers the same however much happens
\* to the resource afterwards.
CheckOperationResumableAfterSettlement ==
  LET probe  == QueueNamed("resume-probe")
      second == QueueNamed("resume-probe-second")
  IN  AcceptedCreate(probe, "accepted")
        \o Awaited(probe, "accepted", OK)
        \o Send("poll", probe, OK, [of |-> "accepted", note |-> "ended"])
        \o ReadNoted(probe, "settled")
        \o Send("apply", Valued(probe, 60), OK, [fence |-> "current", as |-> "settled", same |-> {"uid"}])
        \o AcceptedCreate(second, "other")
        \o Awaited(second, "other", OK)
        \o Send("poll", probe, OK, [of |-> "accepted", as |-> "ended", same |-> {"uid", "gen", "op"}])

\* What was checked when the request was accepted is checked again when it
\* commits.
CheckAsyncCommitRevalidates ==
  LET target  == KvNamed("revalidate-kv-probe")
      held    == KvNamed("revalidate-held-probe")
      OnKv(name, kv) == Binding(WorkerVersionOf(name, "module-worker-probe", AllHandlers), KvBinding(kv))
      pending == OnKv("revalidate-version-probe", "revalidate-kv-probe")
      holder  == OnKv("revalidate-holder-version", "revalidate-held-probe")
  IN  Create(target)
        \o AcceptedCreate(pending, "create")
        \o Send("delete", target, OK, [fence |-> "current"])
        \o Awaited(pending, "create", "resource_not_found")
        \o Gone(pending) \o Gone(target)
        \o Create(held)
        \o AcceptedDelete(held, "delete")
        \o Create(holder)
        \o Awaited(held, "delete", "dependency_in_use")
        \o Read(held)

\* The subject of an accepted delete disappears, and another takes its name.
AcceptDeleteAndReplace(subject, replacements, code) ==
  CreateNoted(subject, "created")
    \o AcceptedDelete(subject, "delete")
    \o Send("delete", subject, OK, [fence |-> "current", probe |-> "external"])
    \o Script([i \in DOMAIN replacements |->
                 Send("apply", replacements[i], OK,
                      [fence |-> "create", shows |-> "any", as |-> "created", same |-> {"rev"},
                       moved |-> {"uid"}, note |-> "replacement"])])
    \o Awaited(subject, "delete", code)

CheckAsyncCommitBindsAcceptedIdentity ==
  LET contract    == WorkerNamed("accepted-identity-contract")
      other       == WorkerUnderSecondDefinition("accepted-identity-contract")
      incarnation == WorkerNamed("accepted-identity-incarnation")
      vanished    == WorkerNamed("accepted-identity-vanished")
  IN  AcceptDeleteAndReplace(contract, <<other>>, "uid_mismatch")
        \o SameIncarnation(other, "replacement")
        \o AcceptDeleteAndReplace(incarnation, <<incarnation>>, "uid_mismatch")
        \o SameIncarnation(incarnation, "replacement")
        \o AcceptDeleteAndReplace(vanished, <<>>, "resource_not_found")
        \o Gone(vanished)

CheckCancelPastSafeStop ==
  LET probe == KvNamed("cancel-past-safe-stop-probe")
  IN  AcceptedCreate(probe, "late")
        \o Send("poll", probe, "pending", [of |-> "late"])
        \o CancelRefused(probe, "late")
        \o Record(probe, "late", OK)

\* The three outcomes of a cancel: it takes, it finds the record, it is late.
CheckCancelOutcomesClosed ==
  LET probe == KvNamed("cancel-probe")
  IN  Record(probe, "cancelled", "operation_cancelled")
        \o Cancelled(probe, "cancelled")
        \o Record(probe, "cancelled", "operation_cancelled")
        \o Send("cancel", probe, "operation_not_found", <<>>)
        \o CheckCancelPastSafeStop
=============================================================================
