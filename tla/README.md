# A TLA+ verification of the Takoform Terraform provider

The repository holds a Terraform provider (`terraform-provider-takoform`, Go)
that manages Resources of a Takoform Host, the reference Host that fixes what
the Host API means, and the conformance suite that other Hosts are measured
with. Two things have to be right. The Provider must never lose track of a
mutation: what Terraform saves, what the journal records and what the Host holds
have to agree whatever is interrupted. And the Host must keep its store
consistent: relations, holds, claims and reviews have to survive every order of
requests. This project models both, checks them with TLC on small instances and
proves the Provider 5 lane with TLAPS for every value of its constants.

## The system and its parts

| part | source | state | operations |
| --- | --- | --- | --- |
| intent journal | `internal/intentv2/store.go` | one snapshot: binding, imports, records | BindEmpty, BindImportedResource, Begin, RecordAccepted, Complete, Read |
| local back end | `store.go` withSnapshot, `store_posix.go` | a directory with `lock`, `store.json`, `state.json` | Initialize, flock, read, replace by rename, fsync |
| remote back end | `remote_snapshot.go` | one versioned private file | OpenRemote, read, commit (compare-and-swap), resolve |
| Host client | `internal/hostv2/client.go` | the discovery document all calls share | Discover, reads, mutations, Operation polls |
| resource lifecycle | `internal/provider/v2_resource.go`, `v2_lifecycle_existing.go` | Terraform's saved state | Create, Read, Update, Delete, import, finish |
| retained lane | `internal/provider/v3_lifecycle.go`, `v3_continuity.go`, `v3_state.go`, `internal/clientv3` | saved state with a pending Operation | Create, Read, Update, Delete, resume |
| reference Host | `internal/portableconformancev3/reference_host.go`, `relations.go`, `worker_aggregate.go`, `edge_semantics.go`, `exclusive.go`, `resolved_uid_constraints.go`, `derived_rendering.go` | resources, relations, reviews, Operations, idempotency records, artifacts | the Host API |
| published Forms | `internal/*formcatalog/catalog.go` | none | tables the Host's rules read |
| conformance suite | `internal/portableconformancev3/runner*.go` | the progress of a check | requests and verdicts |
| generic plan | `internal/portableconformancev3/stable_generic_*.go` | an in-memory Host | one plan, two adapters |
| runtime ABI runner | `internal/runtimeconformance/*.go`, `fakeruntime`, `workerbundle` | a deployed worker's store, deferred tasks and attachments; the runner's check | a verified corpus, probe requests, a report |
| configuration, schema, conversion; Form packages; release and publication | see `PROJECT.json` | none, or release directories | not modelled |

The Provider runs resource operations in parallel on one Host client and one
Store. Several Terraform runs, on one machine or several, share a store. The
production Host of Provider 5 is outside the repository, and so are the file
service and the file system.

What makes it hard: parallel calls that share a discovery document; two
addresses, or two configurations, that name one slot; a process that dies
between the claim, the send, the acknowledgement, the completion and the save;
requests and answers that are lost or arrive late; Operations that fail, wait
for input or expire; a rename that is visible before it is durable; a remote
commit that times out and is applied later; resources that are stored, changed
and re-created by separate requests while others depend on them. `PROJECT.json`
lists each hazard at its line.

## The modules

### Provider 5

* **IntentOps** – the journal as pure operators on a snapshot. `Begin` is split
  the way the code is read: the backward scan (`LoopStop`, with `Boundary`,
  `Replays` and `Conflicts` as its three ways to stop), the unresolved check
  (`HasUnresolved`), the identity checks (`Fenced`) and the new claim.
  `RecordAccepted`, `Complete` and `BindImportedResource` are each a guard and
  the record they write; `decodeSnapshot` is the decoder. Public JSON with its
  private-input names is one payload; generations are numbers, 0 the empty
  string; the method and path of a request are functions of its action.
* **IntentJournal** – the journal on an atomic snapshot: one action per exported
  operation, with any request and any evidence at any time.
* **SnapshotRegister** – what `withSnapshot` promises: a history that grows by
  whole updates, and answers *ok*, *same*, *no* and *maybe* that may be relied
  on. It is what lets the journal be modelled as atomic.
* **LocalSnapshot** – the POSIX back end, one action per system call that
  others can observe. The directory exists twice: as processes see it and as a
  power loss would leave it; `Flush` is the kernel writing back on its own.
  Initialization creates, writes and syncs each file in one step, and makes the
  directory and syncs its parent in one: a directory that lacks a file, or whose
  JSON files are not whole, is refused by every call alike.
* **RemoteSnapshot** – the remote back end, with the file service (external)
  and a network that loses, delays and repeats commits. A file past the last
  version cannot be read (`Present`), so `OpenedIsBound` also says that no
  commit is sent at that version.
* **HostClient** – the shared client. Each call is the client's side of one
  Provider operation: Discover, a read, the claim, the mutation, the Location
  check, the poll. `disturbed` is a history variable: the calls that met another
  call's `Discover` after their own.
* **ProviderLifecycle** – Create, Read, Update, Delete and import of one name,
  composed with IntentOps, Terraform's saved state and a Host (external). A call
  is cut after each journal operation and each Host request. `sent` counts the
  sends of a key.

The composition assumes this of the Host: it performs a key once and answers a
repeated key with the same Operation for as long as a message can be under way;
it checks the expected generation; it runs one Operation per Resource at a time;
a failed Operation keeps UID and name; a finished Operation may be forgotten.
Nobody but the modelled addresses changes the Resource; a Resource may exist
beforehand, to be imported. Terraform may plan an Update or a Delete from a state
it did not refresh (`-refresh=false`, or a refresh whose result was not saved).

### The reference Host and the retained lane

`ServeHTTP` holds one mutex for a whole request, so the Host is a value and a
request is a function of it.

* **HostModel** – the store and the relations between resources; a uid is fresh
  for every incarnation of a key.
* **HostWorkers** – the Worker aggregate: which deployment serves a worker, what
  its dependents need, and why something is not Ready.
* **HostRules** – what is demanded of a desired spec: exclusive holds, claimed
  values, assets, migrations, dead-letter cycles, constraints over resolved
  UIDs, in the order of `validateDesiredSemantics`. What the rules that read a
  spec alone say of it (schema, structural constraints, cron grammar, handler
  ABI) is a verdict the spec carries.
* **HostStore** – the next version of a resource, the reverse index of the
  relations, and the derived conditions of everything a mutation touches.
* **HostOps** – the handlers: validate, prepare, apply, observe, import, delete,
  Operations and their cancellation, and the idempotency records.
* **HostArtifacts** – upload sessions, staged blobs, commits.
* **HostSurface** – the refusals before a handler, and the reads of the
  catalogue that a check depends on.
* **ReferenceHost** – callers in several tenants send these requests in any
  order, with retries, stale reviews and changes from outside (`Worlds` names the
  small worlds, one of which a behaviour plays). Callers that interleave may send
  every review the Host ever handed out, and ask for an Operation again after it
  has ended: its body is then served as it was, and may name what is gone since,
  so `SuccessIsLive` is about first answers, idempotency records and the answer
  that ends an Operation (`past` in `reply` tells them apart).
* **FormCatalogue** – the published Forms, as far as the rules read them.
* **FormResource** – one address of the retained lane against that Host. Its
  calls are sequences of requests between which everybody else acts; answers are
  lost or unreadable, deadlines pass and the Provider dies. The reference Host
  discloses no uid before an Operation ends, so an unverified Create records
  none; that a resumed delete's Operation names the uid in the state is not
  compared, so the model may conclude more than the code does.

The Host never drops a review or an idempotency record. `Forget` and
`KeepReviews` of ReferenceHost, and `Forgetting` of the suite, drop from the
model's state those that no later request can name: the record of a key that its
caller uses once, and the review of a caller that prepares, sends and never sends
it again. A handler compares a review or a key with the one in its request only,
so it could not tell. The worlds whose callers keep their reviews keep all of
them, up to `reviews`.

### The suite and the plan

* **ConformanceRunner** – a check as a script: requests, and what is demanded of
  each answer. **ConformanceCorpus** is the probe resources, **Checks\*** the
  checks by subject.
* **ConformanceSuite** – their order, and the suite at work while a caller of
  another tenant acts between any two of its requests.
* **GenericMemory**, **GenericAdapter**, **GenericPlan** – the in-memory Host of
  the generic plan, the plan over HTTP against the reference Host, and its cases.
  `RunPlan` of ConformanceSuite sends the next case to both; `ConformancePasses`
  says the plan is one the runner accepts and both observe the same of every case.
* **RuntimeConformance** – the runner that measures a Worker runtime, and the
  stand-in runtime of its self-test. A corpus is verified (`ValidateContract`),
  then its eighteen checks are played in order, several runs against the same
  deployment (`MeasureRuntime` of ConformanceSuite), while deferred tasks, queue
  deliveries, cron invocations and the two ends of a stream go on beside them.
  `Close` may come after the last run or when a run is cancelled between two
  polls. `ConformancePasses` demands `VerdictsAreTrue` (a check fails exactly
  when the runtime has the defect it is there to catch) and `AcceptedWorkSettles`
  (nothing accepted is lost when the isolate is reclaimed). Time is counted in
  ticks from the start of a run; what is due happens at most `Lag` ticks late.
  The runtime that short-circuits its service binding is the stand-in's own
  option; those that store nothing, buffer or invent a length are built by the
  runner's tests, and one that stalls, between two chunks or before it ends the
  body, is what its deadlines are for. A module's bytes are what is derived from
  them, so the scanner that derives it is not checked, and requests do not fail
  in transport.

### Instances and proofs

* **MC\*** – the instances for TLC. `Mut*` definitions are mutated forms of the
  definitions that follow them, used to show that each property can fail.
* **IntentLemmas**, **IntentProofs**, **LocalProofs**, **RemoteProofs**,
  **ClientProofs**, **LifecycleLemmas**, **AddressLemmas**, **ProviderProofs** –
  see below.

`PROJECT.json` maps every definition to the lines it models.

## The runs

| run | instance | shows |
| --- | --- | --- |
| `journal` | 2 names, 2 roots, 2 UIDs, 3 keys, 3 records, 3 generations | the journal invariants and that history is kept |
| `local_snapshot` | 2 processes, 3 calls, room for 2 updates | durability, damage is left alone, the register is implemented |
| `remote_snapshot` | 2 clients, 2 roots, 2 updates, 2 opens, 2 versions | binding, the register is implemented, every call returns |
| `host_client` | 3 calls, 2 at a time, 2 roots | every call ends; nothing but another `Discover` can spoil a claimed mutation |
| `host_client_gate` | 2 parallel calls | **violation** of `HostDecides` |
| `provider_one` | 1 address, 3 keys and Operations, 2 UIDs, 2 payloads | journal, state and Host agree; a refresh recovers; a halted claim stays halted |
| `provider_two` | 2 addresses on one name, 2 keys and Operations | no effect behind the journal under interleaving |
| `provider_progress` | 1 address, private inputs | every call returns |
| `provider_link` | 1 address | **violation** of `RefreshRecovers` |
| `conformance_suite` | the suite beside one caller of another tenant; the generic plan; five sound or defective runtimes and fifteen corrupted corpora | the suite and the plan pass; a report is true of the runtime it measured |
| `reference_host` | seven worlds of one rule each, seven of interleaved callers, three with a managed address | what may stand together in the store; reviews, fences, retries, Operations, tenants; the retained lane |
| `class_holder` | a worker, a version, a deployment and a workflow | **violation** of `LaterDeploymentLands` |

The bounds. Three records are a Create, a Delete and a Create again, or a
failure with its superseding mutation and one more; three generations reach the
ceiling (`MaxGeneration`), where a mutation must be refused; `MaxRecords` is
reached too. Two processes and three calls let one call fail after its rename,
another see its result and a third run into the size limit. Two versions of the
remote file are an initialization and an update, with a competing one of each.
`Sends` caps a counter only. At the Host a generation of 2 is an update, and one
of 3 (`generations`, in the world `Stale`) lets a review of the first generation
be sent after an update to the second; three reviews (`reviews`) are one to
create and two that compete, one re-creation per world tells incarnations apart
(`recreated`), one lost resource makes a relation dangle (`MaxLost`), one
Operation per world commits late (`operations`), one status touch moves a
revision without a generation (`MaxTouches`) and two upload sessions share a
blob (`MaxUploads`). Each world holds the resources of one rule, so that all
orders of its requests fit. Two runs against one runtime, sound in the first and
storing nothing in the second, are what a nonce that is not the run's own would
confuse. `Lag` is one tick, less than every deadline, than the delay of a
deferred task and than half the gap between the chunks of a response: a verdict
is true of a runtime that is late by no more than the corpus allows for.
Symmetry is used for interchangeable names, UIDs, keys and the like, in runs that
check no liveness.

Deadlock checking is off: every system here may be done (all calls made, all
keys used, or every request of a world refused).

Fairness. `RemoteSnapshot` and `HostClient` assume that a running client goes
on: every request has a timeout (`post`, `newResourceAPIHTTPClient`,
`discoveryTimeout`) and a Go mutex is granted to each waiter. `ProviderLifecycle`
(`FairSpec`) assumes the same of a call, and that the Host ends an Operation that
can run again and again (strong fairness: it may ask for private inputs in
between). Nothing is assumed about messages, crashes or retention.

### What the violation runs show

* `host_client_gate` – `Discover` clears the shared document. A parallel call
  that has claimed its intent finds none: its mutation is never sent and the
  claim stays unresolved, or the Host's acknowledgement is discarded when its
  Location is checked. The comment on `Client` says that mutations are not gated
  on discovery.
* `provider_link` – a crash after `Complete` leaves a state that links to an
  applied intent. An Update or Delete from it is accepted; if that state is lost
  too, no later refresh is possible. `RefreshedRecovers`, checked in
  `provider_one` and proved, shows that this is the only such case.
* `class_holder` – a workflow or an actor namespace that is stored before its
  worker has a deployment keeps every deployment of that worker from being
  stored, although the comments say that a later deployment makes it Ready.

## What is proved

Every theorem is for all values of the constants that satisfy the named
assumptions of the module it is about: any number of processes, clients,
addresses, names, keys, records and generations.

| module | theorems | about |
| --- | --- | --- |
| `IntentProofs` | `TypeCorrect`, `JournalInvariant`, `Decodes`, `OneUnresolved`, `Custody`, `Replay`, `HistoryKept` | IntentJournal |
| `LocalProofs` | `LocalInvariant`, `LocalTypeOK`, `LocalAckedIsDurable`, `LocalSeenIsDurable`, `LocalDamagedIsNeverWritten`, `LocalImplementsRegister` | LocalSnapshot |
| `RemoteProofs` | `RemoteInvariant`, `RemoteTypeOK`, `RemoteOpenedIsBound`, `RemoteImplementsRegister` | RemoteSnapshot |
| `ClientProofs` | `ClientInvariant`, `ClientTypeOK`, `ClientOnlyDiscoverInterferes` | HostClient |
| `ProviderProofs` | `ProviderInvariant`, `ProviderNoEffectBehindJournal`, `ProviderSettledAgreesWithHost`, `ProviderStateHasCustody`, `ProviderClearedOnlyWhenGone` | ProviderLifecycle, any number of addresses on one name |
| `ProviderProofs` | `AddressInvariant`, `AddressPreAckIsHalted`, `AddressRefreshedRecovers` | ProviderLifecycle, a name that one address has to itself |

The assumptions. `BoundsAssumption`: the ceilings are naturals.
`NoneAssumption`: `None` is none of the values. `EvidenceAssumption`: the Host
reports known statuses. `LocalAssumption`, `RemoteAssumption`,
`ClientAssumption` and `LifecycleAssumption`: the same of the other constants.
TLC evaluates each of them in the runs. The theorems called `Address…` also
assume `OneAddress`: the code promises them to a configuration that manages a
name at one address, and with two addresses they are false, as TLC shows.

**The journal.** None of the invariants is inductive alone. `Inv` is their
conjunction with type correctness and with `BoundIfUsed` (a store that has a
record is bound). A record that completes must still decode, which needs that it
decoded before; a new claim must be the target's only unresolved record, which
needs that the old ones were the newest; its request must follow the newest
record, and Begin compares it with `currentIdentity`, which is the newest record
only because the records before it are settled and in custody order. `Replay`
follows from `Inv` without induction: the scan meets the unresolved record first,
since it is the newest, and an unresolved record is no boundary. `IntentLemmas`
holds what concerns the operators alone: appending or replacing one record, which
positions belong to a target, where the scan stops.

**The local back end.** `Inv` says that the flock excludes (`OneHolder`), that a
process in a call works on an update of its own (`EachItsOwn`), how files appear
in the directory (`Layout`), that the durable history is the beginning of the
visible one and has every update that was answered *ok* (`Histories`), and how
far the holder of the lock is (`Progress`). `AckedIsDurable` alone is not
inductive: the answer *ok* is given after the sync, and that the sync made the
caller's own update durable needs that nobody else could write since the rename.
The register's history is the durable one: a sync or a write-back by the kernel
extends it and the end of a call answers; the others are none of its steps.

**The remote back end.** `Inv` ties every request that is still under way to the
call that drew its commit id (`SentOnce`) and to the file at the version it
expects (`Computed`), says that a committed request stays in the file for good
(`Performed`), that a response speaks of the client's own request (`Answered`),
and that a request which may still be performed belongs to a call that was not
refused (`StillOpen`). The last one is what makes *no* reliable after a timeout:
the version has moved on. The register's history is the log in the file.

**The client.** A call that nobody disturbed still has the document of its own
`Discover` (`KeepsItsDocument`), because one `Discover` runs at a time
(`OneDiscovers`).

**The lifecycle.** `LifecycleLemmas` defines the invariant. `Shared` relates the
journal and the Host: the records of the name decode and are settled except the
last; the Host has Operations of journaled intents only, one for each; one
Resource has the name; the last Operation on it is that of the last record, or of
the one before while the Host has not seen the last (`NothingBehind`); a settled
last record is what its Operation left (`SettledStands`). `AddressOK` says of each
address what its call and its saved state may rely on whatever the others do
(`Custody`, `Observed`, `CallOK`). The properties are about the last record, and a
new claim makes any record the one before the last; this is why `Shared` has to
speak of both. The lemma `AddressStays` is the rely condition: when the journal
only grows and the Host keeps what it had, every address keeps what it knows. A
step of a call then has to re-establish `AddressOK` of its own address only, and
a step of the journal or of the Host has to show `Shared` and that it keeps the
others' knowledge. `AddressLemmas` adds `Solo`: for a name that one address has
to itself, the saved state is the result of the last intent, or the fence it was
claimed from, and a claim that was sent is not sent again.

The steps that the two invariants need are one lemma per action; the theorems
combine them.

## What is only model-checked

* Liveness: `EveryCallReturns`, `EveryCallEnds` and the progress of
  ProviderLifecycle. The prover has no rules for fairness.
* The reference Host, the retained lane and the suite (ReferenceHost,
  FormResource, ConformanceSuite). A handler there is one large function of the
  whole store, with folds over resources to re-derive conditions, and a world is
  a finite table of requests. Its invariants hold because of what the fold
  computes for each affected resource, and facts about folds over data need an
  induction that the installed provers cannot instantiate.
* The generic plan: one run over one finite table of cases.
* The runtime ABI runner: its verdicts rest on the timing of one corpus.

## What is not modelled

The grant descriptor of the remote back end; permission, ownership and inode
checks on the store's files (nothing in the model tampers with them); the size of
the snapshot in bytes inside the journal; validation of Host responses beyond
valid and invalid; the conversion of Terraform values; what a schema says of a
spec; how a module's exports are read from its bytes; Form packages; the release and publication tools. `PROJECT.json` gives the
reason for each.

## Plan

1. **GrantDescriptor**: `currentGrant`, `selectRemoteGrant` and
   `validRemoteGrant` with a runner that replaces the descriptor while a Store is
   open, composed with RemoteSnapshot's posts.
2. **Host refinement**: the Host actions of ProviderLifecycle as an abstraction
   of the reference Host, shown by refinement.
3. **Release**: the staged commit of `cmd/release-output-commit` and the
   resumable steps of the publication scripts.
4. **Proofs**: the invariants of ReferenceHost that do not rest on the derived
   conditions (`TrafficStaysWithinItsService`, `CommittedStaysWhole`), and
   `OneMutationAtATime` of FormResource.
