----------------------------- MODULE HostClient -----------------------------
(***************************************************************************)
(* The Host API v2 client (internal/hostv2/client.go) shared by the calls  *)
(* that Terraform runs in parallel on one configured Provider.  Client     *)
(* keeps one discovery document for all of them.  Every call first runs    *)
(* Discover, which clears the document, fetches a new one and publishes    *)
(* it; every request takes its base URL from the document it then finds    *)
(* (apiBase), and a mutation does so twice: before it is sent and, to      *)
(* check the Location header, after the Host has answered.                 *)
(*                                                                         *)
(* A call here is the client's side of one Read, Create, Update or Delete  *)
(* of the Provider: discover, read the Host, claim the intent, mutate,     *)
(* read the Operation.  The journal is ProviderLifecycle's subject.  A     *)
(* document is its base URL and whether it advertises Bearer; the Host may *)
(* publish another one at any time.                                        *)
(***************************************************************************)
EXTENDS Naturals, FiniteSets

CONSTANTS
  Calls,        \* the calls Terraform makes
  Parallelism,  \* how many of them run at a time
  Roots,        \* the base URLs the Host may advertise
  HostAPIRoot,  \* the configured host_api_root
  None

ASSUME ClientAssumption ==
  Parallelism \in Nat /\ HostAPIRoot \in Roots /\ None \notin Calls \cup Roots

Documents == [base : Roots, bearer : BOOLEAN]

VARIABLES
  discovery,    \* the published document, None while discovered is false
  discoverMu,   \* the call that holds the mutex of Discover
  pc,           \* where each call is
  target,       \* the base URL of its mutation
  outcome,      \* how it ended
  disturbed     \* the calls that met another call's Discover after their own

vars == <<discovery, discoverMu, pc, target, outcome, disturbed>>

NoDocument == [base |-> None, bearer |-> FALSE]

Steps ==
  {"idle", "discovering", "fetching", "reading", "claiming", "mutating", "exchanging",
   "locating", "polling", "done"}

Outcomes ==
  {"none", "refused", "read", "unsent", "unknown", "rejected", "discarded", "pending", "settled"}

Init ==
  /\ discovery = NoDocument
  /\ discoverMu = None
  /\ pc = [c \in Calls |-> "idle"]
  /\ target = [c \in Calls |-> None]
  /\ outcome = [c \in Calls |-> "none"]
  /\ disturbed = {}

Running == {c \in Calls : pc[c] \notin {"idle", "done"}}

Goto(c, step) == pc' = [pc EXCEPT ![c] = step] /\ UNCHANGED outcome

End(c, how) ==
  /\ pc' = [pc EXCEPT ![c] = "done"]
  /\ outcome' = [outcome EXCEPT ![c] = how]

\* The calls that go on without the document they compared.
Disturb == disturbed' = disturbed \cup {d \in Running : pc[d] \notin {"discovering", "fetching"}}

\* apiBase: a request may be formed.
apiBase == discovery # NoDocument /\ discovery.bearer

Start(c) ==
  /\ pc[c] = "idle"
  /\ Cardinality(Running) < Parallelism
  /\ Goto(c, "discovering")
  /\ UNCHANGED <<discovery, discoverMu, target, disturbed>>

\* Mutants: the mutex survives a failed fetch; the root of the document is not
\* compared.
MutFetchFails(c) ==
  /\ pc[c] = "fetching"
  /\ End(c, "refused")
  /\ UNCHANGED <<discovery, discoverMu, target, disturbed>>

Mutdiscover(c, d) == Goto(c, "reading")

\* Discover takes its mutex and clears what the other calls use.
Reset(c) ==
  /\ pc[c] = "discovering"
  /\ discoverMu = None
  /\ discoverMu' = c
  /\ discovery' = NoDocument
  /\ Goto(c, "fetching")
  /\ Disturb
  /\ UNCHANGED target

\* The document cannot be fetched or is not valid.
FetchFails(c) ==
  /\ pc[c] = "fetching"
  /\ discoverMu' = None
  /\ End(c, "refused")
  /\ UNCHANGED <<discovery, target, disturbed>>

\* v2Resource.discover compares the base URL only after it is published.
discover(c, d) == IF d.base = HostAPIRoot THEN Goto(c, "reading") ELSE End(c, "refused")

Publish(c) ==
  /\ pc[c] = "fetching"
  /\ \E d \in Documents : discovery' = d /\ discover(c, d)
  /\ discoverMu' = None
  /\ UNCHANGED <<target, disturbed>>

\* GetSupport or ReadResource: an error refuses the call, a Read ends with it, a
\* mutation goes on.
Read(c) ==
  /\ pc[c] = "reading"
  /\ UNCHANGED <<discovery, discoverMu, target, disturbed>>
  /\ IF apiBase
       THEN End(c, "refused") \/ End(c, "read") \/ Goto(c, "claiming")
       ELSE End(c, "refused")

\* Begin claims the intent, or refuses.
Claim(c) ==
  /\ pc[c] = "claiming"
  /\ Goto(c, "mutating") \/ End(c, "refused")
  /\ UNCHANGED <<discovery, discoverMu, target, disturbed>>

\* CreateResource, UpdateResource, DeleteResource up to the send.
Mutate(c) ==
  /\ pc[c] = "mutating"
  /\ UNCHANGED <<discovery, discoverMu, disturbed>>
  /\ IF apiBase
       THEN /\ target' = [target EXCEPT ![c] = discovery.base]
            /\ Goto(c, "exchanging")
       ELSE End(c, "unsent") /\ UNCHANGED target

\* The request and its response: lost or unusable (IndeterminateError), a valid
\* problem, or an Operation with its Location.
Exchange(c) ==
  /\ pc[c] = "exchanging"
  /\ End(c, "unknown") \/ End(c, "rejected") \/ Goto(c, "locating")
  /\ UNCHANGED <<discovery, discoverMu, target, disturbed>>

\* The Host places the Operation under the base URL of the request; the client
\* compares it with the document of this moment.
validateOperationLocation(c) ==
  /\ pc[c] = "locating"
  /\ IF apiBase /\ discovery.base = target[c]
       THEN Goto(c, "polling")
       ELSE End(c, "discarded")
  /\ UNCHANGED <<discovery, discoverMu, target, disturbed>>

\* ReadOperation and ReadResource in finish; an error leaves the intent accepted.
Poll(c) ==
  /\ pc[c] = "polling"
  /\ UNCHANGED <<discovery, discoverMu, target, disturbed>>
  /\ IF apiBase
       THEN End(c, "settled") \/ End(c, "pending")
       ELSE End(c, "pending")

Advance(c) ==
  \/ Reset(c) \/ FetchFails(c) \/ Publish(c) \/ Read(c) \/ Claim(c) \/ Mutate(c)
  \/ Exchange(c) \/ validateOperationLocation(c) \/ Poll(c)

Next == \E c \in Calls : Start(c) \/ Advance(c)

\* A running call goes on by itself: discovery has a timeout, so has the HTTP
\* client, and a Go mutex is granted to every waiter in the end.
Fairness == \A c \in Calls : WF_vars(Start(c)) /\ WF_vars(Advance(c))

Spec == Init /\ [][Next]_vars /\ Fairness

-----------------------------------------------------------------------------
TypeOK ==
  /\ discovery \in Documents \cup {NoDocument}
  /\ discoverMu \in Calls \cup {None}
  /\ pc \in [Calls -> Steps]
  /\ target \in [Calls -> Roots \cup {None}]
  /\ outcome \in [Calls -> Outcomes]
  /\ disturbed \subseteq Calls

\* The comment on Client: "mutations do not gate an already formed caller request
\* on those mutable advertisements; the Host decides".  A claimed mutation is
\* sent, and a good answer to it is not thrown away.
HostDecides == \A c \in Calls : outcome[c] \notin {"unsent", "discarded"}

\* That holds, and the mutation goes to the root its store is bound to
\* ("Discovery's `baseUrl` must equal `host_api_root` exactly",
\* docs/provider-host-api-v2-source.md), for every call that no other
\* call's Discover has met after its own: whatever documents the Host publishes,
\* the comparison of v2Resource.discover and the read before the claim leave a
\* mutation nothing to fail on.
OnlyDiscoverInterferes ==
  \A c \in Calls \ disturbed :
    outcome[c] \notin {"unsent", "discarded"} /\ target[c] \in {None, HostAPIRoot}

\* Every call ends, also when others hold the mutex of Discover or fail in it.
EveryCallEnds == \A c \in Calls : pc[c] = "idle" ~> pc[c] = "done"

=============================================================================
