--------------------------- MODULE RemoteSnapshot ---------------------------
(***************************************************************************)
(* The remote back end of the intent journal (remote_snapshot.go): Runners *)
(* share one private file and change it by compare-and-swap.  A commit     *)
(* carries the version it was computed from and a fresh commit id; when    *)
(* its response is lost the client asks once, by resolve, whether exactly  *)
(* that commit happened, and never sends it again.  OpenRemote creates an  *)
(* absent file, or adopts the one a concurrent initializer created.        *)
(*                                                                         *)
(* The file service is external; it is modelled from what the client sends *)
(* and accepts.  A commit request may be lost, delayed past the client's   *)
(* timeout or delivered twice; a response may be lost or unusable.  The    *)
(* digest of a snapshot stands for the snapshot.  A post that fails before *)
(* it is sent (the grant descriptor was refused) is a lost request.        *)
(***************************************************************************)
EXTENDS Naturals, Sequences, SequencesExt

CONSTANTS
  Clients,      \* the Provider processes, each with one Store and its mutex
  Hosts,        \* the Host API roots they are configured with
  Updates,      \* one update per call of withSnapshot
  Opens,        \* one per call of OpenRemote
  MaxVersion,   \* maxRemoteVersion, 2^53 - 1 in the code
  None

ASSUME RemoteAssumption ==
  None \notin Hosts \cup Updates \cup Opens /\ Updates \cap Opens = {} /\ MaxVersion \in Nat

Calls == Updates \cup Opens       \* each draws its own commit id

Content == [binding : Hosts \cup {None}, log : Seq(Updates)]

Commit == [id : Calls, expected : Nat, content : Content]

VARIABLES
  binding,      \* the configured root of each client
  pc,           \* where each client is in its call
  op,           \* the call
  base,         \* the version it read
  next,         \* the content it commits
  opened,       \* the clients whose OpenRemote returned a Store
  version,      \* the service: the version of the file, 0 while absent
  file,         \* its content
  receipts,     \* the commits it has performed
  net,          \* the commit requests sent so far
  reply,        \* the service's response to the client's commit
  answer        \* what each call has been told

client == <<pc, op, base, next>>
service == <<version, file, receipts>>
vars == <<binding, client, opened, service, net, reply, answer>>

Empty(b) == [binding |-> b, log |-> <<>>]

Init ==
  /\ binding \in [Clients -> Hosts]
  /\ pc = [c \in Clients |-> "idle"]
  /\ op = [c \in Clients |-> None]
  /\ base = [c \in Clients |-> 0]
  /\ next = [c \in Clients |-> Empty(None)]
  /\ opened = {}
  /\ version = 0
  /\ file = Empty(None)
  /\ receipts = {}
  /\ net = {}
  /\ reply = [c \in Clients |-> "none"]
  /\ answer = [u \in Calls |-> "none"]

Request(c) == [id |-> op[c], expected |-> base[c], content |-> next[c]]

-----------------------------------------------------------------------------
(* A call.                                                                  *)

Call(c, u) ==
  /\ pc[c] = "idle"
  /\ answer[u] = "none"
  /\ (u \in Updates) <=> (c \in opened)
  /\ pc' = [pc EXCEPT ![c] = "reading"]
  /\ op' = [op EXCEPT ![c] = u]
  /\ answer' = [answer EXCEPT ![u] = "pending"]
  /\ UNCHANGED <<binding, base, next, opened, service, net, reply>>

\* Errors map to "no" (a business error, ErrStoreIdentity, ErrStoreConflict) or
\* to "maybe" (ErrStoreUnavailable, ErrStoreUncertain).
Return(c, a) ==
  /\ pc' = [pc EXCEPT ![c] = "idle"]
  /\ op' = [op EXCEPT ![c] = None]
  /\ base' = [base EXCEPT ![c] = 0]
  /\ next' = [next EXCEPT ![c] = Empty(None)]
  /\ reply' = [reply EXCEPT ![c] = "none"]
  /\ answer' = [answer EXCEPT ![op[c]] = a]

Fail(c, a) == Return(c, a) /\ UNCHANGED <<binding, opened, service, net>>

\* The exact commit is known to have happened.
Committed(c) ==
  /\ Return(c, IF op[c] \in Opens \/ Contains(next[c].log, op[c]) THEN "ok" ELSE "same")
  /\ opened' = IF op[c] \in Opens THEN opened \cup {c} ELSE opened
  /\ UNCHANGED <<binding, service, net>>

\* Mutants: the loser of the initial commit adopts whatever it reads; a resolve is
\* satisfied by a receipt of another commit; an unanswered commit is waited for.
MutAdopt(c) ==
  IF version > 0
    THEN /\ Return(c, "ok")
         /\ opened' = opened \cup {c}
         /\ UNCHANGED <<binding, service, net>>
    ELSE Fail(c, "maybe")

MutvalidRemoteReceipt(r, m) == r.expected = m.expected

MutTimeout(c) == FALSE /\ UNCHANGED vars

\* The operation, or the first snapshot of an absent file, is ready to commit.
Prepare(c, new) ==
  /\ base' = [base EXCEPT ![c] = version]
  /\ next' = [next EXCEPT ![c] = new]
  /\ pc' = [pc EXCEPT ![c] = "sending"]
  /\ UNCHANGED <<binding, op, opened, service, net, reply, answer>>

\* A read refuses a version past the last one.
Present == version \in 1..MaxVersion
Bound(c) == Present /\ file.binding = binding[c]

\* withSnapshot: read, check the binding, run the operation.
ReadForUpdate(c) ==
  /\ pc[c] = "reading"
  /\ op[c] \in Updates
  /\ \/ ~ Bound(c) /\ Fail(c, IF Present THEN "no" ELSE "maybe")
     \/ Bound(c) /\ Fail(c, "no")
     \/ /\ Bound(c)
        /\ \E log \in {file.log, Append(file.log, op[c])} :
             Prepare(c, [binding |-> file.binding, log |-> log])

\* OpenRemote with a file that is there: adopt it if it is exactly bound.
Adopt(c) ==
  IF Bound(c)
    THEN /\ Return(c, "ok")
         /\ opened' = opened \cup {c}
         /\ UNCHANGED <<binding, service, net>>
    ELSE Fail(c, IF Present THEN "no" ELSE "maybe")

ReadForOpen(c) ==
  /\ pc[c] = "reading"
  /\ op[c] \in Opens
  /\ IF version = 0 THEN Prepare(c, Empty(binding[c])) ELSE Adopt(c)

ReadAgain(c) ==
  /\ pc[c] = "rereading"
  /\ Adopt(c)

ReadFails(c) ==
  /\ pc[c] \in {"reading", "rereading"}
  /\ Fail(c, "maybe")

\* commit: post the request; at the last version it is refused unsent.
Send(c) ==
  /\ pc[c] = "sending"
  /\ base[c] < MaxVersion
  /\ net' = net \cup {Request(c)}
  /\ pc' = [pc EXCEPT ![c] = "committing"]
  /\ UNCHANGED <<binding, op, base, next, opened, service, reply, answer>>

RefuseVersion(c) ==
  /\ pc[c] = "sending"
  /\ base[c] >= MaxVersion
  /\ Fail(c, "maybe")

\* The post fails: never sent, timed out, 5xx, 3xx, an unknown kind, an
\* undecodable body.  The request may still be under way.
Timeout(c) ==
  /\ pc[c] \in {"sending", "committing"}
  /\ base[c] < MaxVersion
  /\ pc' = [pc EXCEPT ![c] = "resolving"]
  /\ reply' = [reply EXCEPT ![c] = "none"]
  /\ UNCHANGED <<binding, op, base, next, opened, service, net, answer>>

\* A response that settles nothing: another 4xx, an invalid receipt, a conflict
\* that does not echo the request.
BadReply(c) ==
  /\ pc[c] = "committing"
  /\ Fail(c, "maybe")

Receive(c) ==
  /\ pc[c] = "committing"
  /\ \/ reply[c] = "committed" /\ Committed(c)
     \/ reply[c] = "rejected" /\ Fail(c, "maybe")
     \/ reply[c] = "conflict" /\ op[c] \in Updates /\ Fail(c, "no")
     \/ /\ reply[c] = "conflict" /\ op[c] \in Opens
        /\ pc' = [pc EXCEPT ![c] = "rereading"]
        /\ reply' = [reply EXCEPT ![c] = "none"]
        /\ UNCHANGED <<binding, op, base, next, opened, service, net, answer>>

validRemoteReceipt(r, m) == r = m

resolve(c) ==
  /\ pc[c] = "resolving"
  /\ \/ (\E r \in receipts : validRemoteReceipt(r, Request(c))) /\ Committed(c)
     \/ Fail(c, "maybe")

Crash(c) ==
  /\ pc[c] # "idle" \/ c \in opened
  /\ pc' = [pc EXCEPT ![c] = "idle"]
  /\ op' = [op EXCEPT ![c] = None]
  /\ base' = [base EXCEPT ![c] = 0]
  /\ next' = [next EXCEPT ![c] = Empty(None)]
  /\ reply' = [reply EXCEPT ![c] = "none"]
  /\ opened' = opened \ {c}
  /\ answer' = [u \in Calls |-> IF u = op[c] THEN "maybe" ELSE answer[u]]
  /\ UNCHANGED <<binding, service, net>>

-----------------------------------------------------------------------------
(* The file service and the network.                                        *)

\* The response reaches the client if it still waits for this request.
Reply(m, kind) ==
  reply' = [c \in Clients |->
              IF pc[c] = "committing" /\ op[c] = m.id THEN kind ELSE reply[c]]

\* A request is processed.  It stays in net: it may be delivered again, and one
\* that is never delivered is lost.
Deliver(m) ==
  /\ \/ /\ m.expected = version
        /\ m \notin receipts
        /\ version' = version + 1
        /\ file' = m.content
        /\ receipts' = receipts \cup {m}
        /\ Reply(m, "committed")
     \/ m \in receipts /\ Reply(m, "committed") /\ UNCHANGED service
     \/ m \notin receipts /\ m.expected # version /\ Reply(m, "conflict") /\ UNCHANGED service
     \/ m \notin receipts /\ Reply(m, "rejected") /\ UNCHANGED service
  /\ UNCHANGED <<binding, client, opened, net, answer>>

Advance(c) ==
  \/ ReadForUpdate(c) \/ ReadForOpen(c) \/ ReadAgain(c) \/ ReadFails(c)
  \/ Send(c) \/ RefuseVersion(c) \/ Timeout(c) \/ Receive(c) \/ resolve(c)

Next ==
  \/ \E c \in Clients, u \in Calls : Call(c, u)
  \/ \E c \in Clients : Advance(c)
  \/ \E c \in Clients : BadReply(c) \/ Crash(c)
  \/ \E m \in net : Deliver(m)

\* A client goes on by itself: every post has a 15 second timeout.
Fairness == \A c \in Clients : WF_vars(Advance(c))

Spec == Init /\ [][Next]_vars /\ Fairness

-----------------------------------------------------------------------------
TypeOK ==
  /\ binding \in [Clients -> Hosts]
  /\ pc \in [Clients -> {"idle", "reading", "rereading", "sending", "committing", "resolving"}]
  /\ op \in [Clients -> Calls \cup {None}]
  /\ base \in [Clients -> 0..MaxVersion]
  /\ next \in [Clients -> Content]
  /\ opened \subseteq Clients
  /\ version \in 0..MaxVersion
  /\ file \in Content
  /\ receipts \subseteq Commit
  /\ net \subseteq Commit
  /\ reply \in [Clients -> {"none", "committed", "conflict", "rejected"}]
  /\ answer \in [Calls -> {"none", "pending", "ok", "same", "no", "maybe"}]

\* A Store is opened only on a file bound to the client's own Host root, and stays
\* so for as long as it is used: "Foreign or malformed custody is never reset or
\* overwritten" (docs/provider-private-snapshot-backend.md).  It also stays one
\* that can be read: no commit takes the file past the last version.
OpenedIsBound == \A c \in opened : Bound(c)

\* Every call returns, also when requests and responses are lost.
EveryCallReturns == \A u \in Calls : answer[u] = "pending" ~> answer[u] # "pending"

\* The back end implements the register: a claim is acknowledged only when its
\* exact commit happened, and a competing writer loses without a trace.
Register ==
  INSTANCE SnapshotRegister
  WITH log <- file.log, answer <- [u \in Updates |-> answer[u]]

ImplementsRegister == Register!Spec

=============================================================================
