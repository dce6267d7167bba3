---------------------------- MODULE RemoteProofs ----------------------------
(* Proofs about RemoteSnapshot, for every value of its constants. *)
EXTENDS RemoteSnapshot, TLAPS

-----------------------------------------------------------------------------
(* Histories: sequences that only grow at their end. *)

\* A prefix, position by position.
LEMMA PrefixPositions ==
  ASSUME NEW S, NEW s \in Seq(S), NEW t \in Seq(S)
  PROVE  IsPrefix(s, t) <=> Len(s) <= Len(t) /\ \A i \in 1..Len(s) : s[i] = t[i]
  <1>1. SubSeq(s, 1, Len(s)) = s
    OBVIOUS
  <1>2. ASSUME Len(s) <= Len(t)
        PROVE  /\ SubSeq(t, 1, Len(s)) \in Seq(S)
               /\ Len(SubSeq(t, 1, Len(s))) = Len(s)
               /\ \A i \in 1..Len(s) : SubSeq(t, 1, Len(s))[i] = t[i]
    BY <1>2
  <1> QED
    BY <1>1, <1>2 DEF IsPrefix

\* Appending, position by position.
LEMMA AppendPositions ==
  ASSUME NEW S, NEW s \in Seq(S), NEW u \in S
  PROVE  /\ Append(s, u) \in Seq(S)
         /\ Len(Append(s, u)) = Len(s) + 1
         /\ \A i \in 1..Len(s) : Append(s, u)[i] = s[i]
         /\ Append(s, u)[Len(s) + 1] = u
  OBVIOUS

\* A history is a prefix of itself, and of what it becomes when an update is added.
LEMMA PrefixOfAppend ==
  ASSUME NEW S, NEW s \in Seq(S), NEW u \in S
  PROVE  /\ IsPrefix(s, s)
         /\ Append(s, u) \in Seq(S)
         /\ IsPrefix(s, Append(s, u))
  <1>1. IsPrefix(s, s)
    BY DEF IsPrefix
  <1>2. Append(s, u) \in Seq(S) /\ Len(s) \in Nat
    BY AppendPositions
  <1>3. Len(s) <= Len(Append(s, u)) /\ \A i \in 1..Len(s) : s[i] = Append(s, u)[i]
    BY <1>2, AppendPositions
  <1> QED
    BY <1>1, <1>2, <1>3, PrefixPositions, Zenon

\* Prefixes compose.
LEMMA PrefixTransitive ==
  ASSUME NEW S, NEW r \in Seq(S), NEW s \in Seq(S), NEW t \in Seq(S), IsPrefix(r, s), IsPrefix(s, t)
  PROVE  IsPrefix(r, t)
  BY PrefixPositions

\* What a prefix contains stays.
LEMMA PrefixContains ==
  ASSUME NEW S, NEW s \in Seq(S), NEW t \in Seq(S), IsPrefix(s, t), NEW u, Contains(s, u)
  PROVE  Contains(t, u)
  BY PrefixPositions DEF Contains

\* Only the added update is new.
LEMMA AppendContains ==
  ASSUME NEW S, NEW s \in Seq(S), NEW u \in S, NEW v
  PROVE  Contains(Append(s, u), v) <=> Contains(s, v) \/ v = u
  <1>1. Len(s) \in Nat
    OBVIOUS
  <1>2. \A i : i \in 1..(Len(s) + 1) <=> i \in 1..Len(s) \/ i = Len(s) + 1
    BY <1>1
  <1>3. Contains(Append(s, u), v) <=> \E i \in 1..(Len(s) + 1) : Append(s, u)[i] = v
    BY AppendPositions DEF Contains
  <1> QED
    BY <1>2, <1>3, AppendPositions DEF Contains

\* Contains, in the words of the register.
LEMMA ContainsRange ==
  ASSUME NEW S, NEW s \in Seq(S), NEW u
  PROVE  Contains(s, u) <=> u \in Range(s)
  BY DEF Contains, Range

\* The empty history contains nothing, and begins every other.
LEMMA EmptyHistory ==
  ASSUME NEW S
  PROVE  /\ <<>> \in Seq(S)
         /\ \A s \in Seq(S) : IsPrefix(<<>>, s)
         /\ \A v : ~ Contains(<<>>, v)
  <1>1. <<>> \in Seq(S) /\ Len(<<>>) = 0
    OBVIOUS
  <1>2. \A v : ~ Contains(<<>>, v)
    BY DEF Contains
  <1>3. ASSUME NEW s \in Seq(S)
        PROVE  IsPrefix(<<>>, s)
    <2>1. Len(<<>>) <= Len(s) /\ \A i \in 1..Len(<<>>) : <<>>[i] = s[i]
      BY <1>1
    <2> QED
      BY <1>1, <2>1, PrefixPositions, Zenon
  <1> QED
    BY <1>1, <1>2, <1>3, Zenon

-----------------------------------------------------------------------------
(* The inductive invariant. *)

\* A client in a call has the call to itself, and it is not answered yet.
EachItsOwn ==
  \A c \in Clients :
    /\ pc[c] = "idle" => op[c] = None
    /\ pc[c] # "idle" => op[c] \in Calls /\ answer[op[c]] = "pending"
    /\ pc[c] = "rereading" => op[c] \in Opens
    /\ \A d \in Clients : op[c] = op[d] /\ op[c] # None => c = d

\* A commit id is sent with one request only, by the client whose call drew it.
SentOnce ==
  \A m \in net :
    /\ m.expected < MaxVersion
    /\ answer[m.id] # "none"
    /\ \A n \in net : n.id = m.id => n = m
    /\ \A c \in Clients : op[c] = m.id => pc[c] \in {"committing", "resolving", "rereading"} /\ m = Request(c)

\* A request was computed from the file as it was at the version it expects.
Computed(r) ==
  /\ r.expected <= version
  /\ r.expected > 0 => r.content.binding = file.binding
  /\ r.id \in Opens => r.expected = 0 /\ r.content.log = <<>>
  /\ r.id \in Updates => r.expected > 0
  /\ r.expected = version =>
       r.content.log = file.log \/ (r.id \in Updates /\ r.content.log = Append(file.log, r.id))

InFlight == {"sending", "committing", "resolving"}

AllComputed ==
  /\ \A m \in net : Computed(m)
  /\ \A c \in Clients : pc[c] \in InFlight =>
       Computed(Request(c)) /\ (op[c] \in Opens => next[c].binding = binding[c])

\* What has been committed is in the file for good, and nothing else is.
Performed ==
  /\ \A r \in receipts : /\ r \in net
                         /\ r.expected < version
                         /\ r.content.binding = file.binding
                         /\ IsPrefix(r.content.log, file.log)
  /\ \A u \in Updates : Contains(file.log, u) => \E r \in receipts : r.id = u /\ Contains(r.content.log, u)
  /\ version = 0 => file.log = <<>>

\* A response says what the service did with the client's own request.
Answered ==
  \A c \in Clients :
    /\ reply[c] # "none" => pc[c] = "committing"
    /\ reply[c] = "committed" => Request(c) \in receipts
    /\ reply[c] = "conflict" => base[c] < version /\ Request(c) \notin receipts

\* A request that may still be performed belongs to a call that was not refused.
StillOpen == \A m \in net \ receipts : m.expected = version => answer[m.id] \in {"pending", "maybe"}

\* The inductive invariant
Inv ==
  TypeOK /\ EachItsOwn /\ SentOnce /\ AllComputed /\ Performed /\ Answered /\ StillOpen /\ OpenedIsBound

-----------------------------------------------------------------------------
(* A call ends: Return, or the client dies.                                 *)

\* What every end of a call does: the client forgets it, and the service and the
\* requests under way stay as they are.
Ends(c, a) ==
  /\ Return(c, a)
  /\ opened' \subseteq opened \cup {c}
  /\ UNCHANGED <<binding, service, net>>

\* A call whose request may still be performed ends unanswered.
MayEnd(c, a) ==
  \A m \in net \ receipts : m.id = op[c] /\ m.expected = version => a = "maybe"

\* The end of a call keeps every variable's type.
LEMMA EndsType ==
  ASSUME TypeOK, NEW c \in Clients, NEW a \in {"ok", "same", "no", "maybe"}, Ends(c, a)
  PROVE  TypeOK'
  <1>1. pc' \in [Clients -> {"idle", "reading", "rereading", "sending", "committing", "resolving"}]
    BY Zenon DEF TypeOK, Ends, Return
  <1>2. op' \in [Clients -> Calls \cup {None}] /\ base' \in [Clients -> 0..MaxVersion]
    BY RemoteAssumption DEF TypeOK, Ends, Return
  <1>3. next' \in [Clients -> Content]
    <2>1. Empty(None) \in Content
      BY EmptyHistory, Zenon DEF Empty, Content
    <2> QED
      BY <2>1, Zenon DEF TypeOK, Ends, Return
  <1>4. reply' \in [Clients -> {"none", "committed", "conflict", "rejected"}]
    BY Zenon DEF TypeOK, Ends, Return
  <1>5. answer' \in [Calls -> {"none", "pending", "ok", "same", "no", "maybe"}]
    BY Zenon DEF TypeOK, Ends, Return
  <1>6. opened' \subseteq Clients
    BY Zenon DEF TypeOK, Ends
  <1> QED
    BY <1>1, <1>2, <1>3, <1>4, <1>5, <1>6, Zenon DEF TypeOK, Ends, service

\* The end of a call touches nobody else's call.
LEMMA EndsLocal ==
  ASSUME TypeOK, EachItsOwn, NEW c \in Clients, NEW a \in {"ok", "same", "no", "maybe"}, Ends(c, a)
  PROVE  /\ pc'[c] = "idle" /\ op'[c] = None /\ reply'[c] = "none"
         /\ \A d \in Clients \ {c} : /\ pc'[d] = pc[d] /\ op'[d] = op[d] /\ base'[d] = base[d]
                                     /\ next'[d] = next[d] /\ reply'[d] = reply[d]
                                     /\ Request(d)' = Request(d)
         /\ \A u \in Calls : answer'[u] = IF u = op[c] THEN a ELSE answer[u]
         /\ UNCHANGED <<binding, version, file, receipts, net>>
  BY DEF TypeOK, Ends, Return, Request, service

\* The end of a call keeps the invariant.
LEMMA EndsInv ==
  ASSUME Inv, NEW c \in Clients, NEW a \in {"ok", "same", "no", "maybe"}, Ends(c, a), MayEnd(c, a),
         c \in opened' \ opened => Bound(c)
  PROVE  Inv'
  <1>0. TypeOK /\ EachItsOwn /\ RemoteAssumption
    BY RemoteAssumption, Zenon DEF Inv
  <1>1. TypeOK'
    BY <1>0, EndsType, Zenon
  <1>2. /\ pc'[c] = "idle" /\ op'[c] = None /\ reply'[c] = "none"
        /\ \A d \in Clients \ {c} : /\ pc'[d] = pc[d] /\ op'[d] = op[d] /\ base'[d] = base[d]
                                    /\ next'[d] = next[d] /\ reply'[d] = reply[d]
                                    /\ Request(d)' = Request(d)
        /\ \A u \in Calls : answer'[u] = IF u = op[c] THEN a ELSE answer[u]
        /\ UNCHANGED <<binding, version, file, receipts, net>>
    BY <1>0, EndsLocal, Zenon
  <1>3. None \notin Calls
    BY RemoteAssumption, Zenon DEF Calls
  <1>4. \A m \in net : m.id \in Calls
    BY <1>0, Zenon DEF TypeOK, Commit
  <1>5. EachItsOwn'
    BY <1>0, <1>2, <1>3 DEF EachItsOwn
  <1>6. SentOnce'
    <2>1. \A d \in Clients, m \in net : op'[d] = m.id => d # c
      BY <1>2, <1>3, <1>4
    <2> QED
      BY <1>2, <1>4, <2>1 DEF Inv, SentOnce
  <1>7. AllComputed'
    <2>1. \A m \in net : Computed(m)'
      BY <1>2, Zenon DEF Inv, AllComputed, Computed
    <2>2. ASSUME NEW d \in Clients, pc'[d] \in InFlight
          PROVE  Computed(Request(d))' /\ (op'[d] \in Opens => next'[d].binding = binding'[d])
      <3>1. d # c /\ pc[d] \in InFlight
        BY <1>2, <2>2, Zenon DEF InFlight
      <3>2. Computed(Request(d)) /\ (op[d] \in Opens => next[d].binding = binding[d])
        BY <3>1, Zenon DEF Inv, AllComputed
      <3> QED
        BY <1>2, <3>1, <3>2, Zenon DEF Computed
    <2> QED
      BY <1>2, <2>1, <2>2, Zenon DEF AllComputed
  <1>8. Performed'
    BY <1>2, Zenon DEF Inv, Performed
  <1>9. Answered'
    BY <1>2 DEF Inv, Answered
  <1>10. StillOpen'
    BY <1>2, <1>4 DEF Inv, StillOpen, MayEnd
  <1>11. OpenedIsBound'
    BY <1>2 DEF Inv, OpenedIsBound, Bound, Present, Ends
  <1> QED
    BY <1>1, <1>5, <1>6, <1>7, <1>8, <1>9, <1>10, <1>11, Zenon DEF Inv

-----------------------------------------------------------------------------
(* How calls end: each ending is answered truthfully.                       *)

\* ok only when the update is in the file, no and same only when it never will be.
Truthful(c, a) ==
  /\ Ends(c, a) /\ MayEnd(c, a)
  /\ c \in opened' \ opened => Bound(c)
  /\ op[c] \in Updates /\ a = "ok" => Contains(file.log, op[c])
  /\ op[c] \in Updates /\ a \in {"no", "same"} => ~ Contains(file.log, op[c])

\* Until it is sent, a request is nowhere and its update not in the file.
LEMMA Unsent ==
  ASSUME Inv, NEW c \in Clients, pc[c] \in {"reading", "sending"}
  PROVE  /\ \A m \in net : m.id # op[c]
         /\ op[c] \in Updates => ~ Contains(file.log, op[c])
  <1>1. \A m \in net : m.id # op[c]
    BY Zenon DEF Inv, SentOnce
  <1>2. ASSUME op[c] \in Updates, Contains(file.log, op[c])
        PROVE  FALSE
    BY <1>1, <1>2, Zenon DEF Inv, Performed
  <1> QED
    BY <1>1, <1>2, Zenon

\* ErrStoreUnavailable and ErrStoreUncertain promise nothing.
LEMMA MaybeIsTruthful ==
  ASSUME NEW c \in Clients, Fail(c, "maybe")
  PROVE  Truthful(c, "maybe")
  BY Zenon DEF Fail, Truthful, Ends, MayEnd

\* A call that is refused before it sent anything left nothing.
LEMMA UnsentIsTruthful ==
  ASSUME Inv, NEW c \in Clients, pc[c] = "reading", NEW a \in {"no", "maybe"}, Fail(c, a)
  PROVE  Truthful(c, a)
  <1>1. Ends(c, a) /\ opened' = opened
    BY Zenon DEF Fail, Ends
  <1> QED
    BY <1>1, Unsent, Zenon DEF Truthful, MayEnd

\* A client that knows its exact commit happened answers accordingly.
LEMMA CommittedIsTruthful ==
  ASSUME Inv, NEW c \in Clients, pc[c] \in {"committing", "resolving"}, Request(c) \in receipts, Committed(c)
  PROVE  \E a \in {"ok", "same"} : Truthful(c, a)
  <1> DEFINE a == IF op[c] \in Opens \/ Contains(next[c].log, op[c]) THEN "ok" ELSE "same"
  <1>1. Return(c, a) /\ opened' = (IF op[c] \in Opens THEN opened \cup {c} ELSE opened) /\ UNCHANGED <<binding, service, net>>
    BY Zenon DEF Committed
  <1>2. Ends(c, a)
    BY <1>1, Zenon DEF Ends
  <1>3. /\ Request(c).id = op[c] /\ Request(c).content = next[c]
        /\ Request(c) \in net
        /\ Request(c).content.binding = file.binding
        /\ IsPrefix(Request(c).content.log, file.log)
        /\ Request(c).expected < version /\ Request(c).expected \in Nat /\ version \in Nat
    BY RemoteAssumption DEF Inv, Performed, Request, TypeOK, Commit
  <1>4. \A m \in net : m.id = op[c] => m = Request(c)
    BY <1>3, Zenon DEF Inv, SentOnce
  <1>5. MayEnd(c, a)
    BY <1>4, Zenon DEF MayEnd
  <1>6. c \in opened' \ opened => Bound(c)
    <2>1. op[c] \in Opens => next[c].binding = binding[c]
      BY Zenon DEF Inv, AllComputed, InFlight
    <2>2. Present
      BY <1>3, RemoteAssumption DEF Present, Inv, TypeOK
    <2> QED
      BY <1>1, <1>3, <2>1, <2>2, Zenon DEF Bound
  <1>7. ASSUME op[c] \in Updates, a = "ok"
        PROVE  Contains(file.log, op[c])
    <2>1. Contains(next[c].log, op[c])
      BY <1>7, RemoteAssumption, Zenon
    <2>2. next[c].log \in Seq(Updates) /\ file.log \in Seq(Updates)
      BY Zenon DEF Inv, TypeOK, Content
    <2> QED
      BY <1>3, <2>1, <2>2, PrefixContains, Zenon
  <1>8. ASSUME op[c] \in Updates, a = "same", Contains(file.log, op[c])
        PROVE  FALSE
    <2>1. PICK r \in receipts : r.id = op[c] /\ Contains(r.content.log, op[c])
      BY <1>8, Zenon DEF Inv, Performed
    <2>2. r = Request(c)
      BY <1>4, <2>1, Zenon DEF Inv, Performed
    <2> QED
      BY <1>3, <1>8, <2>1, <2>2, Zenon
  <1>9. a \in {"ok", "same"} /\ a # "no"
    BY Zenon
  <1> QED
    BY <1>2, <1>5, <1>6, <1>7, <1>8, <1>9, Zenon DEF Truthful

\* A file that is there is adopted only when it is exactly bound.
LEMMA AdoptIsTruthful ==
  ASSUME Inv, NEW c \in Clients, op[c] \in Opens, Adopt(c)
  PROVE  \E a \in {"ok", "no", "maybe"} : Truthful(c, a)
  <1>1. op[c] \notin Updates
    BY RemoteAssumption, Zenon
  <1>2. \A m \in net : m.id = op[c] /\ m.expected = version => version = 0
    BY Zenon DEF Inv, AllComputed, Computed
  <1>3. CASE Bound(c)
    <2>1. version # 0
      BY <1>3 DEF Bound, Present, Inv, TypeOK
    <2>2. Return(c, "ok") /\ opened' = opened \cup {c} /\ UNCHANGED <<binding, service, net>>
      BY <1>3, Zenon DEF Adopt
    <2>3. Truthful(c, "ok")
      BY <1>1, <1>2, <1>3, <2>1, <2>2, Zenon DEF Truthful, Ends, MayEnd
    <2> QED
      BY <2>3, Zenon
  <1>4. CASE ~ Bound(c) /\ ~ Present
    <2>1. Fail(c, "maybe")
      BY <1>4, Zenon DEF Adopt
    <2> QED
      BY <2>1, MaybeIsTruthful, Zenon
  <1>5. CASE ~ Bound(c) /\ Present
    <2>0. version # 0
      BY <1>5 DEF Present
    <2>1. Return(c, "no") /\ opened' = opened /\ UNCHANGED <<binding, service, net>>
      BY <1>5, Zenon DEF Adopt, Fail
    <2>2. Truthful(c, "no")
      BY <1>1, <1>2, <1>5, <2>0, <2>1, Zenon DEF Truthful, Ends, MayEnd
    <2> QED
      BY <2>2, Zenon
  <1> QED
    BY <1>3, <1>4, <1>5, Zenon

\* A client that dies answers nothing.
LEMMA CrashIsTruthful ==
  ASSUME Inv, NEW c \in Clients, Crash(c)
  PROVE  Truthful(c, "maybe")
  <1>1. answer' = [answer EXCEPT ![op[c]] = "maybe"]
    BY Zenon DEF Crash, Inv, TypeOK
  <1> QED
    BY <1>1, Zenon DEF Crash, Truthful, Ends, MayEnd, Return

\* Every step that ends a call answers it truthfully.
LEMMA CallEnds ==
  ASSUME Inv, NEW c \in Clients, Advance(c) \/ BadReply(c), pc'[c] = "idle"
  PROVE  \E a \in {"ok", "same", "no", "maybe"} : Truthful(c, a)
  <1> USE DEF Inv
  <1>0. DOMAIN pc = Clients
    BY Zenon DEF TypeOK
  <1>1. CASE ReadForUpdate(c)
    <2>1. pc[c] = "reading" /\ \E a \in {"no", "maybe"} : Fail(c, a)
      BY <1>0, <1>1, Zenon DEF ReadForUpdate, Prepare
    <2> QED
      BY <2>1, UnsentIsTruthful, Zenon
  <1>2. CASE ReadForOpen(c)
    <2>1. op[c] \in Opens /\ Adopt(c)
      BY <1>0, <1>2, Zenon DEF ReadForOpen, Prepare
    <2> QED
      BY <2>1, AdoptIsTruthful, Zenon
  <1>3. CASE ReadAgain(c)
    BY <1>3, AdoptIsTruthful, Zenon DEF ReadAgain, EachItsOwn
  <1>4. CASE ReadFails(c) \/ RefuseVersion(c) \/ BadReply(c)
    BY <1>4, MaybeIsTruthful, Zenon DEF ReadFails, RefuseVersion, BadReply
  <1>5. CASE Send(c) \/ Timeout(c)
    BY <1>0, <1>5, Zenon DEF Send, Timeout
  <1>6. CASE Receive(c)
    <2>1. CASE reply[c] = "committed" /\ Committed(c)
      BY <1>6, <2>1, CommittedIsTruthful, Zenon DEF Receive, Answered
    <2>2. CASE Fail(c, "maybe")
      BY <2>2, MaybeIsTruthful, Zenon
    <2>3. CASE reply[c] = "conflict" /\ op[c] \in Updates /\ Fail(c, "no")
      <3>1. /\ \A m \in net : m.id = op[c] => m = Request(c)
            /\ base[c] < version /\ Request(c) \notin receipts
            /\ Request(c).expected = base[c] /\ version \in Nat /\ base[c] \in Nat
        BY <2>3, RemoteAssumption DEF SentOnce, Answered, Request, TypeOK
      <3>2. MayEnd(c, "no")
        BY <3>1 DEF MayEnd
      <3>3. ~ Contains(file.log, op[c])
        BY <2>3, <3>1, Zenon DEF Performed
      <3>4. Ends(c, "no") /\ opened' = opened
        BY <2>3, Zenon DEF Fail, Ends
      <3>5. Truthful(c, "no")
        BY <3>2, <3>3, <3>4, Zenon DEF Truthful
      <3> QED
        BY <3>5, Zenon
    <2>4. CASE pc' = [pc EXCEPT ![c] = "rereading"]
      BY <1>0, <2>4, Zenon
    <2> QED
      BY <1>6, <2>1, <2>2, <2>3, <2>4, Zenon DEF Receive
  <1>7. CASE resolve(c)
    <2>1. CASE (\E r \in receipts : validRemoteReceipt(r, Request(c))) /\ Committed(c)
      BY <1>7, <2>1, CommittedIsTruthful, Zenon DEF resolve, validRemoteReceipt
    <2>2. CASE Fail(c, "maybe")
      BY <2>2, MaybeIsTruthful, Zenon
    <2> QED
      BY <1>7, <2>1, <2>2, Zenon DEF resolve
  <1> QED
    BY <1>1, <1>2, <1>3, <1>4, <1>5, <1>6, <1>7, Zenon DEF Advance

\* A truthful end keeps the invariant.
LEMMA TruthfulInv ==
  ASSUME Inv, NEW c \in Clients, NEW a \in {"ok", "same", "no", "maybe"}, Truthful(c, a)
  PROVE  Inv'
  BY EndsInv, Zenon DEF Truthful

-----------------------------------------------------------------------------
(* A call goes on.                                                          *)

\* What a step inside a call leaves alone: the other clients, the service, and what
\* the calls have been told.
GoesOn(c) ==
  /\ \A d \in Clients \ {c} : /\ pc'[d] = pc[d] /\ op'[d] = op[d] /\ base'[d] = base[d]
                              /\ next'[d] = next[d] /\ reply'[d] = reply[d]
  /\ op' = op /\ answer' = answer /\ opened' = opened /\ binding' = binding
  /\ version' = version /\ file' = file /\ receipts' = receipts

\* The request of another client is the same after the step.
LEMMA OthersGoOn ==
  ASSUME NEW c \in Clients, GoesOn(c)
  PROVE  /\ \A d \in Clients \ {c} : Request(d)' = Request(d)
         /\ \A r : Computed(r)' <=> Computed(r)
         /\ \A d : Bound(d)' <=> Bound(d)
  BY Zenon DEF GoesOn, Request, Computed, Bound, Present

\* withSnapshot and OpenRemote take a call of their own.
LEMMA CallInv ==
  ASSUME Inv, NEW c \in Clients, NEW u \in Calls, Call(c, u)
  PROVE  Inv'
  <1> USE DEF Inv
  <1>1. /\ pc[c] = "idle" /\ op[c] = None /\ reply[c] = "none" /\ answer[u] = "none"
        /\ pc' = [pc EXCEPT ![c] = "reading"] /\ op' = [op EXCEPT ![c] = u]
        /\ answer' = [answer EXCEPT ![u] = "pending"]
        /\ UNCHANGED <<binding, base, next, opened, version, file, receipts, net, reply>>
    BY Zenon DEF Call, EachItsOwn, Answered, service, TypeOK
  <1>2. TypeOK'
    BY <1>1, Zenon DEF TypeOK
  <1>3. /\ pc'[c] = "reading" /\ op'[c] = u /\ answer'[u] = "pending"
        /\ \A d \in Clients \ {c} : pc'[d] = pc[d] /\ op'[d] = op[d] /\ Request(d)' = Request(d)
        /\ \A v \in Calls \ {u} : answer'[v] = answer[v]
    BY <1>1, Zenon DEF TypeOK, Request
  <1>4. \A d \in Clients : op[d] # u
    BY <1>1, RemoteAssumption DEF EachItsOwn, Calls, TypeOK
  <1>5. EachItsOwn'
    BY <1>1, <1>3, <1>4, RemoteAssumption DEF EachItsOwn, Calls
  <1>6. \A m \in net : m.id \in Calls /\ m.id # u
    BY <1>1, Zenon DEF SentOnce, TypeOK, Commit
  <1>7. SentOnce'
    BY <1>1, <1>3, <1>6 DEF SentOnce
  <1>8. AllComputed'
    BY <1>1, <1>3, ZenonT(30) DEF AllComputed, Computed, InFlight
  <1>9. Performed' /\ OpenedIsBound'
    BY <1>1, Zenon DEF Performed, OpenedIsBound, Bound, Present
  <1>10. Answered'
    BY <1>1, <1>3 DEF Answered
  <1>11. StillOpen'
    BY <1>1, <1>3, <1>6 DEF StillOpen
  <1> QED
    BY <1>2, <1>5, <1>7, <1>8, <1>9, <1>10, <1>11, Zenon

\* The operation is computed from the file as it is now.
LEMMA PrepareInv ==
  ASSUME Inv, NEW c \in Clients, NEW new, pc[c] = "reading", Prepare(c, new), new \in Content,
         /\ op[c] \in Updates => /\ Bound(c) /\ new.binding = file.binding
                                 /\ new.log \in {file.log, Append(file.log, op[c])}
         /\ op[c] \in Opens => version = 0 /\ new = Empty(binding[c])
  PROVE  Inv'
  <1> USE DEF Inv
  <1>1. /\ pc' = [pc EXCEPT ![c] = "sending"]
        /\ base' = [base EXCEPT ![c] = version] /\ next' = [next EXCEPT ![c] = new]
        /\ UNCHANGED <<binding, op, opened, version, file, receipts, net, reply, answer>>
    BY Zenon DEF Prepare, service
  <1>2. TypeOK'
    BY <1>1, Zenon DEF TypeOK
  <1>3. pc'[c] = "sending" /\ base'[c] = version /\ next'[c] = new /\ GoesOn(c)
    BY <1>1, Zenon DEF TypeOK, GoesOn
  <1>4. op[c] \in Calls /\ answer[op[c]] = "pending"
    BY Zenon DEF EachItsOwn
  <1>5. EachItsOwn'
    BY <1>1, <1>3 DEF EachItsOwn, GoesOn
  <1>6. SentOnce'
    <2>1. \A m \in net, d \in Clients : op[d] = m.id => d # c
      BY Unsent, Zenon
    <2>2. \A d \in Clients \ {c} : pc'[d] = pc[d] /\ Request(d)' = Request(d)
      BY <1>3, OthersGoOn, Zenon DEF GoesOn
    <2>3. \A m \in net :
            /\ m.expected < MaxVersion /\ answer[m.id] # "none" /\ \A n \in net : n.id = m.id => n = m
            /\ \A d \in Clients : op[d] = m.id =>
                 pc'[d] \in {"committing", "resolving", "rereading"} /\ m = Request(d)'
      BY <2>1, <2>2 DEF SentOnce
    <2> QED
      BY <1>1, <2>3, Zenon DEF SentOnce
  <1>7. AllComputed'
    <2>1. Request(c)' = [id |-> op[c], expected |-> version, content |-> new]
      BY <1>1, <1>3, Zenon DEF Request
    <2>2. version \in Nat /\ (version = 0 => file.log = <<>>)
      BY RemoteAssumption DEF TypeOK, Performed
    <2>3. Computed(Request(c)')
      BY <2>1, <2>2, <1>4, RemoteAssumption DEF Computed, Calls, Bound, Present, Empty
    <2>4. op[c] \in Opens => new.binding = binding[c]
      BY DEF Empty
    <2>5. /\ \A d \in Clients \ {c} : Request(d)' = Request(d)
          /\ \A r : Computed(r)' <=> Computed(r)
      BY <1>3, OthersGoOn, Zenon
    <2>6. ASSUME NEW d \in Clients, pc'[d] \in InFlight
          PROVE  Computed(Request(d))' /\ (op'[d] \in Opens => next'[d].binding = binding'[d])
      <3>1. CASE d = c
        BY <1>1, <1>3, <2>3, <2>4, <2>5, <3>1, Zenon
      <3>2. CASE d # c
        BY <1>1, <1>3, <2>5, <2>6, <3>2, ZenonT(30) DEF AllComputed, GoesOn
      <3> QED
        BY <3>1, <3>2, Zenon
    <2>7. \A m \in net' : Computed(m)'
      BY <1>1, <2>5, Zenon DEF AllComputed
    <2> QED
      BY <2>6, <2>7, Zenon DEF AllComputed
  <1>8. Performed' /\ OpenedIsBound' /\ StillOpen'
    BY <1>1, Zenon DEF Performed, OpenedIsBound, Bound, Present, StillOpen
  <1>9. Answered'
    BY <1>1, <1>3, OthersGoOn, ZenonT(30) DEF Answered, GoesOn
  <1> QED
    BY <1>2, <1>5, <1>6, <1>7, <1>8, <1>9, Zenon

\* The request goes out.
LEMMA SendInv ==
  ASSUME Inv, NEW c \in Clients, Send(c)
  PROVE  Inv'
  <1> USE DEF Inv
  <1>1. /\ pc[c] = "sending" /\ base[c] < MaxVersion
        /\ pc' = [pc EXCEPT ![c] = "committing"] /\ net' = net \cup {Request(c)}
        /\ UNCHANGED <<binding, op, base, next, opened, version, file, receipts, reply, answer>>
    BY Zenon DEF Send, service
  <1>2. op[c] \in Calls /\ answer[op[c]] = "pending" /\ reply[c] = "none"
    BY <1>1, Zenon DEF EachItsOwn, Answered, TypeOK
  <1>3. Request(c) \in Commit
    BY <1>2, RemoteAssumption DEF Request, Commit, TypeOK
  <1>4. TypeOK'
    BY <1>1, <1>3, Zenon DEF TypeOK
  <1>5. pc'[c] = "committing" /\ GoesOn(c) /\ \A d \in Clients : Request(d)' = Request(d)
    BY <1>1, Zenon DEF TypeOK, GoesOn, Request
  <1>6. Request(c).id = op[c] /\ Request(c).expected = base[c]
    BY Zenon DEF Request
  <1>7. EachItsOwn'
    BY <1>1, <1>5 DEF EachItsOwn, GoesOn
  <1>8. SentOnce'
    <2>1. ASSUME NEW m \in net
          PROVE  SentOnce!(m)'
      <3>1. m.id # op[c]
        BY <1>1, Unsent, Zenon
      <3> QED
        BY <1>1, <1>5, <1>6, <3>1 DEF SentOnce, GoesOn
    <2>2. SentOnce!(Request(c))'
      <3>1. \A n \in net' : n.id = Request(c).id => n = Request(c)
        BY <1>1, <1>6, Unsent, Zenon
      <3>2. \A d \in Clients : op[d] = op[c] => d = c
        BY <1>2, RemoteAssumption, Zenon DEF EachItsOwn, Calls
      <3> QED
        BY <1>1, <1>2, <1>5, <1>6, <3>1, <3>2, Zenon
    <2> QED
      BY <1>1, <1>5, <2>1, <2>2, ZenonT(30) DEF SentOnce
  <1>9. AllComputed'
    BY <1>1, <1>5, OthersGoOn, ZenonT(30) DEF AllComputed, InFlight, GoesOn
  <1>10. Performed' /\ OpenedIsBound'
    BY <1>1, Zenon DEF Performed, OpenedIsBound, Bound, Present
  <1>11. Answered'
    BY <1>1, <1>2, <1>5 DEF Answered, GoesOn
  <1>12. StillOpen'
    BY <1>1, <1>2, <1>6, Zenon DEF StillOpen
  <1> QED
    BY <1>4, <1>7, <1>8, <1>9, <1>10, <1>11, <1>12, Zenon

\* The client stops waiting for the response: the commit is resolved, or the file
\* read again.
LEMMA StopsWaitingInv ==
  ASSUME Inv, NEW c \in Clients, NEW to \in {"resolving", "rereading"},
         pc[c] \in {"sending", "committing"}, to = "rereading" => pc[c] = "committing" /\ op[c] \in Opens,
         pc' = [pc EXCEPT ![c] = to],
         reply' = [reply EXCEPT ![c] = "none"],
         UNCHANGED <<binding, op, base, next, opened, service, net, answer>>
  PROVE  Inv'
  <1> USE DEF Inv
  <1>1. UNCHANGED <<binding, op, base, next, opened, version, file, receipts, net, answer>>
    BY Zenon DEF service
  <1>2. TypeOK'
    BY <1>1, Zenon DEF TypeOK
  <1>3. /\ pc'[c] = to /\ reply'[c] = "none" /\ GoesOn(c)
        /\ \A d \in Clients : Request(d)' = Request(d)
    BY <1>1, Zenon DEF TypeOK, GoesOn, Request
  <1>4. EachItsOwn'
    BY <1>1, <1>3 DEF EachItsOwn, GoesOn
  <1>5. SentOnce'
    BY <1>1, <1>3 DEF SentOnce, GoesOn
  <1>6. AllComputed'
    BY <1>1, <1>3, OthersGoOn, ZenonT(30) DEF AllComputed, InFlight, GoesOn
  <1>7. Performed' /\ OpenedIsBound' /\ StillOpen'
    BY <1>1, Zenon DEF Performed, OpenedIsBound, Bound, Present, StillOpen
  <1>8. Answered'
    BY <1>1, <1>3, ZenonT(30) DEF Answered, GoesOn
  <1> QED
    BY <1>2, <1>4, <1>5, <1>6, <1>7, <1>8, Zenon

-----------------------------------------------------------------------------
(* The service.                                                             *)

\* The service performs a request that expects the version the file has.
Performs(m) ==
  /\ m.expected = version /\ m \notin receipts
  /\ version' = version + 1 /\ file' = m.content /\ receipts' = receipts \cup {m}
  /\ Reply(m, "committed")
  /\ UNCHANGED <<binding, client, opened, net, answer>>

\* It answers a request and leaves the file alone.
Responds(m, kind) ==
  /\ kind = "committed" => m \in receipts
  /\ kind = "conflict" => m \notin receipts /\ m.expected # version
  /\ Reply(m, kind)
  /\ UNCHANGED <<binding, client, opened, service, net, answer>>

\* The service does one or the other with a request.
LEMMA DeliverCases ==
  ASSUME NEW m, Deliver(m)
  PROVE  Performs(m) \/ \E kind \in {"committed", "conflict", "rejected"} : Responds(m, kind)
  BY Zenon DEF Deliver, Performs, Responds

\* A response alone keeps the invariant.
LEMMA RespondsInv ==
  ASSUME Inv, NEW m \in net, NEW kind \in {"committed", "conflict", "rejected"}, Responds(m, kind)
  PROVE  Inv'
  <1> USE DEF Inv
  <1>1. UNCHANGED <<binding, pc, op, base, next, opened, version, file, receipts, net, answer>>
    BY Zenon DEF Responds, client, service
  <1>2. \A d \in Clients : Request(d)' = Request(d)
    BY <1>1, Zenon DEF Request
  <1>3. reply' \in [Clients -> {"none", "committed", "conflict", "rejected"}]
    BY Zenon DEF Responds, Reply, TypeOK
  <1>4. TypeOK'
    BY <1>1, <1>3, Zenon DEF TypeOK
  <1>5. EachItsOwn' /\ Performed' /\ OpenedIsBound' /\ StillOpen'
    BY <1>1, Zenon DEF EachItsOwn, Performed, OpenedIsBound, Bound, Present, StillOpen
  <1>6. SentOnce'
    BY <1>1, <1>2 DEF SentOnce
  <1>7. AllComputed'
    BY <1>1, <1>2, ZenonT(30) DEF AllComputed, Computed
  <1>8. ASSUME NEW c \in Clients
        PROVE  Answered!(c)'
    <2>1. CASE pc[c] = "committing" /\ op[c] = m.id
      <3>1. m = Request(c) /\ reply'[c] = kind
        BY <2>1, Zenon DEF SentOnce, Responds, Reply
      <3>2. m.expected <= version /\ m.expected = base[c] /\ version \in Nat /\ base[c] \in Nat
        <4>1. m.expected <= version /\ m.expected = base[c]
          BY <3>1, Zenon DEF AllComputed, Computed, Request
        <4>2. version \in Nat /\ base[c] \in Nat
          BY RemoteAssumption DEF TypeOK
        <4> QED
          BY <4>1, <4>2, Zenon
      <3> QED
        BY <1>1, <1>2, <2>1, <3>1, <3>2 DEF Responds
    <2>2. CASE ~ (pc[c] = "committing" /\ op[c] = m.id)
      <3>1. reply'[c] = reply[c]
        BY <2>2, Zenon DEF Responds, Reply
      <3> QED
        BY <1>1, <1>2, <3>1, Zenon DEF Answered
    <2> QED
      BY <2>1, <2>2, Zenon
  <1>9. Answered'
    BY <1>8, Zenon DEF Answered
  <1> QED
    BY <1>4, <1>5, <1>6, <1>7, <1>9, Zenon

\* What the new content keeps of the old: it is bound to the same root, and it is
\* the old history or the old history and the request's own update.
LEMMA PerformsGrows ==
  ASSUME Inv, NEW m \in net, Performs(m)
  PROVE  /\ version \in Nat /\ version' = version + 1 /\ version < MaxVersion
         /\ version > 0 => file'.binding = file.binding
         /\ file.log \in Seq(Updates) /\ file'.log \in Seq(Updates)
         /\ IsPrefix(file.log, file'.log)
         /\ file'.log = file.log \/ (m.id \in Updates /\ file'.log = Append(file.log, m.id))
         /\ \A u : Contains(file'.log, u) => Contains(file.log, u) \/ (u = m.id /\ Contains(m.content.log, m.id))
  <1>1. /\ m.expected = version /\ version' = version + 1 /\ file' = m.content
        /\ version \in Nat /\ version < MaxVersion
    BY RemoteAssumption DEF Inv, Performs, SentOnce, TypeOK
  <1>2. file.log \in Seq(Updates) /\ m.content.log \in Seq(Updates) /\ Computed(m)
    BY Zenon DEF Inv, TypeOK, Commit, Content, AllComputed
  <1>3. m.content.log = file.log \/ (m.id \in Updates /\ m.content.log = Append(file.log, m.id))
    BY <1>1, <1>2, Zenon DEF Computed
  <1>4. IsPrefix(file.log, m.content.log)
    <2>1. CASE m.content.log = file.log
      <3>1. Len(file.log) <= Len(file.log)
        BY <1>2
      <3> QED
        BY <1>2, <2>1, <3>1, PrefixPositions, Zenon
    <2>2. CASE m.id \in Updates /\ m.content.log = Append(file.log, m.id)
      BY <1>2, <2>2, PrefixOfAppend, Zenon
    <2> QED
      BY <1>3, <2>1, <2>2, Zenon
  <1>5. \A u : Contains(m.content.log, u) => Contains(file.log, u) \/ (u = m.id /\ Contains(m.content.log, m.id))
    <2>1. CASE m.content.log = file.log
      BY <2>1, Zenon
    <2>2. CASE m.id \in Updates /\ m.content.log = Append(file.log, m.id)
      <3>1. \A u : Contains(Append(file.log, m.id), u) <=> Contains(file.log, u) \/ u = m.id
        BY <1>2, <2>2, AppendContains
      <3> QED
        BY <2>2, <3>1, Zenon
    <2> QED
      BY <1>3, <2>1, <2>2, Zenon
  <1> QED
    BY <1>1, <1>2, <1>3, <1>4, <1>5, Zenon DEF Computed

\* A commit keeps the invariant.
LEMMA PerformsInv ==
  ASSUME Inv, NEW m \in net, Performs(m)
  PROVE  Inv'
  <1> USE DEF Inv
  <1>1. /\ UNCHANGED <<binding, pc, op, base, next, opened, net, answer>>
        /\ m.expected = version /\ m \notin receipts /\ receipts' = receipts \cup {m} /\ file' = m.content
    BY Zenon DEF Performs, client
  <1>2. \A d \in Clients : Request(d)' = Request(d) /\ Request(d).expected = base[d]
    BY <1>1, Zenon DEF Request
  <1>3. reply' \in [Clients -> {"none", "committed", "conflict", "rejected"}]
    BY Zenon DEF Performs, Reply, TypeOK
  <1>4. TypeOK'
    <2>1. version' \in 0..MaxVersion /\ file' \in Content /\ receipts' \subseteq Commit
      <3>1. version' \in 0..MaxVersion
        BY PerformsGrows, RemoteAssumption
      <3>2. file' \in Content /\ receipts' \subseteq Commit
        BY <1>1, Zenon DEF TypeOK, Commit
      <3> QED
        BY <3>1, <3>2, Zenon
    <2> QED
      BY <1>1, <1>3, <2>1, Zenon DEF TypeOK
  <1>5. EachItsOwn'
    BY <1>1, Zenon DEF EachItsOwn
  <1>6. SentOnce'
    BY <1>1, <1>2 DEF SentOnce
  <1>7. ASSUME NEW r, Computed(r), r.expected \in Nat
        PROVE  Computed(r)' /\ r.expected < version'
    <2>1. r.expected <= version /\ version \in Nat /\ version' = version + 1
      BY <1>7, PerformsGrows, Zenon DEF Computed
    <2>2. /\ r.expected < version' /\ r.expected <= version' /\ r.expected # version'
          /\ r.expected > 0 => version > 0
      BY <1>7, <2>1
    <2> QED
      BY <1>7, <2>2, PerformsGrows, Zenon DEF Computed
  <1>8. AllComputed'
    <2>1. \A n \in net : n.expected \in Nat
      BY Zenon DEF TypeOK, Commit
    <2>2. \A d \in Clients : base[d] \in Nat
      BY RemoteAssumption DEF TypeOK
    <2> QED
      BY <1>1, <1>2, <1>7, <2>1, <2>2, Zenon DEF AllComputed
  <1>9. Performed'
    <2>1. ASSUME NEW r \in receipts'
          PROVE  /\ r \in net' /\ r.expected < version'
                 /\ r.content.binding = file'.binding /\ IsPrefix(r.content.log, file'.log)
      <3>1. CASE r = m
        <4>1. IsPrefix(m.content.log, m.content.log)
          BY PerformsGrows, <1>1 DEF IsPrefix
        <4> QED
          BY <1>1, <3>1, <4>1, PerformsGrows
      <3>2. CASE r \in receipts
        <4>1. /\ r \in net /\ r.expected < version /\ r.content.binding = file.binding
              /\ IsPrefix(r.content.log, file.log)
              /\ r.expected \in Nat /\ r.content.log \in Seq(Updates)
          BY <3>2, Zenon DEF Performed, TypeOK, Commit, Content
        <4>2. IsPrefix(r.content.log, file'.log)
          BY <4>1, PerformsGrows, PrefixTransitive, Zenon
        <4> QED
          BY <1>1, <4>1, <4>2, PerformsGrows
      <3> QED
        BY <1>1, <3>1, <3>2, Zenon
    <2>2. ASSUME NEW u \in Updates, Contains(file'.log, u)
          PROVE  \E r \in receipts' : r.id = u /\ Contains(r.content.log, u)
      <3>1. CASE Contains(file.log, u)
        BY <1>1, <3>1, Zenon DEF Performed
      <3>2. CASE u = m.id /\ Contains(m.content.log, m.id)
        BY <1>1, <3>2, Zenon
      <3> QED
        BY <2>2, <3>1, <3>2, PerformsGrows, Zenon
    <2>3. version' # 0
      BY PerformsGrows
    <2> QED
      BY <2>1, <2>2, <2>3, Zenon DEF Performed
  <1>10. ASSUME NEW c \in Clients
         PROVE  Answered!(c)'
    <2>1. CASE pc[c] = "committing" /\ op[c] = m.id
      <3>1. m = Request(c) /\ reply'[c] = "committed"
        BY <2>1, Zenon DEF SentOnce, Performs, Reply
      <3> QED
        BY <1>1, <1>2, <2>1, <3>1, Zenon
    <2>2. CASE ~ (pc[c] = "committing" /\ op[c] = m.id)
      <3>1. reply'[c] = reply[c]
        BY <2>2, Zenon DEF Performs, Reply
      <3>2. base[c] \in Nat
        BY RemoteAssumption DEF TypeOK
      <3> QED
        <4>1. base[c] < version => base[c] < version' /\ base[c] # version
          BY <3>2, PerformsGrows
        <4>2. Request(c)' = Request(c) /\ (base[c] # version => Request(c) # m)
          BY <1>1, <1>2, Zenon
        <4> QED
          BY <1>1, <3>1, <4>1, <4>2, Zenon DEF Answered
    <2> QED
      BY <2>1, <2>2, Zenon
  <1>11. Answered'
    BY <1>10, Zenon DEF Answered
  <1>12. StillOpen'
    <2>1. \A n \in net : n.expected \in Nat /\ n.expected < version'
      BY <1>7, Zenon DEF AllComputed, TypeOK, Commit
    <2>2. \A n \in net : n.expected # version'
      BY <2>1, PerformsGrows
    <2> QED
      BY <1>1, <2>2, Zenon DEF StillOpen
  <1>13. OpenedIsBound'
    <2>1. Present'
      BY <1>1, PerformsGrows, RemoteAssumption DEF Present, TypeOK
    <2>2. \A c \in opened : Bound(c) /\ Present
      BY Zenon DEF OpenedIsBound, Bound
    <2>3. Present => version > 0
      BY RemoteAssumption DEF Present
    <2>4. \A c \in opened : file'.binding = binding[c]
      BY <2>2, <2>3, PerformsGrows, Zenon DEF Bound
    <2> QED
      BY <1>1, <2>1, <2>4, Zenon DEF OpenedIsBound, Bound
  <1> QED
    BY <1>4, <1>5, <1>6, <1>8, <1>9, <1>11, <1>12, <1>13, Zenon

-----------------------------------------------------------------------------
(* The invariant.                                                           *)

\* The file is absent, and no client is in a call.
LEMMA InitInv ==
  ASSUME Init
  PROVE  Inv
  <1> USE DEF Init
  <1>1. Empty(None) \in Content /\ Empty(None).log = <<>>
    BY EmptyHistory, Zenon DEF Empty, Content
  <1>2. TypeOK
    BY <1>1, RemoteAssumption DEF TypeOK
  <1>3. EachItsOwn /\ SentOnce /\ StillOpen /\ OpenedIsBound
    BY Zenon DEF EachItsOwn, SentOnce, StillOpen, OpenedIsBound
  <1>4. AllComputed /\ Answered
    BY Zenon DEF AllComputed, Answered, InFlight
  <1>5. Performed
    BY <1>1, EmptyHistory, Zenon DEF Performed
  <1> QED
    BY <1>2, <1>3, <1>4, <1>5, Zenon DEF Inv

\* A step inside a call either goes on or ends the call truthfully.
LEMMA AdvanceInv ==
  ASSUME Inv, NEW c \in Clients, Advance(c) \/ BadReply(c)
  PROVE  Inv'
  <1>1. CASE pc'[c] = "idle"
    BY <1>1, CallEnds, TruthfulInv, Zenon
  <1>2. CASE pc'[c] # "idle"
    <2>0. DOMAIN pc = Clients
      BY Zenon DEF Inv, TypeOK
    <2>1. ~ \E a : Fail(c, a) \/ Return(c, a)
      BY <1>2, <2>0, Zenon DEF Fail, Return
    <2>2. ~ Committed(c) /\ ~ Adopt(c)
      BY <2>1, Zenon DEF Committed, Adopt
    <2>3. CASE ReadForUpdate(c)
      <3>1. PICK log \in {file.log, Append(file.log, op[c])} :
              Bound(c) /\ Prepare(c, [binding |-> file.binding, log |-> log])
        BY <2>1, <2>3, Zenon DEF ReadForUpdate
      <3>2. pc[c] = "reading" /\ op[c] \in Updates /\ op[c] \notin Opens
        BY <2>3, RemoteAssumption, Zenon DEF ReadForUpdate
      <3>3. file.log \in Seq(Updates) /\ file.binding \in Hosts \cup {None}
        BY Zenon DEF Inv, TypeOK, Content
      <3>4. Append(file.log, op[c]) \in Seq(Updates)
        BY <3>2, <3>3, AppendPositions, Zenon
      <3>5. [binding |-> file.binding, log |-> log] \in Content
        BY <3>1, <3>3, <3>4, Zenon DEF Content
      <3> QED
        BY <3>1, <3>2, <3>5, PrepareInv, Zenon
    <2>4. CASE ReadForOpen(c)
      <3>1. /\ pc[c] = "reading" /\ op[c] \in Opens /\ op[c] \notin Updates
            /\ version = 0 /\ Prepare(c, Empty(binding[c]))
        BY <2>2, <2>4, RemoteAssumption, Zenon DEF ReadForOpen
      <3>2. Empty(binding[c]) \in Content
        BY EmptyHistory, Zenon DEF Inv, TypeOK, Content, Empty
      <3> QED
        BY <3>1, <3>2, PrepareInv, Zenon
    <2>5. CASE Send(c)
      BY <2>5, SendInv, Zenon
    <2>6. CASE Timeout(c)
      BY <2>6, StopsWaitingInv, Zenon DEF Timeout
    <2>7. CASE Receive(c)
      BY <2>1, <2>2, <2>7, StopsWaitingInv, Zenon DEF Receive
    <2>8. ~ (ReadAgain(c) \/ ReadFails(c) \/ RefuseVersion(c) \/ resolve(c) \/ BadReply(c))
      BY <2>1, <2>2, Zenon DEF ReadAgain, ReadFails, RefuseVersion, resolve, BadReply
    <2> QED
      BY <2>3, <2>4, <2>5, <2>6, <2>7, <2>8, Zenon DEF Advance
  <1> QED
    BY <1>1, <1>2, Zenon

\* Every step keeps the invariant.
LEMMA NextInv ==
  ASSUME Inv, [Next]_vars
  PROVE  Inv'
  <1>1. CASE \E c \in Clients, u \in Calls : Call(c, u)
    BY <1>1, CallInv, Zenon
  <1>2. CASE \E c \in Clients : Advance(c) \/ BadReply(c)
    BY <1>2, AdvanceInv, Zenon
  <1>3. CASE \E c \in Clients : Crash(c)
    BY <1>3, CrashIsTruthful, TruthfulInv, Zenon
  <1>4. CASE \E m \in net : Deliver(m)
    BY <1>4, DeliverCases, PerformsInv, RespondsInv, Zenon
  <1>5. CASE UNCHANGED vars
    <2>1. UNCHANGED <<binding, pc, op, base, next, reply, answer, opened, version, file, receipts, net>>
      BY <1>5, Zenon DEF vars, client, service
    <2>2. /\ \A c : Request(c)' = Request(c) /\ (Bound(c)' <=> Bound(c))
          /\ \A r : Computed(r)' <=> Computed(r)
      BY <2>1, Zenon DEF Request, Bound, Present, Computed
    <2>3. TypeOK' /\ EachItsOwn'
      BY <2>1, Zenon DEF Inv, TypeOK, EachItsOwn
    <2>4. SentOnce' /\ AllComputed'
      BY <2>1, <2>2, Zenon DEF Inv, SentOnce, AllComputed
    <2>5. Performed' /\ Answered'
      BY <2>1, <2>2, Zenon DEF Inv, Performed, Answered
    <2>6. StillOpen' /\ OpenedIsBound'
      BY <2>1, <2>2, Zenon DEF Inv, StillOpen, OpenedIsBound
    <2> QED
      BY <2>3, <2>4, <2>5, <2>6, Zenon DEF Inv
  <1> QED
    BY <1>1, <1>2, <1>3, <1>4, <1>5, Zenon DEF Next

\* In every behaviour of the back end the invariant holds.
THEOREM RemoteInvariant == Spec => []Inv
  BY InitInv, NextInv, PTL DEF Spec

\* Every variable keeps its type; in particular the file's version never passes
\* the last one (maxRemoteVersion).
THEOREM RemoteTypeOK == Spec => []TypeOK
  BY RemoteInvariant, PTL DEF Inv

\* A Store is only ever open on a file bound to the client's own Host root, however
\* many clients race to create it and whatever is lost, repeated or delayed.
THEOREM RemoteOpenedIsBound == Spec => []OpenedIsBound
  BY RemoteInvariant, PTL DEF Inv

-----------------------------------------------------------------------------
(* The back end implements the register.                                    *)

\* The end of a call is an answer of the register, or none of its business.
LEMMA TruthfulIsAnswer ==
  ASSUME Inv, NEW c \in Clients, NEW a \in {"ok", "same", "no", "maybe"}, Truthful(c, a)
  PROVE  Register!Next \/ UNCHANGED Register!vars
  <1> DEFINE told == [u \in Updates |-> answer[u]]
  <1>1. /\ file' = file
        /\ \A u \in Updates : answer'[u] = IF u = op[c] THEN a ELSE answer[u]
    BY Zenon DEF Inv, TypeOK, Truthful, Ends, Return, service, Calls
  <1>2. CASE op[c] \notin Updates
    <2>1. told' = told
      BY <1>1, <1>2, Zenon
    <2> QED
      BY <1>1, <2>1, Zenon DEF Register!vars
  <1>3. CASE op[c] \in Updates
    <2>1. told[op[c]] = "pending"
      BY <1>3, RemoteAssumption, Zenon DEF Inv, EachItsOwn
    <2>2. Contains(file.log, op[c]) <=> op[c] \in Register!Range(file.log)
      <3>1. file.log \in Seq(Updates)
        BY Zenon DEF Inv, TypeOK, Content
      <3> QED
        BY <3>1, ContainsRange, Zenon DEF Range, Register!Range
    <2>3. CASE a = "maybe"
      <3>1. told' = [u \in Updates |-> IF u \in {op[c]} THEN "maybe" ELSE told[u]]
        BY <1>1, <1>3, <2>3, Zenon
      <3>2. PICK us \in SUBSET Updates : us = {op[c]}
        BY <1>3, Zenon
      <3>3. Register!Abandon(us)
        BY <1>1, <2>1, <3>1, <3>2, Zenon DEF Register!Abandon
      <3> QED
        BY <3>3, Zenon DEF Register!Next
    <2>4. CASE a # "maybe"
      <3>1. told' = [told EXCEPT ![op[c]] = a]
        BY <1>1, <1>3, Zenon
      <3>2. Register!Answer(op[c], a)
        BY <1>1, <1>3, <2>1, <2>2, <3>1, Zenon DEF Register!Answer, Truthful
      <3> QED
        BY <1>3, <2>4, <3>2, Zenon DEF Register!Next
    <2> QED
      BY <2>3, <2>4, Zenon
  <1> QED
    BY <1>2, <1>3, Zenon

\* A commit applies the update of an open call, once, or changes no history.
LEMMA PerformsIsApply ==
  ASSUME Inv, NEW m \in net, Performs(m)
  PROVE  Register!Next \/ UNCHANGED Register!vars
  <1> DEFINE new == SubSeq(file'.log, Len(file.log) + 1, Len(file'.log))
  <1>1. answer' = answer /\ m \notin receipts /\ m.expected = version
    BY Zenon DEF Performs
  <1>2. CASE file'.log = file.log
    BY <1>1, <1>2, Zenon DEF Register!vars
  <1>3. CASE m.id \in Updates /\ file'.log = Append(file.log, m.id)
    <2>1. ~ Contains(file.log, m.id)
      BY <1>1, <1>3 DEF Inv, Performed, SentOnce
    <2>2. file.log \in Seq(Updates) /\ Append(file.log, m.id) \in Seq(Updates)
      BY <1>3, PerformsGrows, Zenon
    <2>3. m.id \in Register!Open
      BY <1>1, <1>3, Zenon DEF Inv, StillOpen, Register!Open
    <2>4. Len(file.log) < Len(Append(file.log, m.id))
      BY <1>3, <2>2
    <2>5. SubSeq(Append(file.log, m.id), 1, Len(file.log)) = file.log
      BY <1>3, <2>2
    <2>6. DOMAIN new = {1} /\ new[1] = m.id
      <3>1. /\ Len(Append(file.log, m.id)) = Len(file.log) + 1 /\ Len(file.log) \in Nat
            /\ Append(file.log, m.id)[Len(file.log) + 1] = m.id
        BY <1>3, <2>2, AppendPositions
      <3>2. Len(new) = 1 /\ new \in Seq(Updates) /\ new[1] = m.id
        BY <1>3, <2>2, <3>1
      <3> HIDE DEF new
      <3>3. DOMAIN new = 1..1
        BY <3>2
      <3> QED
        BY <3>2, <3>3
    <2>7. Register!Range(new) = {m.id} /\ Register!IsInjective(new)
      <3> HIDE DEF new
      <3> QED
        BY <2>6, Zenon DEF Register!Range, Register!IsInjective
    <2>8. m.id \notin Register!Range(file.log)
      BY <2>1, <2>2, ContainsRange, Zenon DEF Range, Register!Range
    <2>9. Register!Apply
      BY <1>1, <1>3, <2>3, <2>4, <2>5, <2>7, <2>8, Zenon DEF Register!Apply
    <2> QED
      BY <2>9, Zenon DEF Register!Next
  <1> QED
    BY <1>2, <1>3, PerformsGrows, Zenon

\* withSnapshot over the private file promises its callers what SnapshotRegister
\* says: an update is acknowledged only when it is in the file for good, a refused
\* one never appears, and no answer is given for one whose response was lost.
THEOREM RemoteImplementsRegister == Spec => ImplementsRegister
  <1>1. Init => Register!Init
    BY RemoteAssumption DEF Init, Register!Init, Empty, Calls
  <1>2. ASSUME Inv, [Next]_vars
        PROVE  Register!Next \/ UNCHANGED Register!vars
    <2>1. ASSUME NEW c \in Clients, NEW u \in Calls, Call(c, u)
          PROVE  Register!Next \/ UNCHANGED Register!vars
      <3>1. /\ answer' = [answer EXCEPT ![u] = "pending"] /\ answer[u] = "none" /\ file' = file
            /\ answer \in [Calls -> {"none", "pending", "ok", "same", "no", "maybe"}]
        BY <1>2, <2>1, Zenon DEF Call, service, Inv, TypeOK
      <3>2. CASE u \in Updates
        <4>1. Register!Call(u)
          BY <3>1, <3>2, Zenon DEF Register!Call, Calls
        <4> QED
          BY <3>2, <4>1, Zenon DEF Register!Next
      <3>3. CASE u \notin Updates
        BY <3>1, <3>3, Zenon DEF Register!vars, Calls
      <3> QED
        BY <3>2, <3>3, Zenon
    <2>2. ASSUME NEW c \in Clients, Advance(c) \/ BadReply(c)
          PROVE  Register!Next \/ UNCHANGED Register!vars
      <3>1. CASE pc'[c] = "idle"
        BY <1>2, <2>2, <3>1, CallEnds, TruthfulIsAnswer, Zenon
      <3>2. CASE pc'[c] # "idle"
        <4>1. ~ \E a : Fail(c, a) \/ Return(c, a)
          BY <1>2, <3>2, Zenon DEF Fail, Return, Inv, TypeOK
        <4>2. ~ Committed(c) /\ ~ Adopt(c)
          BY <4>1, Zenon DEF Committed, Adopt
        <4>3. UNCHANGED <<file, answer>>
          BY <2>2, <4>1, <4>2, Zenon DEF Advance, ReadForUpdate, ReadForOpen, ReadAgain, ReadFails, Send, RefuseVersion,
             Timeout, Receive, resolve, BadReply, Prepare, service
        <4> QED
          BY <4>3, Zenon DEF Register!vars
      <3> QED
        BY <3>1, <3>2, Zenon
    <2>3. ASSUME NEW c \in Clients, Crash(c)
          PROVE  Register!Next \/ UNCHANGED Register!vars
      BY <1>2, <2>3, CrashIsTruthful, TruthfulIsAnswer, Zenon
    <2>4. ASSUME NEW m \in net, Deliver(m)
          PROVE  Register!Next \/ UNCHANGED Register!vars
      <3>1. CASE Performs(m)
        BY <1>2, <3>1, PerformsIsApply, Zenon
      <3>2. CASE \E kind \in {"committed", "conflict", "rejected"} : Responds(m, kind)
        BY <3>2, Zenon DEF Responds, service, Register!vars
      <3> QED
        BY <2>4, <3>1, <3>2, DeliverCases, Zenon
    <2>5. CASE UNCHANGED vars
      BY <2>5, Zenon DEF vars, service, Register!vars
    <2> QED
      BY <1>2, <2>1, <2>2, <2>3, <2>4, <2>5, Zenon DEF Next
  <1> QED
    BY <1>1, <1>2, RemoteInvariant, PTL DEF Spec, ImplementsRegister, Register!Spec

=============================================================================
