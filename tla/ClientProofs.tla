---------------------------- MODULE ClientProofs ----------------------------
(* Proofs about HostClient, for every number of calls and every parallelism. *)
EXTENDS HostClient, TLAPS

\* A call that is past its own Discover.
Past == {"reading", "claiming", "mutating", "exchanging", "locating", "polling"}

\* discoverMu admits one call at a time.
OneDiscovers == \A c \in Calls : pc[c] = "fetching" => discoverMu = c

\* The document a call compared is the published one for as long as nobody else
\* runs Discover, and from the read on it is known to admit a request.
KeepsItsDocument ==
  \A c \in Calls \ disturbed :
    /\ pc[c] \in Past => discovery # NoDocument /\ discovery.base = HostAPIRoot /\ discoverMu = None
    /\ pc[c] \in Past \ {"reading"} => discovery.bearer
    /\ pc[c] \in {"exchanging", "locating"} => target[c] = HostAPIRoot

\* The inductive invariant
Inv == TypeOK /\ OneDiscovers /\ KeepsItsDocument /\ OnlyDiscoverInterferes

\* No document is published, and no call has begun.
LEMMA InitInv ==
  ASSUME Init
  PROVE  Inv
  <1>1. TypeOK
    BY DEF Init, TypeOK, NoDocument, Steps, Outcomes
  <1>2. OneDiscovers /\ KeepsItsDocument /\ OnlyDiscoverInterferes
    BY DEF Init, OneDiscovers, KeepsItsDocument, OnlyDiscoverInterferes, Past
  <1> QED
    BY <1>1, <1>2 DEF Inv

\* A step of one call that leaves the document, the mutex and the disturbed calls
\* alone, and is right about itself, keeps the invariant.
LEMMA StepInv ==
  ASSUME Inv, NEW c \in Calls, NEW step \in Steps \ {"fetching"}, NEW how \in Outcomes, NEW root \in Roots \cup {None},
         pc[c] # "fetching",
         pc' = [pc EXCEPT ![c] = step],
         outcome' = [outcome EXCEPT ![c] = how],
         target' = [target EXCEPT ![c] = root],
         UNCHANGED <<discovery, discoverMu, disturbed>>,
         c \notin disturbed =>
           /\ how \notin {"unsent", "discarded"} /\ root \in {None, HostAPIRoot}
           /\ step \in Past => pc[c] \in Past
           /\ step \in Past \ {"reading"} => discovery.bearer
           /\ step \in {"exchanging", "locating"} => root = HostAPIRoot
  PROVE  Inv'
  <1> USE DEF Inv
  <1>1. /\ pc'[c] = step /\ outcome'[c] = how /\ target'[c] = root
        /\ \A d \in Calls \ {c} : pc'[d] = pc[d] /\ outcome'[d] = outcome[d] /\ target'[d] = target[d]
    BY DEF TypeOK
  <1>2. TypeOK'
    BY DEF TypeOK
  <1>3. OneDiscovers'
    BY <1>1 DEF OneDiscovers
  <1>4. KeepsItsDocument'
    BY <1>1 DEF KeepsItsDocument
  <1>5. OnlyDiscoverInterferes'
    BY <1>1 DEF OnlyDiscoverInterferes
  <1> QED
    BY <1>2, <1>3, <1>4, <1>5

\* Goto and End, as a step of one call.
LEMMA GotoIsStep ==
  ASSUME TypeOK, NEW c \in Calls, NEW step, Goto(c, step)
  PROVE  pc' = [pc EXCEPT ![c] = step] /\ outcome' = [outcome EXCEPT ![c] = outcome[c]]
  BY DEF Goto, TypeOK

\* Discover begins: whoever is past its own is disturbed from now on.
LEMMA ResetInv ==
  ASSUME Inv, NEW c \in Calls, Reset(c)
  PROVE  Inv'
  <1> USE DEF Inv
  <1>1. /\ pc[c] = "discovering" /\ discoverMu = None /\ discoverMu' = c /\ discovery' = NoDocument
        /\ pc' = [pc EXCEPT ![c] = "fetching"] /\ UNCHANGED <<target, outcome>>
        /\ disturbed' = disturbed \cup {d \in Running : pc[d] \notin {"discovering", "fetching"}}
    BY DEF Reset, Goto, Disturb
  <1>2. pc'[c] = "fetching" /\ \A d \in Calls \ {c} : pc'[d] = pc[d]
    BY <1>1 DEF TypeOK
  <1>3. TypeOK'
    BY <1>1 DEF TypeOK, Steps, Running
  <1>4. \A d \in Calls \ disturbed' : pc'[d] \notin Past
    BY <1>1, <1>2 DEF Running, Past, TypeOK
  <1>5. \A d \in Calls : pc[d] # "fetching"
    BY <1>1, ClientAssumption DEF OneDiscovers
  <1>6. OneDiscovers'
    BY <1>1, <1>2, <1>5 DEF OneDiscovers
  <1>7. KeepsItsDocument'
    BY <1>1, <1>4 DEF KeepsItsDocument, Past
  <1>8. OnlyDiscoverInterferes'
    BY <1>1 DEF OnlyDiscoverInterferes
  <1> QED
    BY <1>3, <1>6, <1>7, <1>8

\* Discover ends, with a document or without: nobody undisturbed was past its own.
LEMMA FetchedInv ==
  ASSUME Inv, NEW c \in Calls, FetchFails(c) \/ Publish(c)
  PROVE  Inv'
  <1> USE DEF Inv
  <1>1. PICK step \in {"reading", "done"}, how \in {outcome[c], "refused"} :
          /\ pc[c] = "fetching" /\ pc' = [pc EXCEPT ![c] = step] /\ outcome' = [outcome EXCEPT ![c] = how]
          /\ discoverMu' = None /\ UNCHANGED <<target, disturbed>>
          /\ discovery' \in Documents \cup {NoDocument}
          /\ step = "reading" => discovery' \in Documents /\ discovery'.base = HostAPIRoot
    <2>1. CASE FetchFails(c)
      BY <2>1 DEF FetchFails, End, TypeOK
    <2>2. CASE Publish(c)
      <3>1. PICK d \in Documents : pc[c] = "fetching" /\ discovery' = d /\ discover(c, d)
        BY <2>2 DEF Publish
      <3>2. discoverMu' = None /\ UNCHANGED <<target, disturbed>>
        BY <2>2 DEF Publish
      <3> QED
        BY <3>1, <3>2, GotoIsStep DEF discover, End
    <2> QED
      BY <2>1, <2>2
  <1>2. /\ pc'[c] = step /\ outcome'[c] = how /\ how \in Outcomes
        /\ \A d \in Calls \ {c} : pc'[d] = pc[d] /\ outcome'[d] = outcome[d]
    BY <1>1 DEF TypeOK, Outcomes
  <1>3. TypeOK'
    BY <1>1, <1>2 DEF TypeOK, Steps
  <1>4. discoverMu = c
    BY <1>1 DEF OneDiscovers
  <1>5. \A d \in Calls \ disturbed : pc[d] \notin Past
    BY <1>4, ClientAssumption DEF KeepsItsDocument
  <1>6. OneDiscovers'
    BY <1>1, <1>2, <1>4 DEF OneDiscovers
  <1>7. step = "reading" => discovery' # NoDocument
    BY <1>1, ClientAssumption DEF Documents, NoDocument
  <1>8. KeepsItsDocument'
    BY <1>1, <1>2, <1>5, <1>7 DEF KeepsItsDocument, Past
  <1>9. OnlyDiscoverInterferes'
    BY <1>1, <1>2 DEF OnlyDiscoverInterferes
  <1> QED
    BY <1>3, <1>6, <1>8, <1>9

\* A call that no Discover has met since its own may form its requests, once it has
\* read, and forms them from the root it compared.
LEMMA Undisturbed ==
  ASSUME Inv, NEW c \in Calls \ disturbed, pc[c] \in Past \ {"reading"}
  PROVE  apiBase /\ discovery.base = HostAPIRoot
  BY DEF Inv, KeepsItsDocument, apiBase

\* Every step between Discover and the end of a call keeps the invariant.
LEMMA RequestInv ==
  ASSUME Inv, NEW c \in Calls,
         \/ Start(c) \/ Read(c) \/ Claim(c) \/ Mutate(c) \/ Exchange(c)
         \/ validateOperationLocation(c) \/ Poll(c)
  PROVE  Inv'
  <1>1. /\ TypeOK
        /\ outcome[c] \in Outcomes /\ target[c] \in Roots \cup {None} /\ target = [target EXCEPT ![c] = target[c]]
        /\ c \notin disturbed => outcome[c] \notin {"unsent", "discarded"} /\ target[c] \in {None, HostAPIRoot}
    BY DEF Inv, TypeOK, OnlyDiscoverInterferes
  <1>2. \A how \in {"refused", "read", "unsent", "unknown", "rejected", "discarded", "pending", "settled"} :
          how \in Outcomes
    BY DEF Outcomes
  <1>3. {"discovering", "claiming", "mutating", "exchanging", "locating", "polling", "done"} \subseteq Steps
    BY DEF Steps
  <1>4. CASE Start(c)
    BY <1>1, <1>3, <1>4, GotoIsStep, StepInv DEF Start, Past
  <1>5. CASE Read(c)
    <2>1. PICK step \in {"claiming", "done"}, how \in {outcome[c], "refused", "read"} :
            /\ pc[c] = "reading" /\ pc' = [pc EXCEPT ![c] = step] /\ outcome' = [outcome EXCEPT ![c] = how]
            /\ step = "claiming" => apiBase
            /\ UNCHANGED <<discovery, discoverMu, target, disturbed>>
      BY <1>1, <1>5, GotoIsStep DEF Read, End
    <2> QED
      BY <1>1, <1>2, <1>3, <2>1, StepInv, Zenon DEF Past, apiBase
  <1>6. CASE Claim(c)
    <2>1. PICK step \in {"mutating", "done"}, how \in {outcome[c], "refused"} :
            /\ pc[c] = "claiming" /\ pc' = [pc EXCEPT ![c] = step] /\ outcome' = [outcome EXCEPT ![c] = how]
            /\ UNCHANGED <<discovery, discoverMu, target, disturbed>>
      BY <1>1, <1>6, GotoIsStep DEF Claim, End
    <2>2. c \notin disturbed => apiBase
      BY <2>1, Undisturbed DEF Past
    <2> QED
      BY <1>1, <1>2, <1>3, <2>1, <2>2, StepInv, Zenon DEF Past, apiBase
  <1>7. CASE Mutate(c)
    <2>1. pc[c] = "mutating" /\ UNCHANGED <<discovery, discoverMu, disturbed>>
      BY <1>7 DEF Mutate
    <2>2. c \notin disturbed => apiBase /\ discovery.base = HostAPIRoot
      BY <2>1, Undisturbed DEF Past
    <2>3. CASE apiBase
      <3>1. /\ target' = [target EXCEPT ![c] = discovery.base] /\ pc' = [pc EXCEPT ![c] = "exchanging"]
            /\ outcome' = [outcome EXCEPT ![c] = outcome[c]]
        BY <1>1, <1>7, <2>3, GotoIsStep DEF Mutate
      <3>2. discovery.base \in Roots
        BY <1>1, <2>3 DEF TypeOK, apiBase, Documents
      <3> QED
        BY <1>1, <1>3, <2>1, <2>2, <3>1, <3>2, StepInv, Zenon DEF Past, apiBase
    <2>4. CASE ~ apiBase
      BY <1>1, <1>2, <1>3, <1>7, <2>1, <2>2, <2>4, StepInv DEF Mutate, End, Past
    <2> QED
      BY <2>3, <2>4
  <1>8. CASE Exchange(c)
    <2>1. PICK step \in {"locating", "done"}, how \in {outcome[c], "unknown", "rejected"} :
            /\ pc[c] = "exchanging" /\ pc' = [pc EXCEPT ![c] = step] /\ outcome' = [outcome EXCEPT ![c] = how]
            /\ UNCHANGED <<discovery, discoverMu, target, disturbed>>
      BY <1>1, <1>8, GotoIsStep DEF Exchange, End
    <2>2. c \notin disturbed => apiBase /\ target[c] = HostAPIRoot
      BY <2>1, Undisturbed DEF Past, Inv, KeepsItsDocument
    <2> QED
      BY <1>1, <1>2, <1>3, <2>1, <2>2, StepInv, ZenonT(60) DEF Past, apiBase
  <1>9. CASE validateOperationLocation(c)
    <2>1. PICK step \in {"polling", "done"}, how \in {outcome[c], "discarded"} :
            /\ pc[c] = "locating" /\ pc' = [pc EXCEPT ![c] = step] /\ outcome' = [outcome EXCEPT ![c] = how]
            /\ apiBase /\ discovery.base = target[c] => how = outcome[c]
            /\ UNCHANGED <<discovery, discoverMu, target, disturbed>>
      BY <1>1, <1>9, GotoIsStep DEF validateOperationLocation, End
    <2>2. c \notin disturbed => apiBase /\ discovery.base = target[c]
      BY <2>1, Undisturbed DEF Past, Inv, KeepsItsDocument
    <2> QED
      BY <1>1, <1>2, <1>3, <2>1, <2>2, StepInv, Zenon DEF Past, apiBase
  <1>10. CASE Poll(c)
    <2>1. PICK how \in {"settled", "pending"} :
            /\ pc[c] = "polling" /\ pc' = [pc EXCEPT ![c] = "done"] /\ outcome' = [outcome EXCEPT ![c] = how]
            /\ UNCHANGED <<discovery, discoverMu, target, disturbed>>
      BY <1>10 DEF Poll, End
    <2> QED
      BY <1>1, <1>2, <1>3, <2>1, StepInv, Zenon DEF Past
  <1> QED
    BY <1>4, <1>5, <1>6, <1>7, <1>8, <1>9, <1>10

\* Every step keeps the invariant.
LEMMA NextInv ==
  ASSUME Inv, [Next]_vars
  PROVE  Inv'
  <1>1. CASE Next
    BY <1>1, ResetInv, FetchedInv, RequestInv DEF Next, Advance
  <1>2. CASE UNCHANGED vars
    BY <1>2 DEF vars, Inv, TypeOK, OneDiscovers, KeepsItsDocument, OnlyDiscoverInterferes
  <1> QED
    BY <1>1, <1>2

\* In every behaviour of the client the invariant holds.
THEOREM ClientInvariant == Spec => []Inv
  BY InitInv, NextInv, PTL DEF Spec

\* Every variable keeps its type; discoverMu is a call or nobody.
THEOREM ClientTypeOK == Spec => []TypeOK
  BY ClientInvariant, PTL DEF Inv

\* For any number of parallel calls: a mutation whose call no other call's Discover
\* has met is sent, to the configured root, and its answer is not thrown away.
THEOREM ClientOnlyDiscoverInterferes == Spec => []OnlyDiscoverInterferes
  BY ClientInvariant, PTL DEF Inv
=============================================================================
