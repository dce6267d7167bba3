-------------------------- MODULE SnapshotRegister --------------------------
(***************************************************************************)
(* What Store.withSnapshot promises its callers, whichever back end runs   *)
(* it: the snapshot is one history of updates, changed only by appending   *)
(* whole updates.  A call is answered                                      *)
(*   ok     its update is in the history for good;                         *)
(*   same   it found its work done and changed nothing (a replay);         *)
(*   no     it was refused (a business error, ErrStoreLocked,              *)
(*          ErrStoreConflict) and its update never appears;                *)
(*   maybe  nothing is known (ErrStoreUnavailable, ErrStoreUncertain, or   *)
(*          the caller died): the update may appear, now or later.         *)
(* LocalSnapshot and RemoteSnapshot implement this specification.          *)
(***************************************************************************)
EXTENDS Naturals, Sequences, Functions

CONSTANT Updates      \* one update per call

VARIABLES
  log,                \* the durable history
  answer              \* what each call has been told

vars == <<log, answer>>

Open == {u \in Updates : answer[u] \in {"pending", "maybe"}}

Init == log = <<>> /\ answer = [u \in Updates |-> "none"]

Call(u) ==
  /\ answer[u] = "none"
  /\ answer' = [answer EXCEPT ![u] = "pending"]
  /\ UNCHANGED log

\* The history grows by updates of open calls, each at most once.
Apply ==
  /\ Len(log) < Len(log')
  /\ SubSeq(log', 1, Len(log)) = log
  /\ LET new == SubSeq(log', Len(log) + 1, Len(log'))
     IN  Range(new) \subseteq Open \ Range(log) /\ IsInjective(new)
  /\ UNCHANGED answer

Answer(u, a) ==
  /\ answer[u] = "pending"
  /\ a = "ok" => u \in Range(log)
  /\ a \in {"no", "same"} => u \notin Range(log)
  /\ answer' = [answer EXCEPT ![u] = a]
  /\ UNCHANGED log

\* Some callers die.
Abandon(us) ==
  /\ us # {}
  /\ us \subseteq {u \in Updates : answer[u] = "pending"}
  /\ answer' = [u \in Updates |-> IF u \in us THEN "maybe" ELSE answer[u]]
  /\ UNCHANGED log

Next ==
  \/ \E u \in Updates : Call(u)
  \/ Apply
  \/ \E u \in Updates, a \in {"ok", "same", "no"} : Answer(u, a)
  \/ \E us \in SUBSET Updates : Abandon(us)

Spec == Init /\ [][Next]_vars

=============================================================================
