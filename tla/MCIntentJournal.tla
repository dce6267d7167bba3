--------------------------- MODULE MCIntentJournal ---------------------------
(* IntentJournal on a small instance for TLC. *)
EXTENDS IntentJournal, TLC

\* An Operation in progress, a complete one whose retention may be extended, and
\* a failed one with partial effect.
MCAckKinds ==
  {<<"running", "unknown", 1>>, <<"succeeded", "complete", 1>>, <<"succeeded", "complete", 2>>,
   <<"failed", "partial", 1>>}

MCSymmetry ==
  Permutations(Hosts) \cup Permutations(Names) \cup Permutations(UIDs)
    \cup Permutations(Payloads) \cup Permutations(Keys)

=============================================================================
