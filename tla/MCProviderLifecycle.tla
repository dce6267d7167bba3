------------------------- MODULE MCProviderLifecycle -------------------------
(* ProviderLifecycle on small instances for TLC. *)
EXTENDS ProviderLifecycle, TLC

MCSlot == CHOOSE t \in Target : TRUE

\* Every address has the same Form.
MCOneForm == [w \in Workers |-> CHOOSE f \in Forms : TRUE]

MCSymmetry == Permutations(UIDs) \cup Permutations(Keys) \cup Permutations(OperationIDs)

MCSymmetryWorkers == MCSymmetry \cup Permutations(Workers)

=============================================================================
