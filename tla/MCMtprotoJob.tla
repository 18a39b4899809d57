----------------------------- MODULE MCMtprotoJob -----------------------------
(* MtprotoJob for TLC: entries, slots and requests are interchangeable.        *)
EXTENDS MtprotoJob, TLC

Symmetry == Permutations(Jobs) \cup Permutations(Slots) \cup Permutations(Requests)

=============================================================================
