---------------------------- MODULE MCDashboard ----------------------------
(* A small instance of Dashboard. *)
EXTENDS Dashboard, TLC

Interchangeable == Permutations(Draws)

=============================================================================
