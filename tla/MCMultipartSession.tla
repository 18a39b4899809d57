-------------------------- MODULE MCMultipartSession --------------------------
(***************************************************************************)
(* MultipartSession for TLC: slots are interchangeable, and so are         *)
(* requests.                                                               *)
(***************************************************************************)
EXTENDS MultipartSession, TLC

Symmetry == Permutations(Slots) \cup Permutations(Requests)

=============================================================================
