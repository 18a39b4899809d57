------------------------------ MODULE MCMiniApp ------------------------------
(* A small instance of MiniApp: one type of two pages, one of a single page. *)
EXTENDS MiniApp, TLC

CONSTANTS all, movie
PagesOfTypes == all :> 2 @@ movie :> 1

Interchangeable == Permutations(Calls) \cup Permutations(Sends)

=============================================================================
