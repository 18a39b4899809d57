------------------------- MODULE MCProgressMessage -------------------------
(* A small instance of ProgressMessage. *)
EXTENDS ProgressMessage

=============================================================================
