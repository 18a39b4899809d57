------------------------------ MODULE MCFiling ------------------------------
(* Small instances of Filing: u1 and u2 are the same title in different      *)
(* releases, whose library is on another filesystem; u3 is another title,    *)
(* with u1's bytes, in a library moved into by a rename.                     *)
EXTENDS Filing, TLC

CONSTANTS u1, u2, u3, movie, show, x, y

TitleOf == u1 :> movie @@ u2 :> movie @@ u3 :> show
ContentOf == u1 :> x @@ u2 :> y @@ u3 :> x

=============================================================================
