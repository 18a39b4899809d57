----------------------------- MODULE MCUploader -----------------------------
(* Two files of one name, a third that goes whole, and a quota for two of them. *)
EXTENDS Uploader, TLC

SizeDef == "a" :> 2 @@ "b" :> 2 @@ "c" :> 3 @@ "s" :> 1
NameDef == "a" :> "n" @@ "b" :> "n" @@ "c" :> "n" @@ "s" :> "s"
=============================================================================
