------------------------- MODULE MCUploadLifecycle -------------------------
(* Small instances of UploadLifecycle. *)
EXTENDS UploadLifecycle, TLC

CONSTANTS w1, s1, s2

\* One worker process with two slots.
OneWorker == s1 :> w1 @@ s2 :> w1

\* Sound with one worker: its slots, and the job ids, are only compared with each other.
Interchangeable == Permutations(Jobs) \cup Permutations(Slots) \cup Permutations(Clients)

=============================================================================
