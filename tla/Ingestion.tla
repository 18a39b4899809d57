------------------------------ MODULE Ingestion ------------------------------
(***************************************************************************)
(* What accepting an upload promises, with nothing said of workers, slots, *)
(* claims, attempts or row locks.  An accepted upload is attended to until *)
(* it has ended, by the process accepting it or by a try.  A try may file  *)
(* the upload and may end it; over, it stays over, and it is not over      *)
(* while the upload is open unless others attend to it.  Once an upload    *)
(* has ended and nothing attends to it, only a retry touches it.           *)
(* UploadLifecycle implements this: a try is one row of the jobs table,    *)
(* with all its attempts, crashes and restarts.                            *)
(***************************************************************************)

CONSTANTS
  Uploads,    \* uploads that may be accepted
  Tries,      \* identities of tries
  None        \* the upload of a try not granted yet

VARIABLES
  state,      \* "absent", "open", "completed" or "ended" (any other outcome), by upload
  accepting,  \* uploads whose intake has not granted the first try yet
  granted,    \* the upload a try was granted to
  open,       \* tries that are not over
  filed,      \* uploads with a file in the library
  asked,      \* uploads somebody asked to cancel since the last retry
  lost        \* uploads a failure cut off from whoever attended to them

vars == <<state, accepting, granted, open, filed, asked, lost>>

TriesOf(u) == {t \in Tries : granted[t] = u}
OpenTries(u) == TriesOf(u) \cap open
Attended(u) == u \in accepting \/ OpenTries(u) # {}
Outcomes == {"completed", "ended"}

Init ==
  /\ state = [u \in Uploads |-> "absent"]
  /\ accepting = {} /\ open = {} /\ filed = {} /\ asked = {} /\ lost = {}
  /\ granted = [t \in Tries |-> None]

Accept(u) ==
  /\ state[u] = "absent"
  /\ state' = [state EXCEPT ![u] = "open"]
  /\ accepting' = accepting \cup {u}
  /\ UNCHANGED <<granted, open, filed, asked, lost>>

Grant(u) ==
  \E t \in Tries : /\ granted[t] = None
                   /\ granted' = [granted EXCEPT ![t] = u]
                   /\ open' = open \cup {t}

\* The first try of an upload, even one cancelled in the meantime: the try finds out.
GrantFirst(u) ==
  /\ u \in accepting /\ accepting' = accepting \ {u}
  /\ Grant(u)
  /\ UNCHANGED <<state, filed, asked, lost>>

\* Accepted together with its first try.
HandOver(u) ==
  /\ state[u] = "absent"
  /\ state' = [state EXCEPT ![u] = "open"]
  /\ Grant(u)
  /\ UNCHANGED <<accepting, filed, asked, lost>>

\* A retry asks nothing of the state: whoever decided on it saw an ended upload.
Retry(u) ==
  /\ state[u] # "absent"
  /\ state' = [state EXCEPT ![u] = "open"]
  /\ asked' = asked \ {u} /\ lost' = lost \ {u}
  /\ Grant(u)
  /\ UNCHANGED <<accepting, filed>>

\* An upload ended early, by a cancellation or an overtaken try, opens again for the rest.
Reopen(u) ==
  /\ Attended(u) /\ state[u] \in Outcomes
  /\ state' = [state EXCEPT ![u] = "open"]
  /\ UNCHANGED <<accepting, granted, open, filed, asked, lost>>

File(u) ==
  /\ OpenTries(u) # {}
  /\ filed' = filed \cup {u}
  /\ UNCHANGED <<state, accepting, granted, open, asked, lost>>

\* A try gives the upload its outcome, and may be over with that.  Completed means filed.
End(u) ==
  \E t \in OpenTries(u), outcome \in Outcomes :
    /\ outcome = "completed" => u \in filed
    /\ state' = [state EXCEPT ![u] = outcome]
    /\ open' \in {open, open \ {t}}
    /\ UNCHANGED <<accepting, granted, filed, asked, lost>>

\* A try is over: the upload has ended, or others attend to it; or the upload was retried and
\* then cancelled while the run of an earlier try was ending.
Close(t) ==
  /\ t \in open
  /\ LET u == granted[t]
     IN \/ state[u] \in Outcomes
        \/ u \in accepting \/ OpenTries(u) # {t}
        \/ (u \in asked /\ TriesOf(u) # {t})
  /\ open' = open \ {t}
  /\ UNCHANGED <<state, accepting, granted, filed, asked, lost>>

\* The upload ends, unless a try is left to do that; tries not yet under way are over.
Cancel(u) ==
  /\ state[u] = "open"
  /\ asked' = asked \cup {u}
  /\ \E over \in SUBSET OpenTries(u) :
       /\ open' = open \ over
       /\ \/ state' = [state EXCEPT ![u] = "ended"]
          \/ OpenTries(u) \ over # {} /\ UNCHANGED state
  /\ UNCHANGED <<accepting, granted, filed, lost>>

\* A crash or a failed statement: whoever attended to an upload is gone, and it shows.
Lose ==
  \E us \in SUBSET accepting, ts \in SUBSET open :
    /\ accepting' = accepting \ us /\ open' = open \ ts
    /\ lost' = lost \cup us \cup {granted[t] : t \in ts}
    /\ UNCHANGED <<state, granted, filed, asked>>

Next ==
  \/ \E u \in Uploads : \/ Accept(u) \/ GrantFirst(u) \/ HandOver(u) \/ Retry(u) \/ Reopen(u)
                        \/ File(u) \/ End(u) \/ Cancel(u)
  \/ \E t \in Tries : Close(t)
  \/ Lose

Spec == Init /\ [][Next]_vars

-----------------------------------------------------------------------------
(* What it amounts to *)

\* An open upload is attended to, or was lost, or was retried and cancelled again.
OpenIsAttended ==
  \A u \in Uploads : state[u] = "open" =>
    Attended(u) \/ u \in lost \/ (u \in asked /\ \E t, v \in TriesOf(u) : t # v)

\* A completed upload is filed, whatever other tries did.
CompletedIsFiled == \A u \in Uploads : state[u] = "completed" => u \in filed

=============================================================================
