------------------------------ MODULE MtprotoJob ------------------------------
(***************************************************************************)
(* The fetch of one forwarded file through the owner's Telegram account.   *)
(* It has a row of its own in mtproto_jobs, with a status and a count of   *)
(* attempts, and entries in the job queue, with theirs.  The bot inserts   *)
(* the row and its entry; a slot of the worker claims an entry, then the   *)
(* row, fetches the file and hands it off as an upload; the administrator  *)
(* cancels and retries.  No two of these statements are in a transaction   *)
(* but the hand-off, so the two counts and the two statuses may drift      *)
(* apart.  The worker may crash, and a statement may fail, at any time.    *)
(*                                                                         *)
(* Abstractions: FAILED also stands for UNAVAILABLE; HANDOFF is written    *)
(* and overwritten within one transaction and never seen; sizes, progress  *)
(* and backoff; the temporary file (Staging); the owner exists; recovery   *)
(* after a restart is one step, before anything is claimed.                *)
(***************************************************************************)
EXTENDS Naturals, FiniteSets

CONSTANTS
  Jobs,         \* ids of the queue entries: at most this many are ever inserted
  Slots,        \* slots of the worker's large lane
  Requests,     \* requests of the bot and the administrator at the same time
  MaxAttempts,  \* config.mtproto.maxAttempts, of the row and of each entry
  MaxCrashes,   \* bound on crashes, and on statements that fail
  None

ASSUME AttemptsType == MaxAttempts \in Nat \ {0}
ASSUME CrashesType == MaxCrashes \in Nat
ASSUME NoneIsNoJob == None \notin Jobs
ASSUME SlotsFinite == IsFiniteSet(Slots)

VARIABLES
  status,           \* mtproto_jobs.status, "NONE" before the row is inserted
  cancelRequested,  \* mtproto_jobs.cancel_requested
  attempts,         \* mtproto_jobs.attempts
  jobStatus,        \* jobs.status, "free" before the entry is inserted
  jobAttempts,      \* jobs.attempts
  up,               \* the worker is running
  pc,               \* the next statement of a slot
  held,             \* the entry it has claimed
  attempt,          \* the run's copy of the row's count
  at,               \* the next statement of a request
  uploads,          \* uploads handed off
  crashes,
  resets,           \* history: how often a retry set the row PENDING
  failures,         \* history: runs that failed since the count was last reset
  overrun,          \* history: the row was set PENDING while a slot fetched it
  stale,            \* history: it was set PENDING while an older entry was still live
  crossed,          \* history: a retry cleared the flag of a cancellation under way
  severed,          \* history: a statement failed, or a crash cut off a request
  disowned          \* history: hand-offs whose run went on to fail

row == <<status, cancelRequested, attempts>>
queue == <<jobStatus, jobAttempts>>
slots == <<pc, held, attempt>>
history == <<resets, failures, overrun, stale, crossed, severed, disowned>>
vars == <<row, queue, up, slots, at, uploads, crashes, history>>

-----------------------------------------------------------------------------

MidFlight == {"LOCATING", "DOWNLOADING", "VERIFYING"}
Active == MidFlight \cup {"PENDING"}
Closed == {"COMPLETED", "FAILED", "CANCELLED"}
Fetching == {"locating", "downloading", "fetched", "verified", "cancelling"}

Live(j) == jobStatus[j] \in {"pending", "active"}
Fetchers == {s \in Slots : pc[s] \in Fetching}

TypeOK ==
  /\ status \in Active \cup Closed \cup {"NONE"}
  /\ cancelRequested \in BOOLEAN /\ attempts \in Nat
  /\ jobStatus \in [Jobs -> {"free", "pending", "active", "completed", "failed", "cancelled"}]
  /\ jobAttempts \in [Jobs -> Nat]
  /\ up \in BOOLEAN
  /\ pc \in [Slots -> Fetching \cup {"idle", "reading", "claiming", "handed", "done",
                                  "failing", "burning"}]
  /\ held \in [Slots -> Jobs \cup {None}]
  /\ attempt \in [Slots -> Nat]
  /\ at \in [Requests -> {"idle", "resetting", "clearing", "enqueueing", "sweeping"}]
  /\ uploads \in Nat /\ crashes \in Nat /\ resets \in Nat /\ failures \in Nat
  /\ disowned \in Nat
  /\ overrun \in BOOLEAN /\ stale \in BOOLEAN /\ crossed \in BOOLEAN /\ severed \in BOOLEAN

Init ==
  /\ status = "NONE" /\ cancelRequested = FALSE /\ attempts = 0
  /\ jobStatus = [j \in Jobs |-> "free"] /\ jobAttempts = [j \in Jobs |-> 0]
  /\ up = TRUE
  /\ pc = [s \in Slots |-> "idle"] /\ held = [s \in Slots |-> None]
  /\ attempt = [s \in Slots |-> 0]
  /\ at = [c \in Requests |-> "idle"]
  /\ uploads = 0 /\ crashes = 0 /\ resets = 0 /\ failures = 0
  /\ overrun = FALSE /\ stale = FALSE /\ crossed = FALSE /\ severed = FALSE
  /\ disowned = 0

Goto(s, next) == pc' = [pc EXCEPT ![s] = next] /\ UNCHANGED <<held, attempt>>
Release(s) ==
  /\ pc' = [pc EXCEPT ![s] = "idle"] /\ held' = [held EXCEPT ![s] = None]
  /\ attempt' = [attempt EXCEPT ![s] = 0]
SetStatus(st) == status' = st /\ UNCHANGED <<cancelRequested, attempts>>
Step(c, next) == at' = [at EXCEPT ![c] = next]

-----------------------------------------------------------------------------
(* Bot and administrator *)

\* The bot's row for the forwarded message; its entry is another statement.
Create(c) ==
  /\ at[c] = "idle" /\ status = "NONE"
  /\ SetStatus("PENDING") /\ Step(c, "enqueueing")
  /\ UNCHANGED <<queue, up, slots, uploads, crashes, history>>

Enqueue(c) ==
  /\ at[c] = "enqueueing"
  /\ \E j \in Jobs :
       /\ jobStatus[j] = "free"
       /\ jobStatus' = [jobStatus EXCEPT ![j] = "pending"]
  /\ Step(c, "idle")
  /\ UNCHANGED <<row, jobAttempts, up, slots, uploads, crashes, history>>

\* The bound on retries: they leave an id for every request still to enqueue.
RoomForRetry ==
  Cardinality({j \in Jobs : jobStatus[j] = "free"})
    > Cardinality({c \in Requests : at[c] \in {"resetting", "clearing", "enqueueing"}})

\* retryMtprotoJob, of anything that is not in flight.
Retry(c) ==
  /\ at[c] = "idle" /\ status \in Closed /\ RoomForRetry
  /\ Step(c, "resetting")
  /\ UNCHANGED <<row, queue, up, slots, uploads, crashes, history>>

\* Whatever the status is by now.
Reset(c) ==
  /\ at[c] = "resetting"
  /\ SetStatus("PENDING") /\ Step(c, "clearing")
  /\ resets' = resets + 1
  /\ overrun' = (overrun \/ Fetchers # {})
  /\ stale' = (stale \/ status = "PENDING" \/ \E j \in Jobs : Live(j))
  /\ UNCHANGED <<queue, up, slots, uploads, crashes, failures, crossed, severed,
                 disowned>>

\* "A fresh budget"
Clear(c) ==
  /\ at[c] = "clearing"
  /\ cancelRequested' = FALSE /\ attempts' = 0 /\ UNCHANGED status
  /\ failures' = 0 /\ Step(c, "enqueueing")
  /\ crossed' = (crossed \/ \E d \in Requests : at[d] = "sweeping")
  /\ UNCHANGED <<queue, up, slots, uploads, crashes, resets, overrun, stale, severed,
                 disowned>>

\* requestCancel's two statements.
Cancel(c) ==
  /\ at[c] = "idle" /\ status \in Active
  /\ cancelRequested' = TRUE /\ UNCHANGED <<status, attempts>>
  /\ Step(c, "sweeping")
  /\ UNCHANGED <<queue, up, slots, uploads, crashes, history>>

Sweep(c) ==
  /\ at[c] = "sweeping"
  /\ jobStatus' = [j \in Jobs |-> IF jobStatus[j] = "pending" THEN "cancelled" ELSE jobStatus[j]]
  /\ Step(c, "idle")
  /\ UNCHANGED <<row, jobAttempts, up, slots, uploads, crashes, history>>

CutOff(c) ==
  /\ at[c] # "idle" /\ crashes < MaxCrashes
  /\ crashes' = crashes + 1 /\ severed' = TRUE /\ Step(c, "idle")
  /\ UNCHANGED <<row, queue, up, slots, uploads, resets, failures, overrun, stale, crossed,
                 disowned>>

-----------------------------------------------------------------------------
(* Worker *)

ClaimEntry(s) ==
  /\ up /\ pc[s] = "idle"
  /\ \E j \in Jobs :
       /\ jobStatus[j] = "pending"
       /\ jobStatus' = [jobStatus EXCEPT ![j] = "active"]
       /\ jobAttempts' = [jobAttempts EXCEPT ![j] = @ + 1]
       /\ held' = [held EXCEPT ![s] = j]
  /\ pc' = [pc EXCEPT ![s] = "reading"]
  /\ UNCHANGED <<row, up, attempt, at, uploads, crashes, history>>

\* An entry of a cancelled row is done at once.
Read(s) ==
  /\ pc[s] = "reading"
  /\ Goto(s, IF cancelRequested \/ status = "CANCELLED" THEN "done" ELSE "claiming")
  /\ UNCHANGED <<row, queue, up, at, uploads, crashes, history>>

\* Faulty: the row is marked whatever its status.
MarkRow(s) ==
  /\ pc[s] = "claiming"
  /\ status' = "LOCATING" /\ attempts' = attempts + 1 /\ UNCHANGED cancelRequested
  /\ pc' = [pc EXCEPT ![s] = "locating"]
  /\ attempt' = [attempt EXCEPT ![s] = attempts + 1]
  /\ UNCHANGED <<queue, up, held, at, uploads, crashes, history>>

\* claimForDownload: "The status transition is the lock".
ClaimRow(s) ==
  /\ pc[s] = "claiming"
  /\ IF status = "PENDING"
       THEN /\ status' = "LOCATING" /\ attempts' = attempts + 1 /\ UNCHANGED cancelRequested
            /\ pc' = [pc EXCEPT ![s] = "locating"]
            /\ attempt' = [attempt EXCEPT ![s] = attempts + 1]
            /\ UNCHANGED held
       ELSE Goto(s, "done") /\ UNCHANGED row
  /\ UNCHANGED <<queue, up, at, uploads, crashes, history>>

BeginDownload(s) ==
  /\ pc[s] = "locating"
  /\ SetStatus("DOWNLOADING") /\ Goto(s, "downloading")
  /\ UNCHANGED <<queue, up, at, uploads, crashes, history>>

\* A cancellation that comes after the last chunk is not noticed any more.
Download(s) ==
  /\ pc[s] = "downloading"
  /\ Goto(s, IF cancelRequested THEN "cancelling" ELSE "fetched")
  /\ UNCHANGED <<row, queue, up, at, uploads, crashes, history>>

Verify(s) ==
  /\ pc[s] = "fetched"
  /\ SetStatus("VERIFYING") /\ Goto(s, "verified")
  /\ UNCHANGED <<queue, up, at, uploads, crashes, history>>

\* Faulty: the row is left to a statement outside the transaction.
HandOffUnmarked(s) ==
  /\ pc[s] = "verified"
  /\ uploads' = uploads + 1 /\ Goto(s, "handed")
  /\ UNCHANGED <<row, queue, up, at, crashes, history>>

\* One transaction: the upload, its job, COMPLETED.
HandOff(s) ==
  /\ pc[s] = "verified"
  /\ SetStatus("COMPLETED") /\ uploads' = uploads + 1 /\ Goto(s, "handed")
  /\ UNCHANGED <<queue, up, at, crashes, history>>

\* The entry in the audit log fails inside the same try: the catch writes over COMPLETED, and
\* the file is fetched again.
Disown(s) ==
  /\ pc[s] = "handed" /\ crashes < MaxCrashes
  /\ crashes' = crashes + 1 /\ severed' = TRUE /\ disowned' = disowned + 1
  /\ SetStatus(IF attempt[s] >= MaxAttempts THEN "FAILED" ELSE "PENDING")
  /\ failures' = failures + 1
  /\ overrun' = (overrun \/ Fetchers # {})
  /\ Goto(s, "failing")
  /\ UNCHANGED <<queue, up, at, uploads, resets, stale, crossed>>

MarkCancelled(s) ==
  /\ pc[s] = "cancelling"
  /\ SetStatus("CANCELLED") /\ Goto(s, "done")
  /\ UNCHANGED <<queue, up, at, uploads, crashes, history>>

\* Faulty: an error worth another attempt never ends the row.
FailForNow(s) ==
  /\ pc[s] \in Fetching \ {"cancelling"}
  /\ SetStatus("PENDING") /\ Goto(s, "failing")
  /\ failures' = failures + 1
  /\ UNCHANGED <<queue, up, at, uploads, crashes, resets, overrun, stale, crossed,
                 severed, disowned>>

\* The catch of the handler.  The row is closed by an error that would recur, or one of an
\* account that has no access, or with its last attempt; the queue is told whether the error
\* itself is worth another attempt.
Fail(s) ==
  /\ pc[s] \in Fetching \ {"cancelling"}
  /\ \E retryable, recurs \in BOOLEAN :
       /\ ~retryable => recurs
       /\ pc[s] \in {"fetched", "verified"} => ~recurs
       /\ SetStatus(IF recurs \/ attempt[s] >= MaxAttempts THEN "FAILED" ELSE "PENDING")
       /\ Goto(s, IF retryable THEN "failing" ELSE "burning")
  /\ failures' = failures + 1
  /\ UNCHANGED <<queue, up, at, uploads, crashes, resets, overrun, stale, crossed,
                 severed, disowned>>

\* A statement of the handler fails, of the catch included, or the one that completes the
\* entry: the row stays as it is.
Break(s) ==
  /\ pc[s] \in Fetching \cup {"reading", "claiming", "handed", "done"} /\ crashes < MaxCrashes
  /\ crashes' = crashes + 1 /\ severed' = TRUE
  /\ Goto(s, "failing")
  /\ UNCHANGED <<row, queue, up, at, uploads, resets, failures, overrun, stale, crossed, disowned>>

\* The statement that fails the entry fails itself: it stays active without a slot.
Drop(s) ==
  /\ pc[s] \in {"failing", "burning"} /\ crashes < MaxCrashes
  /\ crashes' = crashes + 1 /\ severed' = TRUE
  /\ Release(s)
  /\ UNCHANGED <<row, queue, up, at, uploads, resets, failures, overrun, stale, crossed, disowned>>

\* handleJob: complete, fail or failPermanently.
Settle(s) ==
  /\ \/ /\ pc[s] \in {"handed", "done"} /\ jobStatus' = [jobStatus EXCEPT ![held[s]] = "completed"]
        /\ UNCHANGED jobAttempts
     \/ /\ pc[s] = "failing"
        /\ jobStatus' = [jobStatus EXCEPT ![held[s]] =
                           IF jobAttempts[held[s]] < MaxAttempts THEN "pending" ELSE "failed"]
        /\ UNCHANGED jobAttempts
     \/ /\ pc[s] = "burning" /\ jobStatus' = [jobStatus EXCEPT ![held[s]] = "failed"]
        /\ jobAttempts' = [jobAttempts EXCEPT ![held[s]] = IF @ < MaxAttempts THEN MaxAttempts
                                                                              ELSE @]
  /\ Release(s)
  /\ UNCHANGED <<row, up, at, uploads, crashes, history>>

Crash ==
  /\ up /\ crashes < MaxCrashes
  /\ crashes' = crashes + 1 /\ up' = FALSE
  /\ pc' = [s \in Slots |-> "idle"] /\ held' = [s \in Slots |-> None]
  /\ attempt' = [s \in Slots |-> 0]
  /\ UNCHANGED <<row, queue, at, uploads, history>>

Refund(n) == IF n > 0 THEN n - 1 ELSE 0

\* Faulty: the entry gets its attempt back, the row does not.
RestartUnrefunded ==
  /\ ~up /\ up' = TRUE
  /\ jobStatus' = [j \in Jobs |-> IF jobStatus[j] = "active" THEN "pending" ELSE jobStatus[j]]
  /\ jobAttempts' = [j \in Jobs |-> IF jobStatus[j] = "active" THEN Refund(jobAttempts[j])
                                                               ELSE jobAttempts[j]]
  /\ SetStatus(IF status \in MidFlight THEN "PENDING" ELSE status)
  /\ UNCHANGED <<slots, at, uploads, crashes, history>>

\* releaseOrphans, and resetStale of the row: a restart is not a failed attempt of either.
Restart ==
  /\ ~up /\ up' = TRUE
  /\ jobStatus' = [j \in Jobs |-> IF jobStatus[j] = "active" THEN "pending" ELSE jobStatus[j]]
  /\ jobAttempts' = [j \in Jobs |-> IF jobStatus[j] = "active" THEN Refund(jobAttempts[j])
                                                               ELSE jobAttempts[j]]
  /\ status' = IF status \in MidFlight THEN "PENDING" ELSE status
  /\ attempts' = IF status \in MidFlight THEN Refund(attempts) ELSE attempts
  /\ UNCHANGED <<cancelRequested, slots, at, uploads, crashes, history>>

Next ==
  \/ \E c \in Requests : \/ Create(c) \/ Enqueue(c) \/ Retry(c) \/ Reset(c) \/ Clear(c)
                         \/ Cancel(c) \/ Sweep(c) \/ CutOff(c)
  \/ \E s \in Slots : \/ ClaimEntry(s) \/ Read(s) \/ ClaimRow(s) \/ BeginDownload(s)
                      \/ Download(s) \/ Verify(s) \/ HandOff(s) \/ Disown(s)
                      \/ MarkCancelled(s) \/ Fail(s) \/ Break(s) \/ Settle(s) \/ Drop(s)
  \/ Crash \/ Restart

Spec == Init /\ [][Next]_vars

-----------------------------------------------------------------------------
(* Properties *)

\* claimForDownload: "two queue entries pointing at the same job cannot both start
\* downloading it".  They can only if a retry, having found the row closed, set it PENDING
\* after another had reopened it and a slot had begun.
OneFetchUnlessOverrun == ~overrun => Cardinality(Fetchers) <= 1

\* However crashes, failures and stale entries fall, the bot's request and each retry give
\* one upload at most, and so does a hand-off whose run failed behind it (worker/mtproto.ts,
\* "land together or not at all").
OneUploadPerRequest == uploads <= 1 + resets + disowned

\* "a restart during a multi-hour download is not a failed attempt": a run may close the row
\* for want of attempts only after as many runs have failed.
RestartIsNoFailure == \A s \in Fetchers : attempt[s] <= failures + 1 \/ stale

\* A row in flight has an entry or a slot that will end it: the queue does not give up, or
\* call an entry done, before the row is closed; although the two count their attempts apart.
\* Not so once somebody asked to cancel it (or did while a retry was clearing the flag), a
\* retry met an older entry, or a statement failed.
FetchIsAttended ==
  status \in Active /\ ~cancelRequested /\ ~stale /\ ~crossed /\ ~severed =>
    \/ \E j \in Jobs : jobStatus[j] = "pending"
    \/ \E j \in Jobs : /\ jobStatus[j] = "active"
                       /\ \A s \in Slots : held[s] = j => pc[s] \notin {"handed", "done"}
    \/ \E c \in Requests : at[c] \in {"clearing", "enqueueing"}

=============================================================================
