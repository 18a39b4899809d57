--------------------------- MODULE UploadLifecycle ---------------------------
(***************************************************************************)
(* One upload from acceptance to a terminal status.  Three processes share *)
(* two PostgreSQL tables and nothing else:                                 *)
(*   - the intake (bot, direct upload endpoint, handoff of an assembled or *)
(*     fetched file) writes the uploads row and its job;                   *)
(*   - a worker claims jobs into a fixed number of slots and runs          *)
(*     processUpload, one database statement at a time;                    *)
(*   - the API cancels and retries uploads on a person's behalf.           *)
(* A worker or the intake may die between any two statements, and any      *)
(* statement of a run may fail.                                            *)
(*                                                                         *)
(* Abstractions: run_after and the order of claims (a pending job may be   *)
(* claimed at any later time: the backoff has passed), lanes, progress and *)
(* messages, and what the file operations do beyond succeeding, failing    *)
(* for good or failing for now.                                            *)
(***************************************************************************)
EXTENDS Naturals, FiniteSets

CONSTANTS
  Uploads,          \* ids of the uploads table
  Jobs,             \* ids of the jobs table: at most this many are ever inserted
  Workers,          \* worker processes
  Slots,            \* job slots of all workers together
  Owner,            \* the worker a slot belongs to
  Clients,          \* requests the API serves at the same time
  MaxAttempts,      \* config.worker.maxAttempts, given to a first job
  RetryAttempts,    \* the max_attempts enqueue defaults to, given to a retry's job
  MaxCrashes,       \* bound on crashes of a worker or of the intake, and on lost settlements
  None              \* "no upload", "no job"

ASSUME OwnerType == Owner \in [Slots -> Workers]
ASSUME AttemptsType == MaxAttempts \in Nat \ {0} /\ RetryAttempts \in Nat \ {0}
ASSUME CrashesType == MaxCrashes \in Nat
ASSUME NoneIsNoId == None \notin Uploads /\ None \notin Jobs

VARIABLES
  status,           \* uploads.status
  cancelRequested,  \* uploads.cancel_requested
  filed,            \* the upload has a media row whose file exists
  intake,           \* how far the process accepting the upload has come
  jobStatus,        \* jobs.status, "free" before the row is inserted
  jobUpload,        \* jobs.upload_id
  attempts,         \* jobs.attempts
  maxAttempts,      \* jobs.max_attempts
  phase,            \* "down", "recovering" or "running", by worker
  pc,               \* the next statement of the run a slot holds
  held,             \* the job a slot runs
  request,          \* what an API request has read or locked so far
  crashes,          \* crashes and lost settlements so far
  abandoned,        \* uploads cut off from the statement that would settle them
  dropped           \* jobs left active because the statement that settles them failed

tables == <<status, cancelRequested, filed, jobStatus, jobUpload, attempts, maxAttempts>>
slotVars == <<pc, held>>
vars == <<tables, intake, phase, slotVars, request, crashes, abandoned, dropped>>

-----------------------------------------------------------------------------
(* Rows and statuses *)

Terminal == {"COMPLETED", "FAILED", "CANCELLED", "DUPLICATE", "NEEDS_REVIEW"}
MidFlight == {"DOWNLOADING", "PROCESSING", "ORGANIZING", "JELLYFIN_SCAN"}
Waiting == {"RECEIVED", "QUEUED"}
Status == Terminal \cup MidFlight \cup Waiting \cup {"ABSENT"}
JobStatus == {"free", "pending", "active", "completed", "cancelled", "failed"}
Settled == {"completed", "cancelled", "failed"}

\* Statements of a run, in order; the last five settle it.
Stages == {"start", "prior", "downloading", "fetched", "processing", "identified",
           "deduped", "organizing", "filed", "scanning"}
Endings == {"finished", "cancelling", "cancelled", "failed"}

Unfinished(u) == status[u] \in MidFlight \cup Waiting
LiveJob(j) == jobStatus[j] \in {"pending", "active"}
HasLiveJob(u) == \E j \in Jobs : jobUpload[j] = u /\ LiveJob(j)
Idle(s) == pc[s] = "idle"
UploadOf(s) == jobUpload[held[s]]

NoRequest == [kind |-> "none", upload |-> None, swept |-> {}]
\* requestCancel's first UPDATE holds the row lock until its transaction ends.
Locked(u) == \E c \in Clients : request[c].kind = "cancel" /\ request[c].upload = u
Swept(j) == \E c \in Clients : j \in request[c].swept

TypeOK ==
  /\ status \in [Uploads -> Status]
  /\ cancelRequested \in [Uploads -> BOOLEAN]
  /\ filed \in [Uploads -> BOOLEAN]
  /\ intake \in [Uploads -> {"none", "received", "queued", "done"}]
  /\ jobStatus \in [Jobs -> JobStatus]
  /\ jobUpload \in [Jobs -> Uploads \cup {None}]
  /\ attempts \in [Jobs -> Nat]
  /\ maxAttempts \in [Jobs -> Nat]
  /\ phase \in [Workers -> {"down", "recovering", "running"}]
  /\ pc \in [Slots -> Stages \cup Endings \cup {"idle"}]
  /\ held \in [Slots -> Jobs \cup {None}]
  /\ request \in [Clients -> [kind : {"none", "cancel", "retry"},
                              upload : Uploads \cup {None},
                              swept : SUBSET Jobs]]
  /\ crashes \in Nat
  /\ abandoned \in SUBSET Uploads
  /\ dropped \in SUBSET Jobs

Init ==
  /\ status = [u \in Uploads |-> "ABSENT"]
  /\ cancelRequested = [u \in Uploads |-> FALSE]
  /\ filed = [u \in Uploads |-> FALSE]
  /\ intake = [u \in Uploads |-> "none"]
  /\ jobStatus = [j \in Jobs |-> "free"]
  /\ jobUpload = [j \in Jobs |-> None]
  /\ attempts = [j \in Jobs |-> 0]
  /\ maxAttempts = [j \in Jobs |-> 0]
  /\ phase = [w \in Workers |-> "down"]
  /\ pc = [s \in Slots |-> "idle"]
  /\ held = [s \in Slots |-> None]
  /\ request = [c \in Clients |-> NoRequest]
  /\ crashes = 0
  /\ abandoned = {}
  /\ dropped = {}

\* uploadsRepo.setStatus: unconditional, but it waits for a lock on the row.
SetStatus(u, st) == ~Locked(u) /\ status' = [status EXCEPT ![u] = st]

\* jobsRepo.enqueue
Enqueue(u, max) ==
  \E j \in Jobs :
    /\ jobStatus[j] = "free"
    /\ jobStatus' = [jobStatus EXCEPT ![j] = "pending"]
    /\ jobUpload' = [jobUpload EXCEPT ![j] = u]
    /\ attempts' = [attempts EXCEPT ![j] = 0]
    /\ maxAttempts' = [maxAttempts EXCEPT ![j] = max]

-----------------------------------------------------------------------------
(* Intake *)

\* The bot inserts at RECEIVED, the direct endpoint at QUEUED.
Accept(u) ==
  /\ intake[u] = "none"
  /\ \E first \in {"received", "queued"} :
       /\ intake' = [intake EXCEPT ![u] = first]
       /\ status' = [status EXCEPT ![u] = IF first = "received" THEN "RECEIVED" ELSE "QUEUED"]
  /\ UNCHANGED <<cancelRequested, filed, jobStatus, jobUpload, attempts, maxAttempts,
                 phase, slotVars, request, crashes, abandoned, dropped>>

MarkQueued(u) ==
  /\ intake[u] = "received"
  /\ SetStatus(u, "QUEUED")
  /\ intake' = [intake EXCEPT ![u] = "queued"]
  /\ UNCHANGED <<cancelRequested, filed, jobStatus, jobUpload, attempts, maxAttempts,
                 phase, slotVars, request, crashes, abandoned, dropped>>

EnqueueFirst(u) ==
  /\ intake[u] = "queued"
  /\ Enqueue(u, MaxAttempts)
  /\ intake' = [intake EXCEPT ![u] = "done"]
  /\ UNCHANGED <<status, cancelRequested, filed, phase, slotVars, request, crashes, abandoned,
                 dropped>>

\* A finished multi-part session or MTProto fetch: row and job in one transaction.
HandOff(u) ==
  /\ intake[u] = "none"
  /\ status' = [status EXCEPT ![u] = "QUEUED"]
  /\ Enqueue(u, MaxAttempts)
  /\ intake' = [intake EXCEPT ![u] = "done"]
  /\ UNCHANGED <<cancelRequested, filed, phase, slotVars, request, crashes, abandoned, dropped>>

IntakeCrash(u) ==
  /\ intake[u] \in {"received", "queued"}
  /\ crashes < MaxCrashes
  /\ crashes' = crashes + 1
  /\ intake' = [intake EXCEPT ![u] = "done"]
  /\ abandoned' = abandoned \cup {u}
  /\ UNCHANGED <<tables, phase, slotVars, request, dropped>>

-----------------------------------------------------------------------------
(* Worker: start, crash, claim *)

\* Faulty: jobs on their last attempt are not released.
ReleaseSomeOrphans(w) ==
  /\ phase[w] = "down"
  /\ phase' = [phase EXCEPT ![w] = "recovering"] /\ dropped' = {}
  /\ LET orphans == {j \in Jobs : jobStatus[j] = "active" /\ attempts[j] < maxAttempts[j]}
     IN /\ jobStatus' = [j \in Jobs |-> IF j \in orphans THEN "pending" ELSE jobStatus[j]]
        /\ attempts' = [j \in Jobs |-> IF j \in orphans THEN attempts[j] - 1 ELSE attempts[j]]
  /\ UNCHANGED <<status, cancelRequested, filed, jobUpload, maxAttempts, intake, slotVars,
                 request, crashes, abandoned>>

\* The unfiltered form, the only one main() calls.
ReleaseOrphans(w) ==
  /\ phase[w] = "down"
  /\ phase' = [phase EXCEPT ![w] = "recovering"] /\ dropped' = {}
  /\ jobStatus' = [j \in Jobs |-> IF jobStatus[j] = "active" THEN "pending" ELSE jobStatus[j]]
  /\ attempts' = [j \in Jobs |-> IF jobStatus[j] = "active" /\ attempts[j] > 0
                                   THEN attempts[j] - 1 ELSE attempts[j]]
  /\ UNCHANGED <<status, cancelRequested, filed, jobUpload, maxAttempts, intake, slotVars,
                 request, crashes, abandoned>>

ResetStale(w) ==
  /\ phase[w] = "recovering"
  /\ \A u \in Uploads : status[u] \in MidFlight => ~Locked(u)
  /\ phase' = [phase EXCEPT ![w] = "running"]
  /\ status' = [u \in Uploads |-> IF status[u] \in MidFlight THEN "QUEUED" ELSE status[u]]
  /\ UNCHANGED <<cancelRequested, filed, jobStatus, jobUpload, attempts, maxAttempts, intake,
                 slotVars, request, crashes, abandoned, dropped>>

WorkerCrash(w) ==
  /\ phase[w] # "down"
  /\ crashes < MaxCrashes
  /\ crashes' = crashes + 1
  /\ phase' = [phase EXCEPT ![w] = "down"]
  /\ abandoned' = abandoned \cup {UploadOf(s) : s \in {t \in Slots : Owner[t] = w /\ pc[t] = "failed"}}
  /\ pc' = [s \in Slots |-> IF Owner[s] = w THEN "idle" ELSE pc[s]]
  /\ held' = [s \in Slots |-> IF Owner[s] = w THEN None ELSE held[s]]
  /\ UNCHANGED <<tables, intake, request, dropped>>

\* Faulty: the claim does not look at the job's status.
ClaimAnything(s) ==
  /\ phase[Owner[s]] = "running" /\ Idle(s)
  /\ \E j \in Jobs :
       /\ LiveJob(j) /\ ~Swept(j)
       /\ jobStatus' = [jobStatus EXCEPT ![j] = "active"]
       /\ attempts' = [attempts EXCEPT ![j] = @ + 1]
       /\ held' = [held EXCEPT ![s] = j]
  /\ pc' = [pc EXCEPT ![s] = "start"]
  /\ UNCHANGED <<status, cancelRequested, filed, jobUpload, maxAttempts, intake, phase, request,
                 crashes, abandoned, dropped>>

\* Faulty: the claim reads past another transaction's uncommitted UPDATE.
ClaimUnlocked(s) ==
  /\ phase[Owner[s]] = "running" /\ Idle(s)
  /\ \E j \in Jobs :
       /\ jobStatus[j] = "pending"
       /\ jobStatus' = [jobStatus EXCEPT ![j] = "active"]
       /\ attempts' = [attempts EXCEPT ![j] = @ + 1]
       /\ held' = [held EXCEPT ![s] = j]
  /\ pc' = [pc EXCEPT ![s] = "start"]
  /\ UNCHANGED <<status, cancelRequested, filed, jobUpload, maxAttempts, intake, phase, request,
                 crashes, abandoned, dropped>>

\* FOR UPDATE SKIP LOCKED: a row another transaction holds is passed over.
Claim(s) ==
  /\ phase[Owner[s]] = "running" /\ Idle(s)
  /\ \E j \in Jobs :
       /\ jobStatus[j] = "pending" /\ ~Swept(j)
       /\ jobStatus' = [jobStatus EXCEPT ![j] = "active"]
       /\ attempts' = [attempts EXCEPT ![j] = @ + 1]
       /\ held' = [held EXCEPT ![s] = j]
  /\ pc' = [pc EXCEPT ![s] = "start"]
  /\ UNCHANGED <<status, cancelRequested, filed, jobUpload, maxAttempts, intake, phase, request,
                 crashes, abandoned, dropped>>

-----------------------------------------------------------------------------
(* Worker: one run of processUpload *)

Goto(s, next) == pc' = [pc EXCEPT ![s] = next] /\ UNCHANGED held
Release(s) == pc' = [pc EXCEPT ![s] = "idle"] /\ held' = [held EXCEPT ![s] = None]
\* checkCancel: what the run does next if the flag is not up.
Checkpoint(s, next) == Goto(s, IF cancelRequested[UploadOf(s)] THEN "cancelling" ELSE next)

OnlySlots == UNCHANGED <<tables, intake, phase, request, crashes, abandoned, dropped>>
OnlyStatus == UNCHANGED <<cancelRequested, filed, jobStatus, jobUpload, attempts, maxAttempts,
                          intake, phase, request, crashes, abandoned, dropped>>
OnlyJob == UNCHANGED <<status, cancelRequested, filed, jobUpload, maxAttempts, intake, phase,
                       request, crashes, abandoned, dropped>>

Start(s) == pc[s] = "start" /\ Checkpoint(s, "prior") /\ OnlySlots

\* "Already filed?": a row whose file exists resumes at the Jellyfin step.
ResumeFiled(s) == pc[s] = "prior" /\ filed[UploadOf(s)] /\ Goto(s, "filed") /\ OnlySlots

\* Faulty: no look at an earlier attempt's media row.
BeginDownloadAnyway(s) ==
  /\ pc[s] = "prior"
  /\ SetStatus(UploadOf(s), "DOWNLOADING") /\ Goto(s, "downloading") /\ OnlyStatus

BeginDownload(s) ==
  /\ pc[s] = "prior" /\ ~filed[UploadOf(s)]
  /\ SetStatus(UploadOf(s), "DOWNLOADING") /\ Goto(s, "downloading") /\ OnlyStatus

\* The fetch, which polls shouldCancel, and the checkpoint behind it.
Download(s) == pc[s] = "downloading" /\ Checkpoint(s, "fetched") /\ OnlySlots

BeginProcessing(s) ==
  /\ pc[s] = "fetched"
  /\ SetStatus(UploadOf(s), "PROCESSING") /\ Goto(s, "processing") /\ OnlyStatus

Identify(s) == pc[s] = "processing" /\ Checkpoint(s, "identified") /\ OnlySlots

Park(s) ==
  /\ pc[s] = "processing"
  /\ SetStatus(UploadOf(s), "NEEDS_REVIEW") /\ Goto(s, "finished") /\ OnlyStatus

NotDuplicate(s) == pc[s] = "identified" /\ Checkpoint(s, "deduped") /\ OnlySlots

Duplicate(s) ==
  /\ pc[s] = "identified"
  /\ SetStatus(UploadOf(s), "DUPLICATE") /\ Goto(s, "finished") /\ OnlyStatus

BeginOrganizing(s) ==
  /\ pc[s] = "deduped"
  /\ SetStatus(UploadOf(s), "ORGANIZING") /\ Goto(s, "organizing") /\ OnlyStatus

\* The media row, then the move.
File(s) ==
  /\ pc[s] = "organizing"
  /\ filed' = [filed EXCEPT ![UploadOf(s)] = TRUE]
  /\ Goto(s, "filed")
  /\ UNCHANGED <<status, cancelRequested, jobStatus, jobUpload, attempts, maxAttempts, intake,
                 phase, request, crashes, abandoned, dropped>>

BeginScan(s) ==
  /\ pc[s] = "filed"
  /\ SetStatus(UploadOf(s), "JELLYFIN_SCAN") /\ Goto(s, "scanning") /\ OnlyStatus

Complete(s) ==
  /\ pc[s] = "scanning"
  /\ SetStatus(UploadOf(s), "COMPLETED") /\ Goto(s, "finished") /\ OnlyStatus

MarkCancelled(s) ==
  /\ pc[s] = "cancelling"
  /\ SetStatus(UploadOf(s), "CANCELLED") /\ Goto(s, "cancelled") /\ OnlyStatus

\* handleJob once processUpload has returned: jobs.complete or jobs.cancel, by id.
SettleJob(s) ==
  /\ pc[s] \in {"finished", "cancelled"}
  /\ jobStatus' = [jobStatus EXCEPT ![held[s]] = IF pc[s] = "finished" THEN "completed"
                                                                      ELSE "cancelled"]
  /\ Release(s)
  /\ UNCHANGED attempts /\ OnlyJob

\* Faulty: <= for < in jobs.fail.
FailOnceTooOften(s) ==
  /\ ~Idle(s) /\ pc[s] # "failed"
  /\ IF attempts[held[s]] <= maxAttempts[held[s]]
       THEN jobStatus' = [jobStatus EXCEPT ![held[s]] = "pending"] /\ Release(s)
       ELSE jobStatus' = [jobStatus EXCEPT ![held[s]] = "failed"] /\ Goto(s, "failed")
  /\ UNCHANGED attempts /\ OnlyJob

\* Faulty: the last failure ends the job and forgets the upload.
FailJobOnly(s) ==
  /\ ~Idle(s) /\ pc[s] # "failed"
  /\ jobStatus' = [jobStatus EXCEPT ![held[s]] =
                     IF attempts[held[s]] < maxAttempts[held[s]] THEN "pending" ELSE "failed"]
  /\ Release(s)
  /\ UNCHANGED attempts /\ OnlyJob

\* A retryable error, or any failed statement, one behind the terminal status included (the
\* audit log, jobs.complete): jobs.fail decides whether to retry.
FailForNow(s) ==
  /\ ~Idle(s) /\ pc[s] # "failed"
  /\ IF attempts[held[s]] < maxAttempts[held[s]]
       THEN jobStatus' = [jobStatus EXCEPT ![held[s]] = "pending"] /\ Release(s)
       ELSE jobStatus' = [jobStatus EXCEPT ![held[s]] = "failed"] /\ Goto(s, "failed")
  /\ UNCHANGED attempts /\ OnlyJob

\* An error that would recur identically: failPermanently burns the attempts left.
FailForGood(s) ==
  /\ pc[s] \in {"downloading", "processing", "identified", "organizing"}
  /\ jobStatus' = [jobStatus EXCEPT ![held[s]] = "failed"]
  /\ attempts' = [attempts EXCEPT ![held[s]] = IF @ < maxAttempts[held[s]]
                                                 THEN maxAttempts[held[s]] ELSE @]
  /\ Goto(s, "failed") /\ OnlyJob

\* A separate statement after the job has failed, whatever happened in between.
MarkFailed(s) ==
  /\ pc[s] = "failed"
  /\ SetStatus(UploadOf(s), "FAILED") /\ Release(s) /\ OnlyStatus

\* jobs.fail, or the FAILED behind it, fails itself: nothing catches that, the slot is freed.
Drop(s) ==
  /\ ~Idle(s) /\ crashes < MaxCrashes
  /\ crashes' = crashes + 1
  /\ Release(s)
  /\ IF pc[s] = "failed"
       THEN abandoned' = abandoned \cup {UploadOf(s)} /\ UNCHANGED dropped
       ELSE dropped' = dropped \cup {held[s]} /\ UNCHANGED abandoned
  /\ UNCHANGED <<tables, intake, phase, request>>

Run(s) ==
  \/ Start(s) \/ ResumeFiled(s) \/ BeginDownload(s) \/ Download(s) \/ BeginProcessing(s)
  \/ Identify(s) \/ Park(s) \/ NotDuplicate(s) \/ Duplicate(s) \/ BeginOrganizing(s)
  \/ File(s) \/ BeginScan(s) \/ Complete(s) \/ MarkCancelled(s) \/ SettleJob(s)
  \/ FailForNow(s) \/ FailForGood(s) \/ MarkFailed(s)

-----------------------------------------------------------------------------
(* API *)

\* requestCancel's two UPDATEs: the row is locked, its pending jobs are
\* marked, and nothing is visible to others before the commit.
CancelBegin(c) ==
  /\ request[c].kind = "none"
  /\ \E u \in Uploads :
       /\ Unfinished(u) /\ ~Locked(u)
       /\ request' = [request EXCEPT ![c] =
            [kind |-> "cancel", upload |-> u,
             swept |-> {j \in Jobs : jobUpload[j] = u /\ jobStatus[j] = "pending"}]]
  /\ UNCHANGED <<tables, intake, phase, slotVars, crashes, abandoned, dropped>>

\* Faulty: CANCELLED although a run is on.
CancelRegardless(c) ==
  /\ request[c].kind = "cancel"
  /\ cancelRequested' = [cancelRequested EXCEPT ![request[c].upload] = TRUE]
  /\ status' = [status EXCEPT ![request[c].upload] = "CANCELLED"]
  /\ jobStatus' = [j \in Jobs |-> IF j \in request[c].swept THEN "cancelled" ELSE jobStatus[j]]
  /\ request' = [request EXCEPT ![c] = NoRequest]
  /\ UNCHANGED <<filed, jobUpload, attempts, maxAttempts, intake, phase, slotVars, crashes,
                 abandoned, dropped>>

\* Faulty: the flag is left to a run even when there is none.
CancelByFlag(c) ==
  /\ request[c].kind = "cancel"
  /\ cancelRequested' = [cancelRequested EXCEPT ![request[c].upload] = TRUE]
  /\ jobStatus' = [j \in Jobs |-> IF j \in request[c].swept THEN "cancelled" ELSE jobStatus[j]]
  /\ request' = [request EXCEPT ![c] = NoRequest]
  /\ UNCHANGED <<status, filed, jobUpload, attempts, maxAttempts, intake, phase, slotVars,
                 crashes, abandoned, dropped>>

\* Its SELECT of an active job, the conditional CANCELLED, the commit.
CancelCommit(c) ==
  /\ request[c].kind = "cancel"
  /\ LET u == request[c].upload
         running == \E j \in Jobs : jobUpload[j] = u /\ jobStatus[j] = "active"
     IN /\ cancelRequested' = [cancelRequested EXCEPT ![u] = TRUE]
        /\ status' = [status EXCEPT ![u] = IF running THEN @ ELSE "CANCELLED"]
  /\ jobStatus' = [j \in Jobs |-> IF j \in request[c].swept THEN "cancelled" ELSE jobStatus[j]]
  /\ request' = [request EXCEPT ![c] = NoRequest]
  /\ UNCHANGED <<filed, jobUpload, attempts, maxAttempts, intake, phase, slotVars, crashes,
                 abandoned, dropped>>

\* The bound on retries: they leave a free id for every upload still to be enqueued.
RoomForRetry == Cardinality({j \in Jobs : jobStatus[j] = "free"})
                  > Cardinality({u \in Uploads : intake[u] # "done"})

\* The retry handlers read the status and answer 409 for any other.
RetryCheck(c) ==
  /\ request[c].kind = "none"
  /\ \E u \in Uploads :
       /\ status[u] \in {"FAILED", "CANCELLED"}
       /\ request' = [request EXCEPT ![c] = [kind |-> "retry", upload |-> u, swept |-> {}]]
  /\ UNCHANGED <<tables, intake, phase, slotVars, crashes, abandoned, dropped>>

\* retryUpload: reset and enqueue in one transaction, whatever the status is by now.
RetryCommit(c) ==
  /\ request[c].kind = "retry" /\ RoomForRetry
  /\ LET u == request[c].upload
     IN /\ SetStatus(u, "QUEUED")
        /\ cancelRequested' = [cancelRequested EXCEPT ![u] = FALSE]
        /\ Enqueue(u, RetryAttempts)
        /\ abandoned' = abandoned \ {u}
  /\ request' = [request EXCEPT ![c] = NoRequest]
  /\ UNCHANGED <<filed, intake, phase, slotVars, crashes, dropped>>

-----------------------------------------------------------------------------

Next ==
  \/ \E u \in Uploads : \/ Accept(u) \/ MarkQueued(u) \/ EnqueueFirst(u) \/ HandOff(u)
                        \/ IntakeCrash(u)
  \/ \E w \in Workers : ReleaseOrphans(w) \/ ResetStale(w) \/ WorkerCrash(w)
  \/ \E s \in Slots : Claim(s) \/ Run(s) \/ Drop(s)
  \/ \E c \in Clients : CancelBegin(c) \/ CancelCommit(c) \/ RetryCheck(c) \/ RetryCommit(c)

Spec == Init /\ [][Next]_vars

\* The worker is restarted after a crash (systemd, Restart=on-failure), its loop keeps
\* claiming, every statement of a run or of a request returns; one that waits for a row
\* lock is queued by PostgreSQL and gets it, hence strong fairness.  Nobody need accept,
\* cancel or retry anything, and nothing need crash.
Fairness ==
  /\ \A w \in Workers : WF_vars(ReleaseOrphans(w)) /\ SF_vars(ResetStale(w))
  /\ \A s \in Slots : WF_vars(Claim(s)) /\ SF_vars(Run(s))
  /\ \A c \in Clients : WF_vars(CancelCommit(c))
  /\ \A u \in Uploads : SF_vars(MarkQueued(u)) /\ WF_vars(EnqueueFirst(u))

FairSpec == Spec /\ Fairness

-----------------------------------------------------------------------------
(* Properties *)

\* No job runs twice at the same time: no two slots hold one job, a held job is active
\* until its run settles it.  Claiming is the only mutual exclusion between runs, and
\* nothing a run does later re-checks it (worker/index.ts, "running a second worker
\* process is safe").
OneRunPerJob ==
  \A s \in Slots : ~Idle(s) =>
    /\ jobStatus[held[s]] = IF pc[s] = "failed" THEN "failed" ELSE "active"
    /\ \A t \in Slots : held[t] = held[s] => t = s

\* A job has no lease: one left active without a slot waits for the next restart.  While
\* the worker is up there is none but those whose settlement failed.
ActiveJobsAreHeld ==
  (\A w \in Workers : phase[w] # "down") =>
    \A j \in Jobs : jobStatus[j] = "active" => j \in dropped \/ \E s \in Slots : held[s] = j

\* Whatever crashes and refunds happen, a job waiting to run has an attempt left and a
\* running one has been counted exactly once more than it may still fail.
AttemptBudget ==
  \A j \in Jobs :
    /\ jobStatus[j] = "pending" => attempts[j] < maxAttempts[j]
    /\ jobStatus[j] = "active" => attempts[j] \in 1..maxAttempts[j]

\* Every settling statement names the job by id alone; none brings a settled job back.
SettledJobsStaySettled ==
  [][\A j \in Jobs : jobStatus[j] \in Settled => jobStatus'[j] = jobStatus[j]]_vars

\* Some statement still to come will finish upload u.
HasSomeoneToFinish(u) ==
  \/ HasLiveJob(u)
  \/ intake[u] \in {"received", "queued"}
  \/ \E s \in Slots : pc[s] = "failed" /\ UploadOf(s) = u

\* An accepted upload that nobody asked to cancel is never stuck: it has a live job, or
\* the statement that would enqueue or fail it is next.  The exception is an upload cut off
\* from exactly that statement.
NoStranding ==
  \A u \in Uploads :
    Unfinished(u) /\ ~cancelRequested[u] => HasSomeoneToFinish(u) \/ u \in abandoned

\* requestCancel: "the upload would otherwise sit at QUEUED forever".  A cancelled upload
\* is finished by its run, or was finished by the cancellation.
NoStrandingByCancel ==
  \A u \in Uploads :
    Unfinished(u) /\ cancelRequested[u] => HasSomeoneToFinish(u) \/ u \in abandoned

RetriedOnce(u) == \E i, j \in Jobs : i # j /\ jobUpload[i] = u /\ jobUpload[j] = u

\* A filed upload is not fetched again or found to be a duplicate of itself, whatever
\* crashes intervene; only a retry, which adds a second job, can do that.
FiledIsNotRedone ==
  \A u \in Uploads : filed[u] /\ ~RetriedOnce(u) =>
    /\ status[u] \notin {"DUPLICATE", "NEEDS_REVIEW"}
    /\ \A s \in Slots : ~Idle(s) /\ UploadOf(s) = u =>
         pc[s] \in {"start", "prior", "filed", "scanning"} \cup Endings

\* Once an upload reads CANCELLED no run of it is past its last checkpoint, so it is not
\* filed behind the sender's back; again unless a retry gave it a second job.
CancelledIsNotFiled ==
  \A u \in Uploads : status[u] = "CANCELLED" /\ ~RetriedOnce(u) =>
    \A s \in Slots : ~Idle(s) /\ UploadOf(s) = u =>
      pc[s] \notin {"deduped", "organizing", "filed", "scanning", "finished"}

\* An accepted upload reaches a terminal status: attempts are bounded, crashes refund one
\* but are finitely many.  The exceptions are an upload a crash cut off, one whose job waits
\* for the next restart, and one cancelled again after a retry (NoStrandingByCancel).
EveryUploadSettles ==
  \A u \in Uploads :
    Unfinished(u) ~> (~Unfinished(u) \/ u \in abandoned
                        \/ (\E j \in dropped : jobUpload[j] = u)
                        \/ (cancelRequested[u] /\ RetriedOnce(u)))

\* The abstract service: an upload is open until it has an outcome; a try is over once its job
\* is settled and no slot holds it any more.
StateOf(st) ==
  CASE st = "ABSENT" -> "absent"
    [] st \in MidFlight \cup Waiting -> "open"
    [] st = "COMPLETED" -> "completed"
    [] OTHER -> "ended"
State == [u \in Uploads |-> StateOf(status[u])]
Accepting == {u \in Uploads : intake[u] \in {"received", "queued"}}
OpenJobs == {j \in Jobs : LiveJob(j) \/ \E s \in Slots : held[s] = j}
Filed == {u \in Uploads : filed[u]}
Asked == {u \in Uploads : cancelRequested[u]}

Promised == INSTANCE Ingestion WITH
  Tries <- Jobs, state <- State, accepting <- Accepting, granted <- jobUpload,
  open <- OpenJobs, filed <- Filed, asked <- Asked, lost <- abandoned

\* An accepted upload is attended to until it has ended, a settled job is never taken up
\* again, an ended upload nobody attends to changes only by a retry, and COMPLETED means
\* filed: through every crash, refund, lost settlement, cancellation and retry.
ImplementsIngestion == Promised!Spec

=============================================================================
