--------------------------- MODULE MultipartSession ---------------------------
(***************************************************************************)
(* One multi-part upload session, from its first part to the upload it is  *)
(* handed off as.  Parts come from the bot, which queues a download for    *)
(* each, or are streamed to the API; when they are complete somebody sets  *)
(* the session READY and queues its assembly; a job slot of the worker     *)
(* claims the session and concatenates.  Worker slots, API requests, bot   *)
(* commands and the idle sweep all run processes of several statements on  *)
(* the same three rows, without a lock between them; the worker, the API   *)
(* and the bot may die between any two statements.                         *)
(*                                                                         *)
(* Abstractions: one session of one user and name; backoff and attempts (a *)
(* failed job may or may not have an attempt left); sizes, checksums and   *)
(* progress; the concatenation reads all parts in one step; a retry clears *)
(* the flag and queues the failed parts in one step; recovery after a      *)
(* restart is one step; the sweep is a request like any other, which dies  *)
(* on its own; after a day the sweep takes a part in flight for lost, here *)
(* as soon as nobody is at work on it; the statements that record a        *)
(* failure do not fail themselves (UploadLifecycle and MtprotoJob).        *)
(***************************************************************************)
EXTENDS Naturals, FiniteSets

CONSTANTS
  N,             \* parts of the file: numbers 1..N
  Slots,         \* job slots of the worker
  Requests,      \* requests, commands and sweeps at the same time
  MaxRequests,   \* bound on requests, commands and sweeps ever made
  MaxCrashes     \* bound on crashes of the worker, requests cut off, audits that fail

ASSUME PartsType == N \in Nat \ {0}
ASSUME BoundsType == MaxRequests \in Nat /\ MaxCrashes \in Nat
ASSUME ActorsType == Slots \cap Requests = {} /\ IsFiniteSet(Slots)

Parts == 1..N
Actors == Slots \cup Requests

VARIABLES
  source,           \* upload_sessions.source: "telegram" or "direct"
  declared,         \* expected_parts IS NOT NULL
  status,           \* upload_sessions.status, "NONE" before the row is inserted
  cancelRequested,  \* upload_sessions.cancel_requested
  row,              \* upload_parts.status by number, "ABSENT" before the row is inserted
  directory,        \* the session's directory exists
  disk,             \* numbers with a file in it
  downloads,        \* pending download-part jobs, by number
  assemblies,       \* pending assemble-session jobs
  up,               \* the worker is running
  at,               \* the next statement of a slot's job or of a request
  part,             \* the part it is about
  list,             \* the parts an assembler has listed
  uploads,          \* uploads created from the session
  requests, crashes,
  promised,         \* history: the parts found complete when the session was last set READY
  disturbed,        \* history: a part stopped being READY after it was promised
  rearmed,          \* history: the session was set READY during or after its assembly
  parked,           \* history: the queued assembly was given up, cancelled or cut off
  orphans           \* history: parts whose fetch was cancelled or cut off

session == <<source, declared, status, cancelRequested>>
files == <<row, directory, disk>>
queue == <<downloads, assemblies>>
actors == <<at, part, list>>
bounds == <<requests, crashes>>
history == <<promised, disturbed, rearmed, parked, orphans>>
vars == <<session, files, queue, up, actors, uploads, bounds, history>>

-----------------------------------------------------------------------------

Open == {"COLLECTING", "READY", "ASSEMBLING", "VERIFYING"}
Closed == {"COMPLETED", "FAILED", "CANCELLED", "EXPIRED"}
Downloading == {"marking", "fetching", "fetched", "counting", "checking", "arming", "queueing"}
Assembling == {"listing", "concatenating", "verifying", "handing off"}
Steps == Downloading \cup Assembling
  \cup {"idle", "giving up", "claiming", "dropping", "handed", "disowning", "cleaning",
        "upserting", "enqueueing", "streaming", "storing", "lost", "flagged", "flagged to close", "closing", "expiring",
        "reopening", "requeueing"}

TypeOK ==
  /\ source \in {"telegram", "direct"} /\ declared \in BOOLEAN
  /\ status \in Open \cup Closed \cup {"NONE"} /\ cancelRequested \in BOOLEAN
  /\ row \in [Parts -> {"ABSENT", "PENDING", "DOWNLOADING", "READY", "FAILED"}]
  /\ directory \in BOOLEAN /\ disk \in SUBSET Parts
  /\ downloads \in [Parts -> Nat] /\ assemblies \in Nat /\ up \in BOOLEAN
  /\ at \in [Actors -> Steps]
  /\ part \in [Actors -> Parts \cup {0}]
  /\ list \in [Slots -> SUBSET Parts]
  /\ uploads \in Nat /\ requests \in Nat /\ crashes \in Nat
  /\ promised \in SUBSET Parts /\ orphans \in SUBSET Parts
  /\ disturbed \in BOOLEAN /\ rearmed \in BOOLEAN /\ parked \in BOOLEAN

\* The direct uploader always declares its parts; a name sent to the bot may.
Init ==
  /\ source \in {"telegram", "direct"} /\ declared \in {TRUE, source = "direct"}
  /\ status = "NONE" /\ cancelRequested = FALSE
  /\ row = [p \in Parts |-> "ABSENT"] /\ directory = FALSE /\ disk = {}
  /\ downloads = [p \in Parts |-> 0] /\ assemblies = 0 /\ up = TRUE
  /\ at = [a \in Actors |-> "idle"] /\ part = [a \in Actors |-> 0]
  /\ list = [s \in Slots |-> {}]
  /\ uploads = 0 /\ requests = 0 /\ crashes = 0
  /\ promised = {} /\ disturbed = FALSE /\ rearmed = FALSE /\ parked = FALSE /\ orphans = {}

-----------------------------------------------------------------------------

Ready == {p \in Parts : row[p] = "READY"}
Highest(ready) == CHOOSE p \in ready : \A q \in ready : q <= p
\* missingParts(ready, expected_parts) = [], and some part is there.
NoneMissing(ready) ==
  /\ ready # {}
  /\ ready = IF declared THEN Parts ELSE 1..Highest(ready)

Goto(a, step) == at' = [at EXCEPT ![a] = step] /\ UNCHANGED <<part, list>>
Done(a) ==
  /\ at' = [at EXCEPT ![a] = "idle"]
  /\ part' = [part EXCEPT ![a] = 0]
  /\ list' = [s \in Slots |-> IF s = a THEN {} ELSE list[s]]

SetStatus(st) == status' = st /\ UNCHANGED <<source, declared, cancelRequested>>
SetRow(p, st) ==
  /\ row' = [row EXCEPT ![p] = st]
  /\ disturbed' = (disturbed \/ (p \in promised /\ row[p] = "READY" /\ st # "READY"))
  /\ UNCHANGED <<promised, rearmed, parked>>

\* A request is made, with p in hand.
Request(c, step, p) ==
  /\ at[c] = "idle" /\ requests < MaxRequests
  /\ requests' = requests + 1
  /\ at' = [at EXCEPT ![c] = step] /\ part' = [part EXCEPT ![c] = p]
  /\ UNCHANGED <<list, crashes>>

\* cleanupSessionParts: an open stream into the directory can no longer be renamed into place.
RemoveDirectory(a, next) ==
  /\ directory' = FALSE /\ disk' = {}
  /\ at' = [b \in Actors |-> IF b = a THEN next
                             ELSE IF at[b] = "streaming" THEN "lost" ELSE at[b]]
  /\ part' = [part EXCEPT ![a] = 0]
  /\ list' = [s \in Slots |-> IF s = a THEN {} ELSE list[s]]

-----------------------------------------------------------------------------
(* beginAssembly *)

Assemblers == {s \in Slots : at[s] \in Assembling \cup {"dropping"}}

\* Its check; a request whose session is not complete is refused.
Check(a) ==
  /\ at[a] = "checking"
  /\ IF NoneMissing(Ready)
       THEN promised' = Ready /\ disturbed' = FALSE /\ Goto(a, "arming")
       ELSE a \in Requests /\ Done(a) /\ UNCHANGED <<promised, disturbed>>
  /\ UNCHANGED <<session, files, queue, up, uploads, bounds, rearmed, parked, orphans>>

\* Its setStatus, which looks at no status.
Arm(a) ==
  /\ at[a] = "arming"
  /\ SetStatus("READY") /\ Goto(a, "queueing")
  /\ rearmed' = (rearmed \/ Assemblers # {} \/ uploads > 0)
  /\ UNCHANGED <<files, queue, up, uploads, bounds, promised, disturbed, parked, orphans>>

Queue(a) ==
  /\ at[a] = "queueing"
  /\ assemblies' = assemblies + 1 /\ Done(a)
  /\ parked' = FALSE
  /\ UNCHANGED <<session, files, downloads, up, uploads, bounds, promised, disturbed, rearmed,
                 orphans>>

-----------------------------------------------------------------------------
(* Parts arriving at the bot *)

\* findOrCreate; a closed session is left alone and another one started.  A later part may
\* declare the total the first one did not.
PartArrives(c, p) ==
  /\ source = "telegram" /\ status \in Open \cup {"NONE"}
  /\ Request(c, "upserting", p)
  /\ status' = (IF status = "NONE" THEN "COLLECTING" ELSE status)
  /\ declared' \in {declared, TRUE}
  /\ UNCHANGED <<source, cancelRequested, files, queue, up, uploads, history>>

\* partsRepo.upsert of a first or a different file; the same file again changes nothing.
Upsert(c) ==
  /\ at[c] = "upserting"
  /\ Goto(c, IF source = "telegram" THEN "enqueueing" ELSE "streaming")
  /\ SetRow(part[c], "PENDING") /\ orphans' = orphans \ {part[c]}
  /\ UNCHANGED <<session, directory, disk, queue, up, uploads, bounds>>

EnqueuePart(c) ==
  /\ at[c] = "enqueueing"
  /\ downloads' = [downloads EXCEPT ![part[c]] = @ + 1] /\ Done(c)
  /\ orphans' = orphans \ {part[c]}
  /\ UNCHANGED <<session, files, assemblies, up, uploads, bounds, promised, disturbed, rearmed,
                 parked>>

-----------------------------------------------------------------------------
(* Parts streamed to the API *)

Begin ==
  /\ source = "direct" /\ status = "NONE" /\ SetStatus("COLLECTING")
  /\ UNCHANGED <<files, queue, up, actors, uploads, bounds, history>>

\* PUT /part, and its ensureSessionDir: the session collects and does not hold the part.
PutCheck(c, p) ==
  /\ source = "direct" /\ status = "COLLECTING" /\ row[p] # "READY"
  /\ Request(c, "upserting", p) /\ directory' = TRUE
  /\ UNCHANGED <<session, row, disk, queue, up, uploads, history>>

Stream(c) ==
  /\ at[c] = "streaming" /\ directory
  /\ disk' = disk \cup {part[c]} /\ Goto(c, "storing")
  /\ UNCHANGED <<session, row, directory, queue, up, uploads, bounds, history>>

Store(c) ==
  /\ at[c] = "storing"
  /\ SetRow(part[c], "READY") /\ UNCHANGED orphans /\ Done(c)
  /\ UNCHANGED <<session, directory, disk, queue, up, uploads, bounds>>

\* The connection drops, the body is too long or too short; or the rename fails, which
\* leaves the row as it is.
StreamBreaks(c) ==
  /\ \/ at[c] \in {"streaming", "lost"} /\ SetRow(part[c], "FAILED") /\ UNCHANGED orphans
     \/ /\ at[c] = "lost" /\ orphans' = orphans \cup {part[c]}
        /\ UNCHANGED <<row, promised, disturbed, rearmed, parked>>
  /\ Done(c)
  /\ UNCHANGED <<session, directory, disk, queue, up, uploads, bounds>>

-----------------------------------------------------------------------------
(* Finishing, sweeping, cancelling, retrying *)

\* /finish, POST /complete, or the sweep of an idle session.
Finish(c) ==
  /\ status = "COLLECTING" /\ NoneMissing(Ready) /\ Request(c, "checking", 0)
  /\ UNCHANGED <<session, files, queue, up, uploads, history>>

AtWork(p) == downloads[p] > 0 \/ \E a \in Actors : part[a] = p

\* The sweep of one with gaps and no part on its way.
FindExpired(c) ==
  /\ status = "COLLECTING" /\ ~NoneMissing(Ready)
  /\ \A p \in Parts : row[p] \in {"PENDING", "DOWNLOADING"} => ~AtWork(p)
  /\ Request(c, "expiring", 0)
  /\ UNCHANGED <<session, files, queue, up, uploads, history>>

\* requestCancel, by /cancelupload, the administrator, or the uploader during an assembly; the
\* administrator goes on to cancelSession if the session was collecting.
Cancel(c) ==
  /\ status \in Open
  /\ \/ Request(c, "flagged", 0)
     \/ status = "COLLECTING" /\ Request(c, "flagged to close", 0)
  /\ cancelRequested' = TRUE /\ UNCHANGED <<source, declared, status>>
  /\ UNCHANGED <<files, queue, up, uploads, history>>

\* Its second statement.
CancelJobs(c) ==
  /\ at[c] \in {"flagged", "flagged to close"}
  /\ downloads' = [p \in Parts |-> 0] /\ assemblies' = 0
  /\ parked' = (parked \/ assemblies > 0)
  /\ orphans' = orphans \cup {p \in Parts : downloads[p] > 0}
  /\ Goto(c, IF at[c] = "flagged" THEN "idle" ELSE "closing")
  /\ UNCHANGED <<session, files, up, uploads, bounds, promised, disturbed, rearmed>>

\* cancelSession for the uploader, or because a file of another size takes the name.
Close(c) ==
  /\ source = "direct" /\ status \in {"COLLECTING", "READY"}
  /\ Request(c, "closing", 0)
  /\ UNCHANGED <<session, files, queue, up, uploads, history>>

\* CANCELLED or EXPIRED, whatever the status is by now; then the directory.
CloseRow(c) ==
  /\ at[c] \in {"closing", "expiring"}
  /\ SetStatus(IF at[c] = "closing" THEN "CANCELLED" ELSE "EXPIRED") /\ Goto(c, "cleaning")
  /\ UNCHANGED <<files, queue, up, uploads, bounds, history>>

Clean(a) ==
  /\ at[a] \in {"cleaning", "handed"} /\ RemoveDirectory(a, "idle")
  /\ UNCHANGED <<session, row, queue, up, uploads, bounds, history>>

\* retrySession, of anything but a COMPLETED session.
Retry(c) ==
  /\ status \notin {"NONE", "COMPLETED"}
  /\ Request(c, IF status \in {"FAILED", "EXPIRED"} THEN "reopening" ELSE "requeueing", 0)
  /\ UNCHANGED <<session, files, queue, up, uploads, history>>

Reopen(c) ==
  /\ at[c] = "reopening"
  /\ SetStatus("COLLECTING") /\ Goto(c, "requeueing")
  /\ UNCHANGED <<files, queue, up, uploads, bounds, history>>

\* Faulty: the failed parts are PENDING again, but none is queued.
RequeueRowsOnly(c) ==
  /\ at[c] = "requeueing"
  /\ cancelRequested' = FALSE /\ UNCHANGED <<source, declared, status>>
  /\ row' = [p \in Parts |-> IF row[p] = "FAILED" THEN "PENDING" ELSE row[p]]
  /\ orphans' = {p \in orphans : row[p] # "FAILED"}
  /\ IF row' = row THEN Goto(c, "checking") ELSE Done(c)
  /\ UNCHANGED <<directory, disk, queue, up, uploads, bounds, promised, disturbed, rearmed, parked>>

\* The flag, then the failed parts; without any, beginAssembly.
Requeue(c) ==
  /\ at[c] = "requeueing"
  /\ cancelRequested' = FALSE /\ UNCHANGED <<source, declared, status>>
  /\ LET failed == {p \in Parts : row[p] = "FAILED"}
     IN /\ row' = [p \in Parts |-> IF p \in failed THEN "PENDING" ELSE row[p]]
        /\ downloads' = [p \in Parts |-> IF p \in failed THEN downloads[p] + 1 ELSE downloads[p]]
        /\ orphans' = orphans \ failed
        /\ IF failed = {} THEN Goto(c, "checking") ELSE Done(c)
  /\ UNCHANGED <<directory, disk, assemblies, up, uploads, bounds, promised, disturbed, rearmed,
                 parked>>

-----------------------------------------------------------------------------
(* Worker: download-part *)

\* A job of a flagged or cancelled session is done at once.
ClaimDownload(s, p) ==
  /\ up /\ at[s] = "idle" /\ downloads[p] > 0
  /\ downloads' = [downloads EXCEPT ![p] = @ - 1]
  /\ LET skip == cancelRequested \/ status = "CANCELLED"
     IN /\ at' = [at EXCEPT ![s] = IF skip THEN "idle" ELSE "marking"]
        /\ part' = [part EXCEPT ![s] = IF skip THEN 0 ELSE p]
        /\ orphans' = IF skip THEN orphans \cup {p} ELSE orphans
  /\ UNCHANGED <<session, files, assemblies, up, list, uploads, bounds, promised, disturbed,
                 rearmed, parked>>

\* A part that was streamed to the API has nothing to be fetched from: its job only fails.
MarkDownloading(s) ==
  /\ at[s] = "marking" /\ source = "telegram"
  /\ SetRow(part[s], "DOWNLOADING") /\ UNCHANGED orphans /\ Goto(s, "fetching")
  /\ directory' = TRUE
  /\ UNCHANGED <<session, disk, queue, up, uploads, bounds>>

Fetch(s) ==
  /\ at[s] = "fetching"
  /\ IF cancelRequested
       THEN /\ SetRow(part[s], "PENDING") /\ orphans' = orphans \cup {part[s]}
            /\ Done(s) /\ UNCHANGED disk
       ELSE /\ directory /\ disk' = disk \cup {part[s]} /\ Goto(s, "fetched")
            /\ UNCHANGED <<row, history>>
  /\ UNCHANGED <<session, directory, queue, up, uploads, bounds>>

MarkReady(s) ==
  /\ at[s] = "fetched"
  /\ SetRow(part[s], "READY") /\ UNCHANGED orphans /\ Goto(s, "counting")
  /\ UNCHANGED <<session, directory, disk, queue, up, uploads, bounds>>

\* maybeFinalise: the last part of a declared set finishes it.
MaybeFinalise(s) ==
  /\ at[s] = "counting"
  /\ IF status = "COLLECTING" /\ declared /\ NoneMissing(Ready)
       THEN Goto(s, "checking") ELSE Done(s)
  /\ UNCHANGED <<session, files, queue, up, uploads, bounds, history>>

\* Any failure, such as of a move into a directory that is gone; with no attempt left the part
\* is marked FAILED in another statement.
FailDownload(s) ==
  /\ at[s] \in Downloading
  /\ \/ downloads' = [downloads EXCEPT ![part[s]] = @ + 1] /\ Done(s)
     \/ UNCHANGED downloads /\ Goto(s, "giving up")
  /\ parked' = (parked \/ at[s] = "queueing")
  /\ UNCHANGED <<session, files, assemblies, up, uploads, bounds, promised, disturbed, rearmed,
                 orphans>>

MarkPartFailed(s) ==
  /\ at[s] = "giving up"
  /\ SetRow(part[s], "FAILED") /\ UNCHANGED orphans /\ Done(s)
  /\ UNCHANGED <<session, directory, disk, queue, up, uploads, bounds>>

-----------------------------------------------------------------------------
(* Worker: assemble-session *)

ClaimAssembly(s) ==
  /\ up /\ at[s] = "idle" /\ assemblies > 0
  /\ assemblies' = assemblies - 1 /\ Goto(s, "claiming")
  /\ UNCHANGED <<session, files, downloads, up, uploads, bounds, history>>

\* Faulty: any open session can be claimed.
ClaimOpenSession(s) ==
  /\ at[s] = "claiming"
  /\ IF status \in Open
       THEN SetStatus("ASSEMBLING") /\ Goto(s, IF cancelRequested THEN "dropping" ELSE "listing")
       ELSE UNCHANGED session /\ Done(s)
  /\ UNCHANGED <<files, queue, up, uploads, bounds, history>>

\* claimForAssembly: "The status transition is the lock".
ClaimSession(s) ==
  /\ at[s] = "claiming"
  /\ IF status = "READY"
       THEN SetStatus("ASSEMBLING") /\ Goto(s, IF cancelRequested THEN "dropping" ELSE "listing")
       ELSE UNCHANGED session /\ Done(s)
  /\ UNCHANGED <<files, queue, up, uploads, bounds, history>>

Unassemblable(s) == Ready = {} \/ Ready # 1..Highest(Ready) \/ ~(Ready \subseteq disk)

\* Faulty: the last part is left out.
ListAllButLast(s) ==
  /\ at[s] = "listing" /\ ~Unassemblable(s)
  /\ list' = [list EXCEPT ![s] = Ready \ {Highest(Ready)}]
  /\ at' = [at EXCEPT ![s] = "concatenating"] /\ UNCHANGED part
  /\ UNCHANGED <<session, files, queue, up, uploads, bounds, history>>

\* The parts READY now; nothing compares them with expected_parts.
ListParts(s) ==
  /\ at[s] = "listing" /\ ~Unassemblable(s)
  /\ list' = [list EXCEPT ![s] = Ready]
  /\ at' = [at EXCEPT ![s] = "concatenating"] /\ UNCHANGED part
  /\ UNCHANGED <<session, files, queue, up, uploads, bounds, history>>

Concatenate(s) ==
  /\ at[s] = "concatenating" /\ (list[s] \subseteq disk \/ cancelRequested)
  /\ Goto(s, IF cancelRequested THEN "dropping" ELSE "verifying")
  /\ UNCHANGED <<session, files, queue, up, uploads, bounds, history>>

Verify(s) ==
  /\ at[s] = "verifying"
  /\ SetStatus("VERIFYING") /\ Goto(s, "handing off")
  /\ UNCHANGED <<files, queue, up, uploads, bounds, history>>

\* One transaction: the upload, its job, COMPLETED.
HandOff(s) ==
  /\ at[s] = "handing off"
  /\ SetStatus("COMPLETED") /\ uploads' = uploads + 1
  /\ Goto(s, "handed")
  /\ UNCHANGED <<files, queue, up, bounds, history>>

\* The directory, then the entry in the audit log: it fails inside the same try.
AuditFails(s) ==
  /\ at[s] = "handed" /\ crashes < MaxCrashes
  /\ crashes' = crashes + 1
  /\ RemoveDirectory(s, "disowning")
  /\ UNCHANGED <<session, row, queue, up, uploads, requests, history>>

\* The catch sets the session READY again, COMPLETED as it is.
Disown(s) ==
  /\ at[s] = "disowning"
  /\ SetStatus("READY") /\ rearmed' = TRUE
  /\ \/ assemblies' = assemblies + 1 /\ UNCHANGED parked
     \/ UNCHANGED assemblies /\ parked' = TRUE
  /\ Done(s)
  /\ UNCHANGED <<files, downloads, up, uploads, bounds, promised, disturbed, orphans>>

\* Faulty: the failure does not reach the job, which completes.
FailAssemblyQuietly(s) ==
  /\ at[s] \in Assembling
  /\ SetStatus("READY") /\ Done(s)
  /\ UNCHANGED <<files, queue, up, uploads, bounds, history>>

\* Back to READY, or FAILED; either way the job may have an attempt left, which finds nothing
\* to claim in a FAILED session.
FailAssembly(s) ==
  /\ at[s] \in Assembling
  /\ SetStatus("READY") \/ (at[s] = "listing" /\ SetStatus("FAILED"))
  /\ \/ assemblies' = assemblies + 1 /\ UNCHANGED parked
     \/ UNCHANGED assemblies /\ parked' = (parked \/ status' = "READY")
  /\ Done(s)
  /\ UNCHANGED <<files, downloads, up, uploads, bounds, promised, disturbed, rearmed, orphans>>

Drop(s) ==
  /\ at[s] = "dropping"
  /\ SetStatus("CANCELLED") /\ Goto(s, "cleaning")
  /\ UNCHANGED <<files, queue, up, uploads, bounds, history>>

-----------------------------------------------------------------------------
(* Crashes *)

\* Active jobs are released when the worker starts again, so they are pending from here on;
\* a job that has already failed is not.
WorkerCrash ==
  /\ up /\ crashes < MaxCrashes
  /\ crashes' = crashes + 1 /\ up' = FALSE
  /\ downloads' = [p \in Parts |-> downloads[p]
       + Cardinality({s \in Slots : part[s] = p /\ at[s] \in Downloading})]
  /\ assemblies' = assemblies + Cardinality({s \in Slots : at[s] # "idle" /\ part[s] = 0})
  /\ orphans' = orphans \cup {part[s] : s \in {t \in Slots : at[t] = "giving up"}}
  /\ parked' = (parked \/ \E s \in Slots : at[s] = "queueing")
  /\ at' = [a \in Actors |-> IF a \in Slots THEN "idle" ELSE at[a]]
  /\ part' = [a \in Actors |-> IF a \in Slots THEN 0 ELSE part[a]]
  /\ list' = [s \in Slots |-> {}]
  /\ UNCHANGED <<session, files, uploads, requests, promised, disturbed, rearmed>>

\* Faulty: only the parts are reset.
RestartParts ==
  /\ ~up /\ up' = TRUE
  /\ row' = [p \in Parts |-> IF row[p] = "DOWNLOADING" THEN "PENDING" ELSE row[p]]
  /\ UNCHANGED <<session, directory, disk, queue, actors, uploads, bounds, history>>

\* resetStale of parts and sessions.
Restart ==
  /\ ~up /\ up' = TRUE
  /\ row' = [p \in Parts |-> IF row[p] = "DOWNLOADING" THEN "PENDING" ELSE row[p]]
  /\ SetStatus(IF status \in {"ASSEMBLING", "VERIFYING"} THEN "READY" ELSE status)
  /\ UNCHANGED <<directory, disk, queue, actors, uploads, bounds, history>>

\* The API or the bot dies, or a statement of a request fails.
CutOff(c) ==
  /\ at[c] # "idle" /\ crashes < MaxCrashes
  /\ crashes' = crashes + 1 /\ Done(c)
  /\ parked' = (parked \/ at[c] \in {"arming", "queueing"})
  /\ orphans' = orphans \cup ({part[c]} \ {0})
  /\ UNCHANGED <<session, files, queue, up, uploads, requests, promised, disturbed, rearmed>>

-----------------------------------------------------------------------------

RequestStep(c) ==
  \/ Upsert(c) \/ EnqueuePart(c) \/ Stream(c) \/ Store(c) \/ StreamBreaks(c)
  \/ CancelJobs(c) \/ CloseRow(c) \/ Reopen(c) \/ Requeue(c)
NewRequest(c) ==
  \/ \E p \in Parts : PartArrives(c, p) \/ PutCheck(c, p)
  \/ Finish(c) \/ FindExpired(c) \/ Cancel(c) \/ Close(c) \/ Retry(c)
JobStep(s) ==
  \/ MarkDownloading(s) \/ Fetch(s) \/ MarkReady(s) \/ MaybeFinalise(s)
  \/ FailDownload(s) \/ MarkPartFailed(s) \/ ClaimSession(s) \/ ListParts(s)
  \/ Concatenate(s) \/ Verify(s) \/ HandOff(s) \/ AuditFails(s) \/ Disown(s)
  \/ FailAssembly(s) \/ Drop(s)
ClaimJob(s) == ClaimAssembly(s) \/ \E p \in Parts : ClaimDownload(s, p)

Next ==
  \/ \E c \in Requests : NewRequest(c) \/ RequestStep(c) \/ CutOff(c)
  \/ \E s \in Slots : ClaimJob(s) \/ JobStep(s)
  \/ \E a \in Actors : Check(a) \/ Arm(a) \/ Queue(a) \/ Clean(a)
  \/ Begin \/ WorkerCrash \/ Restart

Spec == Init /\ [][Next]_vars

-----------------------------------------------------------------------------
(* Properties *)

\* A session that reads ASSEMBLING or VERIFYING has an assembler: nothing sweeps one that
\* has none, its name would stay taken and its parts would be kept for good.
AssemblyIsAttended ==
  up /\ status \in {"ASSEMBLING", "VERIFYING"} => Assemblers # {}

\* claimForAssembly: "two workers can never concatenate the same parts at once".  They can,
\* but only after somebody set the session READY again during an assembly; and so for two
\* uploads from one session.
OneAssemblyUnlessRearmed == ~rearmed => Cardinality(Assemblers) <= 1 /\ uploads <= 1

\* services/multipart.ts: "A session is only assembled when this is empty", of the missing
\* parts.  What an assembler sets out to concatenate has every part beginAssembly found, unless
\* a part was replaced or failed between that check and the assembler's list.
AssembledWholeUnlessDisturbed ==
  [][\A s \in Slots : at[s] = "listing" /\ at'[s] = "concatenating" /\ ~disturbed =>
       promised \subseteq list'[s]]_vars

\* A READY session is about to be assembled: its job is queued or claimed, or the statement
\* that queues it is next; unless the assembly was given up, cancelled or cut off.
ReadyIsQueued ==
  status = "READY" /\ ~cancelRequested /\ ~parked =>
    assemblies > 0 \/ \E a \in Actors : at[a] \in {"queueing", "claiming"}

\* A part on its way has somebody at work on it: a job, a slot, a request; unless a
\* cancellation or a crash took it from them.
NoPartForgotten ==
  \A p \in Parts : row[p] \in {"PENDING", "DOWNLOADING"} /\ p \notin orphans => AtWork(p)

=============================================================================
