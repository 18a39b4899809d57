------------------------------ MODULE Staging ------------------------------
(***************************************************************************)
(* The places where an upload's bytes wait: the scratch directory          *)
(* DOWNLOAD_TMP_DIR, the data directory of a local Bot API server, and one *)
(* directory of parts per multi-part session.  An upload's file is either  *)
(* staged in the scratch directory by somebody else (a direct upload, an   *)
(* MTProto fetch, assembled parts), the only copy of it, or fetched from   *)
(* Telegram by the server when a run asks.  A run renames the file to a    *)
(* name of its own, records the new name of a staged one in                *)
(* uploads.local_source_path and works on it; the reaper deletes in each   *)
(* place what no row protects and nobody has touched for that place's      *)
(* grace period.  Runs and reaper are in the worker, which may crash       *)
(* between any two steps; the ingestion is in another process.             *)
(*                                                                         *)
(* Abstractions: job queue and attempts (any unfinished upload may be run  *)
(* again); a file is identified by its upload and the run that named it    *)
(* (the assembly takes a new name only when its last one is gone), and a   *)
(* session's parts are one file; time is "untouched for the grace period   *)
(* that applies" or not.  What happens inside a session is in              *)
(* MultipartSession.  A clean-up of parts that a retry of the expired      *)
(* session overtakes is taken to end first.                                *)
(***************************************************************************)
EXTENDS Naturals, FiniteSets

CONSTANTS
  Uploads,
  MaxRuns,      \* bound on the runs of an upload, each with a scratch name of its own
  MaxCrashes    \* bound on crashes of the worker or the ingestion

ASSUME BoundsType == MaxRuns \in Nat /\ MaxCrashes \in Nat

NoFile == MaxRuns + 1    \* local_source_path IS NULL
Server == MaxRuns + 2    \* the server's copy
Parts == MaxRuns + 3     \* <parts>/session-<id>

\* Names in the scratch directory: 0 is the ingestion's, n that of the n-th run.
Scratch == Uploads \X (0..MaxRuns)
Copies == Uploads \X {Server}
PartsOf == Uploads \X {Parts}
Files == Scratch \cup Copies \cup PartsOf

VARIABLES
  staged,     \* the uploads with a staged file; the others come from the Bot API server
  status,     \* the uploads row: "none", "unfinished" or terminal; "writing" before it exists
  session,    \* the session whose parts become the file: "open", "live" once it has parts,
              \* "failed", "expired" or "closed" (cancelled, handed off); "none" otherwise
  source,     \* uploads.local_source_path
  runs,       \* runs so far
  pc,         \* the next step of the upload's run
  sourceSeen, \* the run's copy of local_source_path
  disk,       \* the files in the three places
  old,        \* those untouched for longer than the grace period
  place,      \* the place the reaper is at, or goes to next
  reaper,     \* "idle", "listed" or "queried" before a pass has both, then "sweeping"
  listing,    \* what its readdir returned
  live,       \* what livePaths, or classifyForReaping, returned
  crashes,
  stranded,   \* history: staged uploads hit between the rename and its record
  late        \* history: uploads and sessions retried after the reaper had seen them
              \* terminal, or their file was gone; runs given a copy that was old already

rows == <<status, session, source>>
run == <<runs, pc, sourceSeen>>
reaping == <<place, reaper, listing, live>>
vars == <<staged, rows, run, disk, old, reaping, crashes, stranded, late>>

-----------------------------------------------------------------------------

Terminal == {"done", "failed"}
Temp(u) == <<u, runs[u]>>
Source(u) == <<u, source[u]>>
SourceSeen(u) == <<u, IF u \in staged THEN sourceSeen[u] ELSE Server>>
Busy(u) == pc[u] # "idle"

\* Written, or held without a row naming it: somebody is at work on the file.
InFlight(f) ==
  LET u == f[1]
  IN \/ status[u] = "writing" /\ f[2] = 0
     \/ pc[u] \in {"copying", "taken", "work"} /\ f = Temp(u)
     \/ pc[u] = "take" /\ f = <<u, Server>>

\* What rows protect: the source of an unfinished upload, and the parts of a session that is
\* neither FAILED nor closed.  (A session's assembled_path and an MTProto request's temp_path
\* name the file while it is written, when nothing else could take it for an orphan.)
LiveSources == {Source(u) : u \in {v \in staged : status[v] = "unfinished"}}
LiveParts == {<<u, Parts>> : u \in {v \in staged : session[v] \in {"open", "live"}}}
Named == LiveSources \cup LiveParts

TypeOK ==
  /\ staged \subseteq Uploads
  /\ status \in [Uploads -> {"none", "writing", "unfinished"} \cup Terminal]
  /\ session \in [Uploads -> {"none", "open", "live", "failed", "expired", "closed"}]
  /\ source \in [Uploads -> 0..NoFile]
  /\ runs \in [Uploads -> 0..MaxRuns]
  /\ pc \in [Uploads -> {"idle", "fetch", "take", "copying", "taken", "work"}]
  /\ sourceSeen \in [Uploads -> 0..NoFile]
  /\ disk \in SUBSET Files /\ old \in SUBSET disk
  /\ place \in {"scratch", "server", "parts"}
  /\ reaper \in {"idle", "listed", "queried", "sweeping"}
  /\ listing \in SUBSET Files /\ live \in SUBSET Files
  /\ crashes \in Nat
  /\ stranded \in SUBSET Uploads /\ late \in SUBSET Uploads

Init ==
  /\ staged \in SUBSET Uploads
  /\ status = [u \in Uploads |-> "none"]
  /\ session = [u \in Uploads |-> "none"]
  /\ source = [u \in Uploads |-> NoFile]
  /\ runs = [u \in Uploads |-> 0]
  /\ pc = [u \in Uploads |-> "idle"]
  /\ sourceSeen = [u \in Uploads |-> NoFile]
  /\ disk = {} /\ old = {}
  /\ place = "scratch" /\ reaper = "idle" /\ listing = {} /\ live = {}
  /\ crashes = 0 /\ stranded = {} /\ late = {}

Unlink(f) == disk' = disk \ {f} /\ old' = old \ {f}
Touch(f) == disk' = disk \cup {f} /\ old' = old \ {f}
KeepFiles == UNCHANGED <<disk, old>>

-----------------------------------------------------------------------------
(* Ingestion *)

\* The row of a session is there before its directory.
OpenSession(u) ==
  /\ u \in staged /\ session[u] = "none" /\ status[u] = "none"
  /\ session' = [session EXCEPT ![u] = "open"]
  /\ KeepFiles /\ UNCHANGED <<staged, status, source, run, reaping, crashes, stranded, late>>

PartsArrive(u) ==
  /\ u \in staged /\ session[u] = "open"
  /\ session' = [session EXCEPT ![u] = "live"]
  /\ Touch(<<u, Parts>>)
  /\ UNCHANGED <<staged, status, source, run, reaping, crashes, stranded, late>>

\* The assembly fails for good: a part is not on the disk, or anything else that would recur.
AssemblyFails(u) ==
  /\ u \in staged /\ session[u] = "live" /\ status[u] = "none"
  /\ session' = [session EXCEPT ![u] = "failed"]
  /\ KeepFiles /\ UNCHANGED <<staged, status, source, run, reaping, crashes, stranded, late>>

\* Cancelled, or expired by the sweep.
CloseSession(u) ==
  /\ u \in staged /\ session[u] \in {"open", "live"} /\ status[u] = "none"
  /\ \E end \in {"closed", "expired"} : session' = [session EXCEPT ![u] = end]
  /\ KeepFiles /\ UNCHANGED <<staged, status, source, run, reaping, crashes, stranded, late>>

\* cleanupSessionParts, behind the hand-off, the cancellation or the expiry.
CleanParts(u) ==
  /\ u \in staged /\ session[u] \in {"closed", "expired"} /\ <<u, Parts>> \in disk
  /\ Unlink(<<u, Parts>>)
  /\ UNCHANGED <<staged, rows, run, reaping, crashes, stranded, late>>

\* retrySession, of a failed session or an expired one, whether its parts are there or not.
RetrySession(u) ==
  /\ u \in staged /\ session[u] \in {"failed", "expired"} /\ status[u] = "none"
  /\ session' = [session EXCEPT ![u] = "live"]
  /\ late' = IF reaper = "sweeping" \/ session[u] = "expired" \/ <<u, Parts>> \notin disk
               THEN late \cup {u} ELSE late
  /\ KeepFiles /\ UNCHANGED <<staged, status, source, run, reaping, crashes, stranded>>

\* streamToFile, or a fetch over MTProto, or the assembly of a session's parts, each under a
\* name of its own.
Write(u) ==
  /\ u \in staged /\ status[u] = "none" /\ <<u, 0>> \notin disk
  /\ session[u] = "none" \/ (session[u] = "live" /\ <<u, Parts>> \in disk)
  /\ status' = [status EXCEPT ![u] = "writing"]
  /\ Touch(<<u, 0>>)
  /\ UNCHANGED <<staged, session, source, run, reaping, crashes, stranded, late>>

\* The row that names it, and the end of its session in the same transaction.
Record(u) ==
  /\ status[u] = "writing"
  /\ status' = [status EXCEPT ![u] = "unfinished"]
  /\ source' = [source EXCEPT ![u] = 0]
  /\ session' = [session EXCEPT ![u] = IF @ = "live" THEN "closed" ELSE @]
  /\ KeepFiles /\ UNCHANGED <<staged, run, reaping, crashes, stranded, late>>

\* An upload Telegram still has.
Accept(u) ==
  /\ u \notin staged /\ status[u] = "none"
  /\ status' = [status EXCEPT ![u] = "unfinished"]
  /\ KeepFiles /\ UNCHANGED <<staged, session, source, run, reaping, crashes, stranded, late>>

\* The ingestion fails and removes the file, or dies and leaves it.  A session goes back to
\* READY, the parts kept for the next attempt.
GiveUpWriting(u) ==
  /\ status[u] = "writing"
  /\ status' = [status EXCEPT ![u] = IF session[u] = "live" THEN "none" ELSE "failed"]
  /\ \/ Unlink(<<u, 0>>) /\ UNCHANGED crashes
     \/ crashes < MaxCrashes /\ crashes' = crashes + 1 /\ KeepFiles
  /\ UNCHANGED <<staged, session, source, run, reaping, stranded, late>>

\* Retry of a failed upload, by a person.
Retry(u) ==
  /\ status[u] = "failed" /\ (u \in staged => source[u] # NoFile) /\ runs[u] < MaxRuns
  /\ status' = [status EXCEPT ![u] = "unfinished"]
  /\ late' = IF u \in staged /\ (reaper \in {"queried", "sweeping"} \/ Source(u) \notin disk)
               THEN late \cup {u} ELSE late
  /\ KeepFiles /\ UNCHANGED <<staged, session, source, run, reaping, crashes, stranded>>

-----------------------------------------------------------------------------
(* A run *)

Begin(u) ==
  /\ status[u] = "unfinished" /\ ~Busy(u) /\ runs[u] < MaxRuns
  /\ runs' = [runs EXCEPT ![u] = @ + 1]
  /\ pc' = [pc EXCEPT ![u] = IF u \in staged THEN "take" ELSE "fetch"]
  /\ sourceSeen' = [sourceSeen EXCEPT ![u] = source[u]]
  /\ KeepFiles /\ UNCHANGED <<staged, rows, reaping, crashes, stranded, late>>

\* getFile answers once the server has the file, at once if it has it from an earlier run.
Fetch(u) ==
  /\ pc[u] = "fetch"
  /\ pc' = [pc EXCEPT ![u] = "take"]
  /\ disk' = disk \cup {<<u, Server>>} /\ UNCHANGED old
  /\ late' = IF <<u, Server>> \in old THEN late \cup {u} ELSE late \ {u}
  /\ UNCHANGED <<staged, rows, runs, sourceSeen, reaping, crashes, stranded>>

\* takeLocalFile: a rename, which refreshes ctime.
Take(u) ==
  /\ pc[u] = "take" /\ SourceSeen(u) \in disk
  /\ pc' = [pc EXCEPT ![u] = "taken"]
  /\ disk' = (disk \ {SourceSeen(u)}) \cup {Temp(u)}
  /\ old' = old \ {SourceSeen(u)}
  /\ UNCHANGED <<staged, rows, runs, sourceSeen, reaping, crashes, stranded, late>>

\* The server's directory is on another filesystem: a copy.
TakeCopy(u) ==
  /\ pc[u] = "take" /\ u \notin staged /\ SourceSeen(u) \in disk
  /\ pc' = [pc EXCEPT ![u] = "copying"]
  /\ Touch(Temp(u))
  /\ UNCHANGED <<staged, rows, runs, sourceSeen, reaping, crashes, stranded, late>>

\* The public Bot API has no copy on this machine: the file is streamed.
Stream(u) ==
  /\ pc[u] = "fetch"
  /\ pc' = [pc EXCEPT ![u] = "copying"]
  /\ Touch(Temp(u))
  /\ UNCHANGED <<staged, rows, runs, sourceSeen, reaping, crashes, stranded, late>>

\* Its end, and the unlink of the server's copy, which may fail.
FinishCopy(u) ==
  /\ pc[u] = "copying"
  /\ pc' = [pc EXCEPT ![u] = "taken"]
  /\ Unlink(SourceSeen(u)) \/ KeepFiles
  /\ UNCHANGED <<staged, rows, runs, sourceSeen, reaping, crashes, stranded, late>>

\* "The staged file for this upload is no longer on the server", or the server's copy is not:
\* not retried.
NothingToTake(u) ==
  /\ pc[u] = "take" /\ SourceSeen(u) \notin disk
  /\ pc' = [pc EXCEPT ![u] = "idle"] /\ sourceSeen' = [sourceSeen EXCEPT ![u] = NoFile]
  /\ status' = [status EXCEPT ![u] = "failed"]
  /\ KeepFiles
  /\ UNCHANGED <<staged, session, source, runs, reaping, crashes, stranded, late>>

\* Faulty: the row keeps the name the file had.
ForgetTake(u) ==
  /\ pc[u] = "taken"
  /\ pc' = [pc EXCEPT ![u] = "work"]
  /\ KeepFiles
  /\ UNCHANGED <<staged, rows, runs, sourceSeen, reaping, crashes, stranded, late>>

\* The patch of local_source_path, and of the run's own copy of it.
RecordTake(u) ==
  /\ pc[u] = "taken"
  /\ pc' = [pc EXCEPT ![u] = "work"]
  /\ IF u \in staged
       THEN /\ source' = [source EXCEPT ![u] = runs[u]]
            /\ sourceSeen' = [sourceSeen EXCEPT ![u] = runs[u]]
       ELSE UNCHANGED <<source, sourceSeen>>
  /\ KeepFiles /\ UNCHANGED <<staged, status, session, runs, reaping, crashes, stranded, late>>

\* Filed, parked or a duplicate: the file has left the directory.
Finish(u) ==
  /\ pc[u] = "work"
  /\ pc' = [pc EXCEPT ![u] = "idle"] /\ sourceSeen' = [sourceSeen EXCEPT ![u] = NoFile]
  /\ status' = [status EXCEPT ![u] = "done"]
  /\ Unlink(Temp(u))
  /\ UNCHANGED <<staged, session, source, runs, reaping, crashes, stranded, late>>

\* The catch of processUpload.  A file the run has the name of is kept if it is the one the
\* run knows as staged and the error is worth another attempt, and removed otherwise; before
\* takeLocalFile has returned (it reports progress after the rename) it is left where it is.
\* A copy that breaks off is removed; a server that was given up on may still get its file.
Fail(u) ==
  /\ Busy(u)
  /\ pc' = [pc EXCEPT ![u] = "idle"] /\ sourceSeen' = [sourceSeen EXCEPT ![u] = NoFile]
  /\ \E willRetry, attemptLeft \in BOOLEAN :
       /\ status' = [status EXCEPT ![u] = IF willRetry /\ attemptLeft THEN "unfinished"
                                                                      ELSE "failed"]
       /\ LET kept == u \in staged /\ sourceSeen[u] = runs[u] /\ willRetry
          IN \/ (pc[u] \in {"fetch", "take", "taken"} \/ (pc[u] = "work" /\ kept)) /\ KeepFiles
             \/ pc[u] = "fetch" /\ disk' = disk \cup {<<u, Server>>} /\ UNCHANGED old
             \/ pc[u] \in {"copying", "taken", "work"} /\ ~kept /\ Unlink(Temp(u))
  /\ stranded' = IF pc[u] = "taken" /\ u \in staged THEN stranded \cup {u} ELSE stranded
  /\ UNCHANGED <<staged, session, source, runs, reaping, crashes, late>>

\* Cancelled, or given up by the queue, while no run is on.
Close(u) ==
  /\ status[u] = "unfinished" /\ ~Busy(u)
  /\ status' = [status EXCEPT ![u] = "failed"]
  /\ KeepFiles /\ UNCHANGED <<staged, session, source, run, reaping, crashes, stranded, late>>

-----------------------------------------------------------------------------
(* Reaper and worker *)

There == CASE place = "scratch" -> Scratch [] place = "server" -> Copies [] OTHER -> PartsOf

\* readdir; the pass measures every age from here.
List ==
  /\ reaper = IF place = "server" THEN "queried" ELSE "idle"
  /\ reaper' = IF place = "server" THEN "sweeping" ELSE "listed"
  /\ listing' = disk \cap There
  /\ KeepFiles /\ UNCHANGED <<staged, rows, run, place, live, crashes, stranded, late>>

\* Faulty: a terminal upload's file counts as live.
QueryEveryRow ==
  /\ reaper = IF place = "server" THEN "idle" ELSE "listed"
  /\ reaper' = IF place = "server" THEN "queried" ELSE "sweeping"
  /\ live' = (Named \cup {Source(u) : u \in {v \in staged : source[v] # NoFile}}) \cap There
  /\ KeepFiles /\ UNCHANGED <<staged, rows, run, place, listing, crashes, stranded, late>>

\* livePaths or classifyForReaping: behind the listing, but before it at the server's place.
Query ==
  /\ reaper = IF place = "server" THEN "idle" ELSE "listed"
  /\ reaper' = IF place = "server" THEN "queried" ELSE "sweeping"
  /\ live' = Named \cap There
  /\ KeepFiles /\ UNCHANGED <<staged, rows, run, place, listing, crashes, stranded, late>>

\* Faulty: age alone decides.
ReapByAge(f) ==
  /\ reaper = "sweeping" /\ f \in listing \ PartsOf
  /\ listing' = listing \ {f}
  /\ IF f \in old THEN Unlink(f) ELSE KeepFiles
  /\ UNCHANGED <<staged, rows, run, place, reaper, live, crashes, stranded, late>>

\* lstat, then the two tests, then unlink.
Reap(f) ==
  /\ reaper = "sweeping" /\ f \in listing \ PartsOf
  /\ listing' = listing \ {f}
  /\ IF f \in old \ live THEN Unlink(f) ELSE KeepFiles
  /\ UNCHANGED <<staged, rows, run, place, reaper, live, crashes, stranded, late>>

\* A session's directory: the age of its newest entry, which is read behind the query, and rm.
ReapParts(f) ==
  /\ reaper = "sweeping" /\ f \in listing \cap PartsOf
  /\ listing' = listing \ {f}
  /\ IF f \notin live /\ f \in old THEN Unlink(f) ELSE KeepFiles
  /\ UNCHANGED <<staged, rows, run, place, reaper, live, crashes, stranded, late>>

\* The three passes follow each other, and again an hour later.
EndPass ==
  /\ reaper = "sweeping" /\ listing = {}
  /\ reaper' = "idle" /\ live' = {}
  /\ place' = CASE place = "scratch" -> "server"
                [] place = "server" -> "parts"
                [] OTHER -> "scratch"
  /\ KeepFiles /\ UNCHANGED <<staged, rows, run, listing, crashes, stranded, late>>

\* The grace period passes.  A file somebody is at work on is touched more often than that,
\* and a pass takes its time once, when it starts.
Age(f) ==
  /\ f \in disk \ old /\ ~InFlight(f) /\ reaper = "idle"
  /\ old' = old \cup {f}
  /\ UNCHANGED <<staged, rows, run, disk, reaping, crashes, stranded, late>>

Crash ==
  /\ crashes < MaxCrashes /\ (reaper # "idle" \/ \E u \in Uploads : Busy(u))
  /\ crashes' = crashes + 1
  /\ pc' = [u \in Uploads |-> "idle"] /\ sourceSeen' = [u \in Uploads |-> NoFile]
  /\ stranded' = stranded \cup {u \in staged : pc[u] = "taken"}
  /\ place' = "scratch" /\ reaper' = "idle" /\ listing' = {} /\ live' = {}
  /\ KeepFiles /\ UNCHANGED <<staged, rows, runs, late>>

Pass == List \/ Query \/ (\E f \in Files : Reap(f) \/ ReapParts(f)) \/ EndPass
GracePasses == \E f \in Files : Age(f)

Next ==
  \/ \E u \in Uploads :
       \/ OpenSession(u) \/ PartsArrive(u) \/ AssemblyFails(u) \/ CloseSession(u)
       \/ CleanParts(u) \/ RetrySession(u)
       \/ Write(u) \/ Record(u) \/ Accept(u) \/ GiveUpWriting(u) \/ Retry(u)
       \/ Begin(u) \/ Fetch(u) \/ Take(u) \/ TakeCopy(u) \/ Stream(u) \/ FinishCopy(u)
       \/ NothingToTake(u) \/ RecordTake(u) \/ Finish(u) \/ Fail(u) \/ Close(u)
  \/ Pass \/ GracePasses \/ Crash

\* The reaper runs at startup and every hour and its passes end; grace periods end between
\* two passes, hence strong fairness.  Nobody is made to upload, run or retry anything.
Spec == Init /\ [][Next]_vars /\ WF_vars(Pass) /\ SF_vars(GracePasses)

-----------------------------------------------------------------------------
(* Properties *)

\* "A *staged* file - the only copy of an assembled, fetched or directly uploaded file - is
\* kept when the failure will be retried": while the upload is unfinished the file is where
\* its row says, or in the hands of its run.  The exception is a worker that died, or a
\* database that failed, between the rename and its record.
StagedFileIsKept ==
  \A u \in staged \ (late \cup stranded) :
    status[u] = "unfinished" => Source(u) \in disk \/ pc[u] = "taken"

\* The bytes that somebody will ask for are there: the staged file, the parts of a session
\* that can still be assembled, the copy a run has been told to take.  The exceptions are an
\* upload or a session retried behind the reaper's query or after its files were removed, and
\* a copy that had waited at the server for longer than the grace period.
BytesAreKept ==
  /\ StagedFileIsKept
  /\ \A u \in staged \ late : session[u] = "live" => <<u, Parts>> \in disk
  /\ \A u \in Uploads \ (staged \cup late) : pc[u] = "take" => <<u, Server>> \in disk

\* The reaper leaves alone what a row protects or a run holds, whatever happens between its
\* listing, its query and its unlink.
ReaperSparesWork ==
  [][\A f \in disk : f \notin disk' /\ listing' # listing =>
       /\ InFlight(f) => f[2] = Server /\ f[1] \in late
       /\ f \in Named => f[1] \in late]_vars

\* Nothing that nobody owns stays in any of the three places for good.
NoOrphanStays == \A f \in Files : []<>(f \notin disk \/ f \in Named \/ InFlight(f))

=============================================================================
