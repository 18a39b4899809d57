# Jellygram in TLA+

A verification development kept beside the code: TLA+ models of jellygram's upload pipeline, of
the accounts it provisions and of the clients in front of it, TLC configurations that check them
on small instances, and TLAPS proofs of what matters most for every instance.  `PROJECT.json` maps
every definition to the lines it models; this file says how the parts fit together and what has
been established.

Paths below are relative to the repository (`src/…` is its source directory, `public/…` the two
front ends, `uploader/…` the command-line uploader).

## 1. The system

Jellygram takes files sent to a Telegram bot (or streamed to an HTTP endpoint), identifies them
and files them in a Jellyfin library.  Three processes — `bot`, `worker`, `api` — share one
PostgreSQL database and the disks, and nothing else.  No process locks anything for longer than
a statement or a short transaction, any of them may die and be restarted at any time, and the
worker runs several jobs at once on one event loop.  The protocol between them is therefore
entirely in the order of database statements and file operations.  The front ends are single
pages that draw from answers arriving late and in any order; the uploader is a client that may
be stopped and run again.  That is what is modelled.

| Component | State | Operations | Interacts through |
| --- | --- | --- | --- |
| Bot intake (`bot/index.ts`) | rows it writes; no memory of its own that matters | accept a file, accept a part, `/finish`, `/cancelupload`, `/retry` | `uploads`, `upload_sessions`, `upload_parts`, `jobs` |
| Direct upload API (`api/upload.ts`) | parts and staged files on disk | `/single`, `/begin`, `/part`, `/complete`, `/cancel`, `/status` | the same tables; the scratch directory |
| Uploader (`uploader/jellygram-upload.mjs`) | what it has sent, in memory only | begin, single or parts with retries, complete, wait | the direct upload API |
| Quota (`services/quota.ts`) | sums over `media`, `uploads`, sessions | check before accepting | read only; the reservation is the row inserted later |
| Administration API, Mini App API (`api/routes`, `api/miniapp.ts`) | — | retry, cancel, delete media, retry and cancel sessions; create, edit, provision and delete users | the same tables; the library; Jellyfin |
| Job queue (`jobsRepo`) | `jobs.status`, `attempts`, `run_after`, `lane` | enqueue, claim, complete, fail, cancel, release orphans | one row at a time, `FOR UPDATE SKIP LOCKED` |
| Worker loop (`worker/index.ts`) | slots by lane | recover at start, claim, run, settle, drain | jobs; the handlers below |
| Upload pipeline (`worker/pipeline.ts`) | `uploads.status`, `cancel_requested`, `local_source_path` | one run: fetch, identify, deduplicate, reserve, move, scan | `uploads`, `media`, scratch directory, library |
| Multi-part sessions (`worker/multipart.ts`, `services/{multipart,assembly}.ts`) | `upload_sessions.status`, `upload_parts.status`, a directory of parts | download a part, finalise, assemble, hand off, sweep, retry, cancel | session rows, jobs, disk |
| MTProto ingestion (`worker/mtproto.ts`) | `mtproto_jobs` | fetch, retry, cancel, hand off | its row, its queue job |
| Progress message (`services/progress.ts`, `notifier.ts`) | `progress_message_id`, the chat | send once, edit in place, by seven parties | the row's message id; Telegram |
| Downloads (`services/download.ts`) | the file being fetched or copied | ask the Bot API server, take its copy or stream | scratch directory; a local server's data directory |
| Reaper (`services/reaper.ts`) | — | three passes over directories: list, query live paths, unlink | disk against rows |
| Isolation (`services/isolation.ts`, `jellyfin.ts`) | `user_libraries`, Jellyfin's folders and policies | provision, enforce, deprovision, audit | HTTP; others change the same server |
| Dashboard (`public/js`) | one tab: route, render token, refresh timer, user cache | navigate, draw, filter, poll, act, sign in and out | the administration API |
| Mini App (`public/miniapp/js`) | view, render token, lists, poll timer, the file being sent | switch, filter, page, poll, send, cancel, act | the Mini App and upload APIs |
| Parser, identification, TMDB; verification of an item | — | pure recognition and scoring; polling | return values |
| Auth, flood control, health, paths, configuration, migrations, scripts | local | — | — |

What is hard in it, and what makes each part correct:

- **Jobs have no lease.** A claim sets a row `active`; only the slot that claimed it or the next
  restart ends that.  Correct: a job runs once at a time, is never lost while the worker is up,
  keeps its attempt budget through crashes and refunds, and never changes once settled.
- **The job and the upload are two rows.** Settling them takes two statements, cancellation and
  retry write both from another process.  Correct: an accepted upload always has somebody to
  finish it; one that reads CANCELLED is not filed afterwards; one that is filed is not redone.
- **Filing spans a row and a file.** The media row is the reservation, the move comes after it,
  and a row without a file may be another run's reservation or the remains of a crash.  Correct:
  one copy of a title, nothing overwritten, no unknown file, no upload its own duplicate.
- **Staged files are the only copy.** They are renamed by a run, recorded afterwards, and live
  beside files nobody owns, which a reaper removes from a listing and a query it made earlier.
  Correct: the only copy of an unfinished upload survives; what nobody owns goes some day.
- **Sessions are finished by whoever comes first.** Downloads, `/finish`, the API, the sweep and
  retries each check and then act.  Correct: one assembly, of all the parts, always attended,
  and nothing kept for ever.
- **The quota is checked before the row that reserves it.** Sessions are found by name, requests
  outlive their clients, a client resumes.  Correct: what is reported filed is the file that was
  sent, and nothing is admitted beyond the quota but by a race on that check.
- **Isolation lives in a server others administer.** A request works on a user row and a list of
  libraries it read some calls ago.  Correct: a locked-down account sees its own libraries and
  nobody else's, the audit's all-clear is true, deletion leaves nothing behind.
- **One message, many editors.** Correct: one chat entry per upload, and the outcome is the last
  thing written into it.
- **Pages are drawn from late answers.** Correct: the page on screen is the one the address
  names, the timer serves it, lists are what the controls select, nobody polls a dead session.

`PROJECT.json`, *hazards*, lists each such place at its line, with the properties about it.

## 2. The modules

| Module | Models | Checked by | Proved in |
| --- | --- | --- | --- |
| `Ingestion` | what accepting an upload promises, without workers, slots or attempts | as `ImplementsIngestion` in `lifecycle` | `UploadLifecycleProofs` |
| `UploadLifecycle` | an uploads row, its jobs, worker slots, cancel and retry requests; implements `Ingestion` | `lifecycle`, `lifecycle_live`, `cancel_strand` | `UploadLifecycleProofs` |
| `Filing` | concurrent runs from duplicate detection to the moved file, with deletions | `filing` | `FilingProofs` |
| `Staging` | where bytes wait: the scratch directory, a local Bot API server's copies, sessions' parts; who writes and takes them, and the reaper | `staging` | `StagingProofs` |
| `MultipartSession` | one session: parts, requests, download and assembly slots | `sessions` | `MultipartSessionProofs` |
| `MtprotoJob` | one forwarded file: its `mtproto_jobs` row, its queue entries, retry and cancel requests | `mtproto` | `MtprotoJobProofs` |
| `Uploader` | clients of the direct upload API, sessions by name, the quota | `uploader` | `UploaderProofs` |
| `Accounts` | users, their libraries, Jellyfin's folders and policies, the audit | `accounts` | `AdministrationProofs` |
| `ProgressMessage` | the Telegram message of one upload and everyone who edits it | `messages` | `TelegramProofs` |
| `Dashboard` | one dashboard tab: pages, draws, timer, cache, forms | `dashboard` | `AdministrationProofs` |
| `MiniApp` | the Mini App: views, lists, poll, the file being sent | `miniapp` | `TelegramProofs` |

Each `MC` module gives its module's constants their values and states the symmetry its run uses
(`Staging` needs none).  Two proof modules are about two components each, which share no state and no
name: that is why the front ends call their specifications `DashboardSpec` and `MiniAppSpec` and their
"nothing" `Nothing`, and the Mini App its requests `Calls`.  The modules divide the system along the state its parts share, and each
abstracts what its neighbour models: `Filing` does not count attempts (`UploadLifecycle` does) and
takes the scratch file for granted (`Staging` does not); `UploadLifecycle` sees a filing as one step
and an assembled file as the transaction `HandOff`, which is where `MultipartSession` and
`MtprotoJob` end; `Uploader` sees an assembly as one step and follows the bytes instead;
`ProgressMessage` keeps of the job what decides which texts are written.

**Grain.** An action is one SQL statement or transaction, one file operation or one remote call,
with the computation up to the next one: exactly what other processes can see between two
`await`s.  In the front ends it is one callback.  Definitions whose comment begins with *Faulty* are
not part of any `Next`: they are variants of an action with a plausible bug, and each property is
known to catch one of them.

**`Ingestion`.** An upload is absent, open, completed or ended; tries are granted to it and are
over at some point.  `OpenIsAttended` and `CompletedIsFiled` are what it amounts to.
`UploadLifecycle!Promised` maps it: a try is a row of `jobs`, over once it is settled and no slot
holds it; an upload is open while its status is not terminal; `lost` is `abandoned`.  Every
claim, refund, restart and stage of a run is then a stutter, and `ImplementsIngestion` says that
nothing else happens to an upload than the abstract module allows.

**`UploadLifecycle`.** `status`, `cancelRequested` are columns of `uploads`; `jobStatus`,
`jobUpload`, `attempts`, `maxAttempts` those of `jobs`.  `pc[s]` is the next statement of
`processUpload` in slot `s`, `held[s]` its job.  `Claim` is `claimForLane`; `Start`…`Complete` are
the stages in order, `Checkpoint` being `checkCancel`; `SettleJob`, `FailForNow`, `FailForGood`,
`MarkFailed` are the two halves of `handleJob`.  `ReleaseOrphans` then `ResetStale` are the start of
`main()`.  `requestCancel` is a transaction of several statements under READ COMMITTED: `CancelBegin`
takes the row lock and fixes the pending jobs it marks, `CancelCommit` reads whether a job is active
and commits; in between, others see nothing, a claim passes the marked rows over (`SKIP LOCKED`) and
a status change waits.  `RetryCheck`/`RetryCommit` are the 409 test of the handlers and `retryUpload`'s
transaction.  A statement of a run may fail too, one behind the terminal status included (the audit
log, `jobs.complete`): `FailForNow`.  When the statement that would record *that* fails, nothing catches
it and the slot is simply freed: `Drop`, counted with the crashes.  Two history variables name who
then waits: `abandoned`, the uploads cut off from the one statement that would have settled or queued
them, and `dropped`, the jobs left `active` without a slot until the next restart.

**`Filing`.** `media[u]` is the path in `u`'s media row, `library[p]` whose bytes are at `p` and
whether they are all there, `path[u]` and `found[u]` what the run has read and not yet used.
`CheckPrior` … `Finish` follow `processUpload` from "Already filed?" to `finishFiled`; `Reserve` is the
insert under the unique indexes; `Move` renames, or starts a copy when the root is on another
filesystem, which `FinishCopy` ends.  `DeleteRow`/`UnlinkDeleted` are the administrator's deletion,
`Vanish` a file removed outside the program.  `usurped` and `touched` record that a race already
happened or that somebody outside interfered.

**`Staging`.** A file is a pair of its upload and the run that named it (0 for the ingestion), or the
copy a local Bot API server keeps (`Server`), or a session's directory (`Parts`).  How an upload comes
is fixed at the start (`staged`).  `Fetch` is `getFileInfo`, `Take` and `TakeCopy`/`FinishCopy` the two ways of
`takeLocalFile`, `Stream` the public Bot API, `RecordTake` the patch of `local_source_path`; `Fail` is the
`catch` of `processUpload` with its decision to keep or remove.  `OpenSession` … `RetrySession` are what a
session does to its directory.  The reaper goes through the three places in turn (`place`):
`List`, `Query`, `Reap` or `ReapParts`, `EndPass` are `reapDownloadTmp`, `reapBotApiData` and `reapParts`, the
second of which queries before it lists.  Age is a bit: untouched for the place's grace period, or
not.

**`MultipartSession`.** One pending count per kind of job, and `at[a]`, the next statement of a slot or
a request.  `beginAssembly` is `Check`, `Arm`, `Queue`; `claimForAssembly` is `ClaimSession`;
`handleAssembleSession` is `ListParts`, `Concatenate`, `Verify`, `HandOff` or `FailAssembly`;
`requestCancel` of sessions is `Cancel` and `CancelJobs`, two statements without a transaction.
`Restart` is the recovery of parts and sessions at worker start.  The history variables say what had to
happen for an exception: `disturbed` (a promised part stopped being READY), `rearmed` (READY was set
during an assembly), `parked` (the queued assembly was given up), `orphans` (fetches cut off). A sender
may declare the number of parts with any of them.  `FailAssembly` ends READY or, where the parts turn
out to be missing, FAILED; in either case the job may run again.  The code's sweep gives a part in
flight up after a day, the model's as soon as nobody is at work on it, so a sweep that overtakes a
transfer of more than a day is left out.

**`MtprotoJob`.** `status`, `cancelRequested`, `attempts` are the columns of the row; `jobStatus`,
`jobAttempts` those of its entries in `jobs`.  `ClaimEntry` is the queue's claim, `Read` and `ClaimRow` the
start of `handleMtprotoDownload` (the second is `claimForDownload`), `BeginDownload` … `HandOff` its
stages, `Fail` its `catch`, `Settle` the branch of `handleJob`.  `Retry`, `Reset`, `Clear`, `Enqueue` are the
four statements of `retryMtprotoJob`, `Cancel` and `Sweep` the two of `requestCancel`, `Restart` the release
of entries and `resetStale`.  What may go wrong under the handler is explicit: `Disown` (the audit log
fails behind the hand-off), `Break` (a statement of the `catch` fails), `Drop` (settling the entry fails).

**`Uploader`.** A client is a run of the command-line uploader or of the Mini App's sender
(`Retrying` are the former, which send a part again); its `pc` is the request it is about to make.
`Begin` is `planUpload` and the first quota check of `/begin`, `FindOpen`/`FindOrCreate` its two looks at
the sessions of a name, `PutSingle`/`CreateDirect` the check and the row around a stream, `PutPart`,
`PartRefused`, `PartBreaks` the loop over parts, `Complete` and `Waits` the end.  A request that outlives
its client is in `late` and stores its part or marks it failed at any later time (`LatePart`).
`sessions[s].got[n]` is the file whose bytes are in part `n`; `uploads[u].of` those that ended up in an
upload.  `Fits` is `checkQuota` over `Used` and `Reserved`; `Reserve`, `Filed`, `Broken`, `RetryUpload` move an upload
through the sums it counts in.  `raced` and `twins` name the sessions two begins opened at the same
time and those a second file of one name and size was let into.

**`Accounts`.** `users` and `rows` are the tables, `folders` and `policy` Jellyfin's state.  A request
is the handler of one route, one step per query or call: `Resolve`, `ListFolders`, `FindLibrary` or
`CreateLibrary`/`ReadCreated`, `Upsert`, `ReadOthers`, `ReadCurrent`, `SetUserLibraryAccess` are
`provisionUser`; `Enforce` does that for every user; `StartDelete`, `RemoveLibrary`, `Delete` are the
deletion. The administrator flag is read once, with the account, and used at the end; `created` is what
a request knows of libraries it made itself, and void for one another request has recorded meanwhile.
Locking an account down takes three calls: `ReadCurrent` asks what it sees, `ReadPolicy` reads its
policy whole, `SetUserLibraryAccess` writes it back whole with the new list in it. Accounts start with
any policy of `Before`: among them are an account that names nothing and sees every library, as Jellyfin
creates them, and one that names the family's shared library (`Family`, which is nobody's here) and sees
nothing else.  `InJellyfin` is everything an administrator may do there: libraries come and go, an
account is given any library or loses the family's, is made an administrator or shown everything;
`shared` are the accounts it has last left with the family's library by name.  `AuditIsOk` is
`analyseIsolation`, on the state of one moment.  `settled` are the users whose account nothing has
touched since it was locked down; `spoiled` are those a library of whom may be on record nowhere (a call
failed, a deletion overlapped a provisioning, or a row came to name another library while the old one
still existed), `blind` the accounts locked down without knowing what they saw, or whose policy was
changed in Jellyfin between that question and the write.

**`ProgressMessage`.** `say[p]` is party `p`'s request to Telegram, which is applied (`Apply`) or lost
(`Lose`) in any order, its answer being heard in another step; `chat` is the messages' texts.  The run's
`ProgressReporter` is `rep`, with `inFlight` as `busy`; the fetch timer's callback, which nothing
awaits, is `tick` and may outlive its run.  So may the last edit of a cancelled run, whose upload can be
retried before it is answered: it is then the `former` run's, and its job is active until
`FormerHeard`.  Of an upload's jobs only the newest is otherwise followed.  `late`, `lost`, `blind` name
the three ways to a wrong last word.

**`Dashboard`.** A page is reduced to how it redraws itself, where it takes the user list and when it
takes its token: the record under its name.  `draw` are the draws in flight; `mount`, `autoRefresh`,
`navigate` (`Open`), `showLogin` are the functions of these names, `Tick` the timer, `Send` … `Redrawn`
a form from its submission to the page drawn again behind it, `Issued` and `Redrawn` being the two
halves around the dialog that shows a new token.  `Logout` is the click, `LoggedOut` whatever follows
the request: its `catch` is empty, so the form is shown whether or not the server has ended the session
(`Expire`, which is the server's step).  The address may change over the form.  Requests fail as well as
being refused, the shared one for the user list included (`UsersFail`).  `rearmed`, `late` and `raced`
name the exceptions below.  Not in the model: the pager's own redraw of a list that has shrunk
(`public/js/app.js:385`), and which filter a page has, since every filter redraws through the same
function.

**`MiniApp`.** `request` are the requests in flight, each under the token of the view that asked; `body`
the list bodies built so far and `attached` the one on screen, because a late answer, with rows or
without, still fills the body it was asked for; `jump` counts the timeouts behind finished uploads;
`library` and `history` are the state shared by the answers of one view.  `poll`, `refresh`, `expired`,
`show` are the functions of these names, `ShowError` and `TryAgain` what `errorBox` shows and its button
does; `sending` and `transfer` the upload under way and its card; `Acted` the answer to a row's button,
which draws that row's view under whatever token is current then: `strayed` if it is another visit's
than the button's.  `expiredOnce` is set when the message to reopen the app is shown, `resumed` when the
reader goes on from it all the same, by a tab or by an upload that finishes behind it.

## 3. The runs

| Run | Question | Bounds | Result |
| --- | --- | --- | --- |
| `lifecycle` | do the lifecycle's invariants hold under every interleaving, crash, cancel and retry, and is it an `Ingestion`? | 1 upload, 3 jobs, 2 slots, 2 concurrent requests, 2 attempts, 2 crashes or lost settlements | holds |
| `lifecycle_live` | does every accepted upload reach a terminal status? | 1 upload, 2 jobs, 2 slots, 1 request at a time, 1 crash | holds |
| `filing` | do three concurrent uploads leave one copy, known and whole? | 2 of one title, 2 of the same bytes, 2 names, 2 slots, 1 crash, 1 deletion; one title's library on another filesystem, the other's on the same | holds |
| `staging` | do reaper, runs and sessions respect each other, and is rubbish collected? | 1 upload of either way, 3 runs, 2 crashes | holds |
| `sessions` | is a session assembled once, whole, attended? | 2 parts, 2 slots, 2 requests at a time, 3 in all, 2 crashes | holds |
| `mtproto` | is a forwarded file fetched by one slot at a time, handed off once per request, and attended? | 3 entries, 2 slots, 2 requests at a time, 2 attempts, 1 crash or failed statement | holds |
| `uploader` | is a file reported done the one that was filed, and was it admitted within the quota? | an uploader and a Mini App sender, 3 files of one name in 2 sizes and a small one, 3 parts at most, 3 runs, 2 sessions, 2 uploads, 2 losses | holds |
| `accounts` | does a locked-down account see its own and nobody else's, and does the audit tell the truth? | 2 users, 2 accounts, 2 names, 1 media type, 4 libraries, 2 requests at a time and 3 in all, 1 change in Jellyfin, 1 failure; accounts that see everything by default, or the shared library by name | holds |
| `messages` | does an upload's message end on its outcome, and is there one? | 2 attempts, 1 retry, 1 restart or lost request | holds |
| `dashboard` | does the screen show the page the address names, and does the timer serve it? | 4 pages, one of each kind, 2 draws at a time, 3 navigations, 1 change | holds |
| `miniapp` | are lists what their controls select, and does the poll serve its view? | 2 types of 2 and 1 pages, 2 requests at a time, 2 files, 2 view switches, 3 lists | holds |
| `cancel_strand` | does a cancellation always finish the upload? | 2 jobs, 2 slots, 1 request at a time, no crash | violated |

**Why the bounds are enough.** Uploads meet only in the slots (`UploadLifecycle`) and in a title or a path
(`Filing`), so one and three (same title; same bytes; both) of them show every kind of meeting; in
`Staging` they do not meet at all: every file has one owner and the reaper judges each by itself.
Three runs let a file be taken, fail and be taken again, or a copy left by one run be found by the
next; two crashes strike an ingestion or a run and the reaper.  Three jobs allow two retries, hence two runs of one upload in two
slots while a third waits; two concurrent requests are two retries, a retry and a cancellation, or two
cancellations; three entries of an MTProto row, two retries that both found it closed.  Two attempts
are the least with a retry and a last attempt; two crashes let a job be refunded twice.  Two names for
a title are a first choice and a collision.  Two parts are a last one and another; three requests let
each part arrive and somebody interfere, or one part and two people.  Two clients with three files of one name cover a resumed
session, a replaced one, one joined for another file of its size and one opened twice; a quota of four
is full after any two of them.  Two accounts are one's own and another's; three requests let a user be
provisioned while another is created or deleted and be provisioned again; with one media type a
user's libraries are still a set read before and written after.  Two draws or requests in flight are
the least that can overtake each other; three tokens let a page be left and returned to.
Crashes, requests, losses, switches and deletions are bounded in the guards (the constants named
`Max…`, and the ids of `Jobs`), which only cuts behaviours off.  Runs of interchangeable ids use a
symmetry (`Interchangeable`, `Symmetry`, `Symmetric`): nothing but equality is asked of them.
`lifecycle_live` and `staging` check liveness and use none.  `MultipartSession` and `Staging` leave out that
the statement which records a failure may itself fail; `UploadLifecycle` and `MtprotoJob` show what that
costs.  Each module's `TypeOK` (`DashboardTypeOK`, `MiniAppTypeOK`) is proved and therefore in no run.

**Deadlock** is not checked: a settled upload that nobody retries, a completed session, a
library at rest and a reader who does nothing are states in which the system really stops, and the
bounds stop the rest.

**Fairness.** `UploadLifecycle` assumes that a dead worker is started again (`deploy/systemd`,
`Restart=on-failure`, `RestartSec=5s`) and recovers, that its loop goes on claiming while a slot is
free, that every statement of a run, of an intake and of a cancellation's transaction returns.  A
statement that waits for a row lock is queued by PostgreSQL behind a transaction that ends, which is
strong rather than weak fairness.  Nobody has to accept, cancel or retry, and no failure has to
happen; that runs end although any statement may fail again and again comes from the attempts
alone.  `Staging` assumes that the reaper runs (at startup and hourly) and ends its passes, and that a
file untouched for good does become old between two passes.  The other modules have safety
properties only and assume nothing.

### What does not hold

`cancel_strand` checks what `src/db/repositories.ts:554` says a cancellation prevents ("would otherwise
sit at QUEUED forever"), and is violated: cancel a run, retry between its CANCELLED and the settlement
of its job, cancel again: the new job is cancelled, the old one counts as running and merely settles,
the upload stays QUEUED.

Elsewhere a property names its exception, a history variable set at the racy step itself, so that
the property still says that this step is the only way.  The exceptions are real behaviour:

- **Two workers** (hypothesis `OneWorkerProcess`): `main()` releases every `active` job, also those another
  live worker runs (`worker/index.ts:481`), although the comment at line 30 of that file says a
  second worker is safe.
- **Reservation race** (`usurped`): a run whose duplicate has a row but no file yet deletes the row
  as stale while its owner is about to move the file; both file a copy (`worker/pipeline.ts:357`).
- **Partial copy** (`CompletedIsFiled` does not ask for whole bytes of a title on another filesystem): there
  the copy goes to the final path; a crash leaves a truncated file that the next run takes for its own
  finished work (`services/storage.ts:294`, `worker/pipeline.ts:152`).  The remains need not even be of
  the same upload: if a copy fails and another upload of the title reserves the same path and dies
  before it moves, its next run finds a file at the path in its row, the first one's, and completes.
  `CompletedIsFiled` used to say that the file is at least the upload's own; the proof does not go
  through there, and a run with a library on another filesystem agrees.
- **Double assembly** (`rearmed`): `beginAssembly` sets READY without looking at the status; a second
  caller re-arms a session that is being assembled (`worker/multipart.ts:248`).
- **Truncated hand-off** (`disturbed`): the assembler takes the parts READY when it lists them; one
  replaced since the completeness check is left out, and the rest is handed off
  (`worker/multipart.ts:301`).
- **Waiting bytes** (`late` of `Staging`): retrying a failed upload or session between the reaper's query
  and its unlink, or after it, finds nothing; a copy the Bot API server has kept for the grace period
  may be reaped between its answer and the rename.  The comment at `services/reaper.ts:209` calls that
  recoverable by a later `getFile`, but `takeLocalFile` fails the upload for good
  (`services/download.ts:521`): only a person's retry fetches it again.
- **Crashes** (`abandoned`, `stranded`): a worker that dies between failing the last attempt of a job and
  writing FAILED leaves the upload mid-flight, requeued without a job; one that dies between renaming
  a staged file and recording the name leaves the only copy where no row names it.
- **Failed statements** (`dropped`, `disowned`): a job whose lane lookup fails after the claim, or whose
  settlement fails, stays `active` until a restart (`worker/index.ts:333`).  An audit insert that fails
  behind a hand-off is inside the handler's `try`: an MTProto fetch that reads COMPLETED is set PENDING
  and done again, a second upload (`worker/mtproto.ts:220`); a session that reads COMPLETED is set
  READY with its parts gone (`worker/multipart.ts:389`).
- **Cancelled while waiting** (the `~cancelRequested` of `FetchIsAttended` and `ReadyIsQueued`): cancelling
  an MTProto fetch between two attempts, or a session that is READY, cancels its job and leaves a row
  nobody closes; retrying the former answers 409 and forwarding the message again is refused as
  "already being fetched".  A retry may clear the flag of a cancellation whose second statement then
  cancels the retry's own entry (`crossed`).
- **Sessions by name** (`raced`, `twins`, `overtaken` of `Uploader`): the name is the key, so a different
  file of the same name and size joins a session and the two are mixed; two begins that both found no
  session may share one though their sizes differ; and two uploads that were both checked before
  either's row existed pass the quota together.
- **Messages** (`late`, `lost`, `blind`): an edit is dropped while another is in flight, so a cancelled
  upload may read "downloading" for ever; a request that fails is not repeated; a run claimed before
  the bot has its receipt's id sends a message of its own.
- **Jellyfin** (`settled`, `spoiled`, `blind` of `Accounts`): adopting a library by its path leaves it
  visible to accounts that saw it; a rename of the Jellyfin account leaves the old one its libraries;
  the account's policy is read, changed and written back over three calls, so what an administrator or
  another request changes meanwhile is undone, and a failed "what does it see now" counts as nothing:
  either way a library that is nobody's is lost, or comes back (`services/isolation.ts:186`), against
  rule 3 of `services/isolation.ts:75`.  An account that sees every library without naming any, as a new
  one in Jellyfin does, loses all that is nobody's for good when it is provisioned: `enabledFolders`
  (`services/jellyfin.ts:299`) reads the list and not the flag.  `SharedIsKept` is therefore about
  libraries an account *names*; two overlapping requests for a user may create the library twice and a
  deletion that fails or overlaps leaves one.  A rename between two overlapping provisionings of a user,
  or a provisioning under a name that another's library bears, makes the row name another library; the
  one it named stays in Jellyfin with nobody to delete it.  That takes more requests than the run
  allows; the proof of `NothingLeftBehind` asked for the exception.
- **Late pages** (`rearmed` and `raced` of `Dashboard`): `autoRefresh` runs behind a page's first answer
  whether or not the reader is still there (`public/js/app.js:3396`, against the comment at line 45);
  the log page's draws take their token when they start, so from such a timer they do paint over another
  page.  A user list asked for before a change may be cached after it.  The privacy page's repair
  changes users without dropping the cached list at all (`public/js/app.js:3143`); that is outside the
  model.
- **A form before a reader who is signed in** (`late` of `Dashboard`): a sign-out that times out, or is
  refused or fails on the server, shows the sign-in form and leaves the session as it was, although
  `public/js/app.js:3705` says "the cookie is cleared either way": only an answer clears it.  The same
  happens when the first question who the reader is fails, and when the 401 of a page asked for under an
  old session arrives under a new one (`public/js/app.js:243`).  A form still open, or a click on Back,
  then draws a page behind the form and has it polled there.
- **Late lists** (`overtaken`, `strayed` of `MiniApp`): answers of the library share one token, so a
  filter's late answer is mixed into the next one's list; "Try again" and "Cancel" draw their view over
  whatever the reader has opened since, the message to reopen the app included, and also over a later
  visit of the same view, a second tap on its tab included.  An upload that finishes behind that message
  opens the transfers view, whose request the server refuses again (`public/miniapp/js/app.js:898`).

Reading turned up a few more places that no model goes into: the header of `services/isolation.ts`
says libraries are named by the user's slug, and `libraryName` uses the display name; a failure behind
the last attempt is still announced with "will try again automatically" (`worker/index.ts:247`); a
component that recovers by way of `unknown` is never announced as recovered (`services/health.ts:48`,
against `worker/index.ts:414`); a lane lookup that fails takes a large upload for a small one
(`worker/index.ts:315`); the uploader's wait does not know NEEDS_REVIEW;
and jobs accepted while `QUEUE_PAUSED` is set get a `run_after` a century ahead (`db/repositories.ts:965`), which
nothing brings back when the pause ends, against "accept work, claim none. Nothing is lost" (`docs/configuration.md:188`).

## 4. The theorems

From the assumptions on constants named in the modules, for any number of uploads, jobs, slots,
users, requests and crashes:

| Module | Theorem | States |
| --- | --- | --- |
| `UploadLifecycleProofs` | `TypeCorrect` | `Spec => []TypeOK`, with any number of workers |
| | `RunsAreExclusive` | one worker process: `[]OneRunPerJob` |
| | `NoJobIsLost` | one worker process: `[]ActiveJobsAreHeld` |
| | `SettledForGood` | one worker process: `SettledJobsStaySettled` |
| | `AttemptsAreBounded` | one worker process: `[]AttemptBudget` |
| | `NothingIsStranded` | one worker process: `[]NoStranding` |
| | `FilingIsFinal` | one worker process: `[]FiledIsNotRedone` |
| | `CancelledIsFinal` | one worker process: `[]CancelledIsNotFiled` |
| | `LifecycleImplementsIngestion` | one worker process: `ImplementsIngestion` |
| | `AttendedUntilEnded` | whatever implements `Ingestion`, hence one worker process: `[]Promised!OpenIsAttended` |
| | `CompletedMeansFiled` | likewise: `[]Promised!CompletedIsFiled` |
| `FilingProofs` | `TypeCorrect` | `[]TypeOK` |
| | `OneCopy` | `[]OneCopyUnlessUsurped` |
| | `NoUnknownFile` | `[]FilesAreKnown` |
| | `CompletedUploadsAreFiled` | `[]CompletedIsFiled` |
| | `FilesAreNotOverwritten` | `NothingOverwritten` |
| | `NoSelfDuplicate` | `NotADuplicateOfItself` |
| `StagingProofs` | `TypeCorrect` | `[]TypeOK` |
| | `WaitingBytesAreKept` | `[]BytesAreKept` |
| | `ReaperIsCareful` | `ReaperSparesWork` |
| `MultipartSessionProofs` | `TypeCorrect` | `[]TypeOK` |
| | `AssembliesAreAttended` | `[]AssemblyIsAttended` |
| | `AssembliesAreSingle` | `[]OneAssemblyUnlessRearmed` |
| | `ReadySessionsAreQueued` | `[]ReadyIsQueued` |
| | `PartsAreWorkedOn` | `[]NoPartForgotten` |
| | `AssembliesAreWhole` | `AssembledWholeUnlessDisturbed` |
| `MtprotoJobProofs` | `TypeCorrect` | `[]TypeOK` |
| | `FetchesAreSingle` | `[]OneFetchUnlessOverrun` |
| | `UploadsAreSingle` | `[]OneUploadPerRequest` |
| | `RestartsAreFree` | `[]RestartIsNoFailure` |
| | `FetchesAreAttended` | `[]FetchIsAttended` |
| `UploaderProofs` | `TypeCorrect` | `[]TypeOK` |
| | `ReportsItsOwn` | `[]DoneIsMine` |
| | `NoneBeyondItsCheck` | `[]AdmittedWithinQuota` |
| `TelegramProofs` | `TypeCorrect` | `ProgressMessage`: `[]TypeOK` |
| | `OutcomeIsAnnounced` | `[]LastWord` |
| | `OneUploadOneMessage` | `OneChatEntry` |
| | `MiniAppInvariant` | `MiniApp`: the inductive invariant, `MiniAppTypeOK` included |
| | `MiniAppLists` | `[]ListsAreAsSelected` |
| | `MiniAppPolls` | `[]PollServesView` |
| | `MiniAppSends` | `[]SendHasItsCancel` |
| `AdministrationProofs` | `TypeCorrect` | `Accounts`: `[]TypeOK` |
| | `SettledAccountsArePrivate` | `[]SettledIsPrivate` |
| | `SharedLibrariesAreKept` | `[]SharedIsKept` |
| | `DeletionLeavesNothing` | `[]NothingLeftBehind` |
| | `AuditTellsTheTruth` | `[]AuditIsTruth` |
| | `DashboardInvariant` | `Dashboard`: the inductive invariant, `DashboardTypeOK` included |
| | `DashboardShowsItsPage` | `[]OwnScreenUnlessRearmed` |
| | `DashboardTimer` | `[]TimerServesPage` |
| | `DashboardCache` | `[]CacheHasTheChange` |

**Assumptions.** Those on constants are typing (`TitleType`, `BoundsType`, `ActorsType`, `WantedType`,
`BeforeType`, `PagesType`, `VisitsPages`, …), that slots and what is counted are finite (`SlotsFinite`,
`ActorsType`), and that a model value standing for "nothing" is none of the things it stands beside
(`NoneIsNothing`, `NothingIsNothing`); TLC evaluates each in the runs. `OneWorkerProcess` is a
hypothesis of the lifecycle's safety theorems rather than an assumption of the module: it is what
`deploy/systemd` installs, and with two the theorems are false.  The other modules have one worker
process by their shape (`up`), or do not need to know.  The bounds on crashes, requests and the like are
arbitrary numbers in the proofs: no theorem depends on their values.

**The lifecycle.** Mutual exclusion of runs is not inductive by itself.  `Exclusive` adds to it: that
slots and requests name existing rows (`References`); that a slot is busy only while its worker runs
(`BusySlotsRun`), so that releasing *all* active jobs at start releases only orphans; that what a
cancellation marked is still pending when it commits and that cancellations of one upload exclude
each other (`Cancellations`); and that active jobs are held or `dropped`.  `RunShapes` sorts the eighteen steps of a
run into a few shapes by what they write, so the proofs have a case per effect and not per
stage.  `NoStranding` is not inductive either: a job whose run has already written a terminal status
is still `active`, and would count as somebody to finish an upload that a retry has just requeued.
`FinishersOK` counts a job only while its run has not decided (`Useful`); a retry inserts a job that
is useful, a cancellation raises the flag, and a run that decides writes a terminal status in the
same step.  `FiledIsNotRedone` and `CancelledIsNotFiled` are about uploads with one job, whose runs
therefore follow one another (`OneJobOneRun`).  `OneJobOK` says how each leaves the row for the next: a run
that has begun to fetch has written over DUPLICATE or NEEDS_REVIEW, and a row that reads CANCELLED
is still flagged, so that whoever claims the refunded job stops at its first checkpoint.

**The refinement.** A step of the worker is a step of `Ingestion` only in states the lifecycle can
reach, so the proof has its own invariant, `Kept`: `Exclusive`; `Rows`, that free rows of `jobs` name no
upload and nothing names an upload that was not accepted; `ScansAreFiled`, that a run which is to end
well has filed; and `Attending`, `FinishersOK` for cancelled uploads too, with the one exception (`Overtaken`)
that the run `cancel_strand` finds.  Given `Kept`, each action maps to one abstract step or to none
(`NextImplements`): `Accept` to `Accept`, `EnqueueFirst` to `GrantFirst`, `HandOff` to `HandOver`, `File` to `File`,
`Conclude` and `MarkFailed` to `End`, `SettleJob` to `Close` or, where a retry is overtaken, `Lose`;
`CancelCommit` and `RetryCommit` to `Cancel` and `Retry`; a crash or a `Drop` to `Lose` or nothing; a status
that only moves between unfinished values to nothing, and one that a straggling run writes over a
terminal one to `Reopen`; claims, refunds and restarts to nothing.  The two facts about `Ingestion` are
inductive with its types alone, which is what makes it a useful summary.  They are proved of the
abstract module under the mapping and then, with the refinement, hold of the lifecycle.

**Filing.** One copy of a title follows from the row, not from the files.  `Rows`: a title has one media
row, and a run past its look at the table has none until it reserves.  `ReservationsHold`, for titles
that are not `usurped`: the path a run is moving to is in its row and nothing whole lies there, and a
file lying where a run is about to reserve is still in its owner's row, so that the unique index
refuses the insert.  That last clause is what makes a path picked some statements ago harmless.
`RowsOwnFiles` (a whole file at a row's path is the row's) then gives `OneCopyUnlessUsurped`,
`NothingOverwritten` and `NotADuplicateOfItself`; `PastTheMove` extends `CompletedIsFiled` to a run that is past
the move and has not said so yet.

**Staging.** The invariant is about one upload at a time (`Safe(u)`), because no other upload's step and
no other pass of the reaper touches its files.  `Role` relates a row to its run (a staged name is older
than the run's own until it is taken), `Names` says that a run's name is new when it takes the file,
`Held` that a file in somebody's hands is young, and `Spared` is the reaper's side: while it deletes,
what a row protects was seen by its query, or is young, or is `late`.  `Kept` is then `BytesAreKept` with
the steps between a rename and its record filled in.

**Sessions.** `AssembliesExclude` says that until a session is `rearmed` the assembler alone has closed it
to every other one, and so has the upload it leaves; the number of assemblers is a set's and never
counted.  `ReadyIsAttended` is stronger than `ReadyIsQueued` in that it covers the time a worker is down,
when a crashed assembly's job is queued again *before* the session is set READY; `PartsAreAttended` is
`NoPartForgotten` with the steps named that hold a part; `PromiseIsKept` ties the completeness check to
the parts that are READY.

**MTProto.** `FetchesExclude` (a fetch closes the row) with `EntriesAreSingle` (one live entry, or one request
about to queue it) and `AttemptsFail` (the row's count is at most one ahead of the failures) are the
safety part.  `FetchIsAttended` needs that two counters agree: the entry's attempts, which decide
whether the queue runs it again, and the row's, which decide whether the handler asks for that
(`CountsAgree`, `EndingsAgree`); where none of the named races happened, neither gives up before the other.
`OneUploadPerRequest` is a budget: uploads made, fetches running and one in store never exceed one per
request or disowned hand-off (`UploadsAreOwed`).

**Accounts.** A library has one name (`ItemsHaveOneName`), a name is in one row (`NamesHaveOneRow`, the
upsert's key), and a library a request created and has not recorded yet is in nobody's view
(`CreatedIsUnseen`), so that recording it takes nothing away from a settled account. `CalmIsHarmless`:
what an undisturbed request is about to let an account see, kept from before or its own, belongs to no
other user, although the rows it was computed from were read some calls ago. `SharedIsKept` needs the
whole way of the shared library through the requests: it is in no row, in no list of others' or own
libraries, and what a request holds under its id is not a user's (`FamilyIsNobodys`); and whoever is
about to write what an account sees, unless that account is `blind`, has it in the list it read exactly
when the administrator left it there (`FamilyIsKept`). `NothingForgotten` follows every library on a
user's directory: it is in a row, or in the hands of a request that will record it, and on the list of
every deletion under way; `Departures` says what a user who is gone has left.  `AuditTellsTheTruth` is
the one theorem here that needs no invariant beyond the types: the three checks imply the verdict in any
state, which is what an audit must not leave to the protocol.

**Uploader.** A session keeps the plan of the file it was opened for, and one that was entered neither
by two begins at once nor for another file of its name and size (`Clean`) holds that file's bytes only,
whatever late part requests arrive (`SessionsOK`, `LateOK`); `ClientOK` says at each request what the client has
sent of its file and that the session or upload it holds is that file's.  `WithinQuota` says that a client
that has passed its check and was not overtaken since (`Fresh`) is within the quota still: what is
charged grows only when a file is admitted or a failed upload retried, and those overtake everybody
else.  A sum of sizes is stated as the cardinality of a set of bytes, a pair of a row and a number
for each, so that facts on finite sets (`FiniteSetTheorems`) stand in for an induction over rows.

**Messages.** While nobody has begun blindly, every request that is out names the row's message, and
where the row has none one party alone may send it (`OneMessage`); that a run's reporter is busy exactly
while the run, the former one or its own timer callback has a request out (`ReporterOK`) keeps those
apart.  `Over` is about an upload that ended while no other party was writing: whoever writes from then
on writes the outcome, and it is in the chat, on its way or lost, or there is no message.  A retry makes
the row unfinished again and ends that claim; a later outcome begins it anew.

**The dashboard.** `Fits` is the core: what is drawn under the current token is of the page on screen,
or of the log page once that has started a timer after it was left.  Draws in flight, the timer, the
form being sent and what is on screen all fit (`DrawsFit`, `TimerFits`, `ChangeFits`, `MainFits`),
because whoever changes the page takes a new token in the same callback.  `TimerServesPage` compares the
timer with the page only when its draw has arrived, so the rest says what holds while it is on its way:
nothing that can start a timer is answered behind the sign-in form of a reader who is signed out
(`SignedOut`, `DrawsInApp`), a page that is always polled has its timer by the time a tick draws it
again (`RedrawsPolled`), and `polling` agrees with the timer and with what the page last showed as
unfinished (`PollingIsTimer`, `PollingIsLive`).  `CacheHasTheChange` needs the list in flight to be as
new as the one it will replace (`FetchFresh`).  `late` is what remains: the form before a reader the
server still knows, however that came about.

**The Mini App.** `ScreenOfView` says that until a view is drawn by an action of an earlier visit, every
request under the current token, the action under way and the screen belong to the view that is
open; `ActiveAsks` that on the transfers view one request stands for the screen or only quiet ones
refresh it, from which the poll runs with the view (`PollsRunning`); `MessageAlone` that nothing is on its way that could
draw over the message to reopen the app.  `OwnBodies` ties each list body to the requests that fill
it: a late answer fills its own, so the history on screen is what its controls select
(`HistorySelected`).  The library's requests share one state, so `LibrarySelected` speaks of the last of them
only: until an answer was `overtaken`, the items and the grid are the listing so far, and the body that
is to receive the rest ends where the request in flight begins.  `SendHasItsCancel` is inductive as it
stands.  Trying to prove `PollServesView` as it was first written showed where it was false: an
upload that ends behind the message, and a redraw into a later visit of the same view.

**Only model-checked:** liveness (`EveryUploadSettles`, `NoOrphanStays`: fairness is beyond the
prover), and the counterexample of `cancel_strand`.

## 5. Plan

Done: `UploadLifecycle`, the spine; `Ingestion` and the refinement; `Filing`; `Staging`; `MultipartSession`;
`MtprotoJob`; `Uploader`; `ProgressMessage`; `Accounts`; the front ends `Dashboard` and `MiniApp`, all with
their proofs.  Next, in this order:

1. `JobQueue` — lanes and their caps, `run_after` and backoff, priorities, drain on SIGTERM — as what
   `UploadLifecycle`'s claims abstract.
2. Algorithms against reference definitions: `backoffMs`, part names, the parser's episode ranges.

## 6. Not modelled

Pure recognition and scoring (parser, identification, TMDB): the models take any outcome.  Calls to
Telegram and TMDB: they succeed, fail for now or fail for good.  Verification of an item and scans: a
poll of Jellyfin whose failure changes no state.  Health and its alerts, logging: nothing reads them
back.  Authentication, flood control, path containment, permissions: local to a request; the clients'
models take acceptance, refusal and expiry as the server's choice.  Migrations, setup scripts,
backups: run by hand.  What the front ends say beyond whose page it is: rendering.  Lanes, priorities
and backoff are abstracted to "a pending job may be claimed at any later time", which
over-approximates every schedule.
