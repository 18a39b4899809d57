-------------------------- MODULE ProgressMessage --------------------------
(***************************************************************************)
(* The Telegram message that accompanies one upload sent to the bot.  It   *)
(* is meant to be one message, edited in place; several parties edit it,   *)
(* each awaiting its own requests and none the others': the bot that took  *)
(* the file, the worker's sweep of queue positions, the run, the timer     *)
(* that reports while the Bot API server fetches the file, the handler of  *)
(* a failed job, and the API that cancels an upload nobody runs.           *)
(*                                                                         *)
(* Abstractions: a text is the outcome it announces, or "queued" or        *)
(* "working"; the upload's unfinished statuses behind QUEUED are one; rate *)
(* limits are a choice to edit or not; the snapshot published behind an    *)
(* edit is only its message id; a retried upload is claimed after its last *)
(* failure has been told; of an upload's jobs the newest is followed.      *)
(* UploadLifecycle has the jobs in full.                                   *)
(***************************************************************************)
EXTENDS Naturals, Sequences, FiniteSets

CONSTANTS
  MaxAttempts,  \* max_attempts of a job
  MaxRetries,   \* bound on retries
  MaxFaults,    \* bound on restarts of the worker and requests to Telegram that fail
  None

VARIABLES
  row,      \* the uploads row: status, cancel_requested, progress_message_id
  job,      \* its job, and the attempts claimed
  run,      \* processUpload: where it is, and whether the row it read or wrote has a message id
  rep,      \* the run's ProgressReporter: the message it edits, who holds inFlight, and
            \* whether it has failed to send one and waits before it tries again
  tick,     \* the timer's callback, which may outlive its run and then has a reporter of its own
  say,      \* each party's request to Telegram
  chat,     \* the texts of the messages in the chat
  events,   \* the retries and faults so far
  late,     \* another party was in the middle of an edit when the upload got its outcome
  lost,     \* the request to announce an outcome was lost
  blind     \* someone began without a message id while another party was sending a message

ghosts == <<late, lost, blind>>
vars == <<row, job, run, rep, tick, say, chat, events, ghosts>>

\* "former" is a cancelled run at its last edit, its upload retried meanwhile.
Parties == {"bot", "sweep", "run", "former", "tick", "failure", "cancel"}
OfWorker == {"sweep", "run", "former", "tick", "failure"}
Outcomes == {"COMPLETED", "FAILED", "CANCELLED"}
Texts == {"received", "queued", "working"} \cup Outcomes
Requests == [msg : Nat, text : Texts, state : {"sent", "applied", "failed"}]

ASSUME Bounds == MaxAttempts \in Nat \ {0} /\ MaxRetries \in Nat /\ MaxFaults \in Nat
ASSUME NoneIsNothing == None \notin Requests \cup {"run", "tick"}

TypeOK ==
  /\ row \in [status : {"QUEUED", "WORKING"} \cup Outcomes, cancel : BOOLEAN, id : Nat]
  /\ job \in [status : {"pending", "active", "done"}, attempts : 0..MaxAttempts]
  /\ run \in [at : {"idle", "loaded", "fetching", "filing", "closing"}, known : BOOLEAN]
  /\ rep \in [id : Nat, busy : {None, "run", "tick"}, refused : BOOLEAN]
  /\ tick \in [at : {"idle", "sampling", "editing"}, id : Nat, own : BOOLEAN]
  /\ say \in [Parties -> {None} \cup Requests]
  /\ chat \in Seq(Texts)
  /\ events \in [retries : 0..MaxRetries, faults : 0..MaxFaults]
  /\ late \in BOOLEAN /\ lost \in BOOLEAN /\ blind \in BOOLEAN

NoRun == [at |-> "idle", known |-> FALSE]
NoReporter == [id |-> 0, busy |-> None, refused |-> FALSE]
NoTick == [at |-> "idle", id |-> 0, own |-> TRUE]

\* A request to send a new message (0) or to edit one.
Request(msg, text) == [msg |-> msg, text |-> text, state |-> "sent"]

\* The row is QUEUED, its job enqueued, and the receipt is on its way.
Init ==
  /\ row = [status |-> "QUEUED", cancel |-> FALSE, id |-> 0]
  /\ job = [status |-> "pending", attempts |-> 0]
  /\ run = NoRun /\ rep = NoReporter /\ tick = NoTick
  /\ say = [p \in Parties |-> IF p = "bot" THEN Request(0, "received") ELSE None]
  /\ chat = << >> /\ events = [retries |-> 0, faults |-> 0]
  /\ late = FALSE /\ lost = FALSE /\ blind = FALSE

-----------------------------------------------------------------------------
(* Telegram *)

\* Who does nothing with the answer is done once Telegram has acted.
Heeds(p) == p \in {"run", "former", "tick"} \/ say[p].text = "received"

Apply(p) ==
  /\ say[p] # None /\ say[p].state = "sent"
  /\ LET new == say[p].msg = 0
         msg == IF new THEN Len(chat) + 1 ELSE say[p].msg
     IN /\ chat' = IF new THEN Append(chat, say[p].text) ELSE [chat EXCEPT ![msg] = say[p].text]
        /\ say' = [say EXCEPT ![p] = IF Heeds(p) THEN [@ EXCEPT !.state = "applied", !.msg = msg]
                                                ELSE None]
  /\ UNCHANGED <<row, job, run, rep, tick, events, ghosts>>

\* Telegram refuses, is out of reach, or answers too late.
Lose(p) ==
  /\ say[p] # None /\ say[p].state \in {"sent", "applied"} /\ events.faults < MaxFaults
  /\ say' = [say EXCEPT ![p] = IF Heeds(p) THEN [@ EXCEPT !.state = "failed"] ELSE None]
  /\ events' = [events EXCEPT !.faults = @ + 1]
  /\ lost' = (lost \/ say[p].text \in Outcomes)
  /\ UNCHANGED <<row, job, run, rep, tick, chat, late, blind>>

Answered(p) == say[p] # None /\ say[p].state # "sent"
Hear(p) == say' = [say EXCEPT ![p] = None]
\* The id a reporter is left with: it learns the id of the message it sent.
Learnt(p, id) == IF id = 0 /\ say[p].state = "applied" THEN say[p].msg ELSE id

\* The reporter when p's edit is over.
Freed(p) == rep' = [id |-> Learnt(p, rep.id), busy |-> None, refused |-> Learnt(p, rep.id) = 0]

\* Parties other than the run that are writing, or about to.
Others == {p \in Parties \ {"run"} : say[p] # None \/ (p = "tick" /\ tick.at # "idle")}
Blind == row.id = 0 /\ Others # {}

-----------------------------------------------------------------------------
(* The bot *)

\* The receipt's id is recorded over whatever is there, and the position shown on it,
\* whatever has become of the job.  Without an answer the bot leaves it to the worker.
RecordReceipt ==
  /\ Answered("bot") /\ say["bot"].text = "received"
  /\ IF say["bot"].state = "applied"
       THEN /\ row' = [row EXCEPT !.id = say["bot"].msg]
            /\ say' = [say EXCEPT !["bot"] = Request(@.msg, "queued")]
       ELSE Hear("bot") /\ UNCHANGED row
  /\ UNCHANGED <<job, run, rep, tick, chat, events, ghosts>>

-----------------------------------------------------------------------------
(* refreshQueuePositions *)

\* Faulty: whatever has a message is refreshed.
SweepAnything ==
  /\ say["sweep"] = None /\ row.id # 0
  /\ say' = [say EXCEPT !["sweep"] = Request(row.id, "queued")]
  /\ UNCHANGED <<row, job, run, rep, tick, chat, events, ghosts>>

\* Only a row that is QUEUED and has a message; its position may have moved.
Sweep ==
  /\ say["sweep"] = None /\ row.status = "QUEUED" /\ row.id # 0
  /\ say' = [say EXCEPT !["sweep"] = Request(row.id, "queued")]
  /\ UNCHANGED <<row, job, run, rep, tick, chat, events, ghosts>>

-----------------------------------------------------------------------------
(* The run *)

\* The run is claimed, reads the row and makes its reporter.  A callback of the run before
\* keeps the old one.
Claim ==
  /\ job.status = "pending" /\ job.attempts < MaxAttempts
  /\ run.at = "idle" /\ say["failure"] = None
  /\ job' = [status |-> "active", attempts |-> job.attempts + 1]
  /\ run' = [at |-> "loaded", known |-> row.id # 0]
  /\ rep' = [NoReporter EXCEPT !.id = row.id]
  /\ tick' = IF tick.at # "idle" /\ tick.own THEN [tick EXCEPT !.id = rep.id, !.own = FALSE]
                                             ELSE tick
  /\ blind' = (blind \/ Blind)
  /\ UNCHANGED <<row, say, chat, events, late, lost>>

\* flush and setText do nothing while an edit of the same reporter is under way.  Without a
\* message, one is sent, unless an earlier attempt to send one has failed.
Edit(text) ==
  \/ /\ rep.busy = None
     /\ say' = [say EXCEPT !["run"] = Request(rep.id, text)]
     /\ rep' = [rep EXCEPT !.busy = "run"]
  \/ /\ rep.busy # None \/ rep.refused
     /\ UNCHANGED <<say, rep>>

Ready(at) == run.at = at /\ say["run"] = None

\* setStage("DOWNLOADING")
StartFetch ==
  /\ Ready("loaded") /\ ~row.cancel
  /\ row' = [row EXCEPT !.status = "WORKING"]
  /\ run' = [run EXCEPT !.at = "fetching"]
  /\ Edit("working")
  /\ UNCHANGED <<job, tick, chat, events, ghosts>>

\* setStage("IDENTIFYING"), and the later ones
SetStage ==
  /\ Ready("fetching") \/ Ready("filing")
  /\ run' = [run EXCEPT !.at = "filing"]
  /\ Edit("working")
  /\ UNCHANGED <<row, job, tick, chat, events, ghosts>>

\* publish records the id of a message the run has sent, once.
Publish(id) ==
  IF id # 0 /\ ~run.known
    THEN row' = [row EXCEPT !.id = id] /\ run' = [run EXCEPT !.known = TRUE]
    ELSE UNCHANGED <<row, run>>

StageHeard ==
  /\ run.at \in {"fetching", "filing"} /\ Answered("run") /\ Hear("run")
  /\ Freed("run")
  /\ Publish(Learnt("run", rep.id))
  /\ UNCHANGED <<job, tick, chat, events, ghosts>>

\* The outcome, and setText behind it.
Finish(outcome) ==
  /\ row' = [row EXCEPT !.status = outcome]
  /\ run' = [run EXCEPT !.at = "closing"]
  /\ Edit(outcome)
  /\ late' = (Others # {})
  /\ UNCHANGED <<job, tick, chat, events, lost, blind>>

Complete == Ready("filing") /\ Finish("COMPLETED")

\* At a checkpoint, or while fetching.
NoticeCancel ==
  /\ Ready("loaded") \/ Ready("fetching") \/ Ready("filing")
  /\ row.cancel /\ Finish("CANCELLED")

\* The last edit is answered, or there was none; its reporter publishes nothing.
Settle ==
  /\ run.at = "closing"
  /\ say["run"] # None => Answered("run")
  /\ Hear("run")
  /\ rep' = [rep EXCEPT !.busy = IF rep.busy = "run" THEN None ELSE rep.busy]
  /\ run' = NoRun /\ job' = [job EXCEPT !.status = "done"]
  /\ UNCHANGED <<row, tick, chat, events, ghosts>>

\* The same for a run whose upload is queued again; a reporter made since is another.
FormerHeard ==
  /\ Answered("former") /\ Hear("former")
  /\ rep' = [rep EXCEPT !.busy = IF rep.busy = "run" /\ say["run"] = None THEN None ELSE rep.busy]
  /\ UNCHANGED <<row, job, run, tick, chat, events, ghosts>>

\* An error with attempts left: the row and the message stay as they are.
FailForNow ==
  /\ Ready("loaded") \/ Ready("fetching") \/ Ready("filing")
  /\ job.attempts < MaxAttempts
  /\ job' = [job EXCEPT !.status = "pending"] /\ run' = NoRun
  /\ UNCHANGED <<row, rep, tick, say, chat, events, ghosts>>

\* Faulty: the failure is told by a new message.
FailAnew ==
  /\ Ready("loaded") \/ Ready("fetching") \/ Ready("filing")
  /\ job' = [job EXCEPT !.status = "done"]
  /\ row' = [row EXCEPT !.status = "FAILED"]
  /\ run' = NoRun
  /\ say' = [say EXCEPT !["failure"] = Request(0, "FAILED")]
  /\ late' = (Others # {})
  /\ UNCHANGED <<rep, tick, chat, events, lost, blind>>

\* An error that is not retryable, or the last attempt's: handleJob edits the message the
\* row has with a reporter of its own.
FailForGood ==
  /\ Ready("loaded") \/ Ready("fetching") \/ Ready("filing")
  /\ job' = [job EXCEPT !.status = "done"]
  /\ row' = [row EXCEPT !.status = "FAILED"]
  /\ run' = NoRun
  /\ say' = [say EXCEPT !["failure"] = Request(row.id, "FAILED")]
  /\ late' = (Others # {})
  /\ blind' = (blind \/ Blind)
  /\ UNCHANGED <<rep, tick, chat, events, lost>>

-----------------------------------------------------------------------------
(* The timer of getFileInfo: its callback is not awaited *)

TickStart ==
  /\ run.at = "fetching" /\ tick.at = "idle"
  /\ tick' = [NoTick EXCEPT !.at = "sampling"]
  /\ UNCHANGED <<row, job, run, rep, say, chat, events, ghosts>>

\* Another tick is dropped while one is under way; this one edits unless its reporter is at
\* it, has nothing new to say, or said it less than a moment ago.
TickEdit ==
  /\ tick.at = "sampling"
  /\ \/ /\ tick.own => rep.busy = None
        /\ say' = [say EXCEPT !["tick"] =
                     Request(IF tick.own THEN rep.id ELSE tick.id, "working")]
        /\ tick' = [tick EXCEPT !.at = "editing"]
        /\ rep' = IF tick.own THEN [rep EXCEPT !.busy = "tick"] ELSE rep
     \/ tick' = NoTick /\ UNCHANGED <<say, rep>>
  /\ UNCHANGED <<row, job, run, chat, events, ghosts>>

\* The callback may edit once more.
TickHeard ==
  /\ tick.at = "editing" /\ Answered("tick") /\ Hear("tick")
  /\ \/ tick' = NoTick
     \/ tick' = [tick EXCEPT !.at = "sampling", !.id = IF tick.own THEN 0 ELSE Learnt("tick", @)]
  /\ IF tick.own
       THEN /\ Freed("tick")
            /\ Publish(Learnt("tick", rep.id))
       ELSE UNCHANGED <<rep, row, run>>
  /\ UNCHANGED <<job, chat, events, ghosts>>

-----------------------------------------------------------------------------
(* Cancel, retry, restart *)

\* requestCancel, and announceCancelled for a row no job of which is active.  A row without a
\* message is cancelled in silence.
Cancel ==
  /\ row.status \notin Outcomes /\ say["cancel"] = None
  /\ IF job.status = "active" \/ say["former"] # None
       THEN /\ row' = [row EXCEPT !.cancel = TRUE]
            /\ job' = IF job.status = "pending" THEN [job EXCEPT !.status = "done"] ELSE job
            /\ UNCHANGED <<say, late>>
       ELSE /\ row' = [row EXCEPT !.cancel = TRUE, !.status = "CANCELLED"]
            /\ job' = [job EXCEPT !.status = "done"]
            /\ say' = IF row.id = 0 THEN say
                      ELSE [say EXCEPT !["cancel"] = Request(row.id, "CANCELLED")]
            /\ late' = (Others # {})
  /\ UNCHANGED <<run, rep, tick, chat, events, lost, blind>>

\* retryUpload keeps the message, and asks nothing but the row's status: a cancelled run may
\* still be at its last edit.
Retry ==
  /\ row.status \in {"FAILED", "CANCELLED"} /\ events.retries < MaxRetries
  /\ say["former"] = None
  /\ row' = [row EXCEPT !.status = "QUEUED", !.cancel = FALSE]
  /\ job' = [status |-> "pending", attempts |-> 0]
  /\ run' = NoRun
  /\ say' = [say EXCEPT !["former"] = say["run"], !["run"] = None]
  /\ events' = [events EXCEPT !.retries = @ + 1]
  /\ UNCHANGED <<rep, tick, chat, ghosts>>

\* The worker dies and starts again; what it had not yet sent is not sent.
Restart ==
  /\ events.faults < MaxFaults
  /\ events' = [events EXCEPT !.faults = @ + 1]
  /\ run' = NoRun /\ rep' = NoReporter /\ tick' = NoTick
  /\ say' = [p \in Parties |-> IF p \in OfWorker THEN None ELSE say[p]]
  /\ job' = IF job.status = "active"
              THEN [status |-> "pending", attempts |-> job.attempts - 1] ELSE job
  /\ row' = IF row.status = "WORKING" THEN [row EXCEPT !.status = "QUEUED"] ELSE row
  /\ lost' = (lost \/ \E p \in OfWorker : say[p] # None /\ say[p].text \in Outcomes)
  /\ UNCHANGED <<chat, late, blind>>

-----------------------------------------------------------------------------

Next ==
  \/ \E p \in Parties : Apply(p) \/ Lose(p)
  \/ RecordReceipt \/ Sweep
  \/ Claim \/ StartFetch \/ SetStage \/ StageHeard \/ Complete \/ NoticeCancel
  \/ Settle \/ FormerHeard \/ FailForNow \/ FailForGood
  \/ TickStart \/ TickEdit \/ TickHeard
  \/ Cancel \/ Retry \/ Restart

Spec == Init /\ [][Next]_vars

-----------------------------------------------------------------------------
(* Properties *)

\* Once an upload is over and nobody is writing, its message announces the outcome, if no
\* other party was in the middle of an edit when the outcome fell, no announcement was lost
\* and no two parties have sent a message each: nothing but those three makes a finished
\* upload look unfinished.
LastWord ==
  row.status \in Outcomes /\ Others = {} /\ run.at = "idle" /\ row.id # 0 =>
    chat[row.id] = row.status \/ late \/ lost \/ blind

\* "One upload stays one chat entry": through retries and restarts, a message is sent only
\* while the row has none, unless two parties found none at the same time.
OneChatEntry == [][Len(chat') > Len(chat) => row.id = 0 \/ blind]_vars

=============================================================================
