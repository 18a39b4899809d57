------------------------ MODULE UploadLifecycleProofs ------------------------
(***************************************************************************)
(* What UploadLifecycle guarantees for any number of uploads, jobs, slots, *)
(* clients and crashes.  Type correctness holds for any number of worker   *)
(* processes; the safety theorems, and that UploadLifecycle implements     *)
(* Ingestion, assume the one process of deploy/systemd (with two, one      *)
(* releases at its start the jobs the other is running).                   *)
(***************************************************************************)
EXTENDS UploadLifecycle, TLAPS

OneWorkerProcess == \A v, w \in Workers : v = w

-----------------------------------------------------------------------------
(* The inductive invariant *)

\* Every id a slot or a request names is that of a row, with any number of workers.
References ==
  /\ \A j \in Jobs : jobStatus[j] # "free" => jobUpload[j] \in Uploads
  /\ \A s \in Slots : /\ Idle(s) => held[s] = None
                      /\ ~Idle(s) => held[s] \in Jobs /\ jobStatus[held[s]] # "free"
  /\ \A c \in Clients : /\ request[c].kind # "none" => request[c].upload \in Uploads
                        /\ request[c].kind # "cancel" => request[c].swept = {}
                        /\ \A j \in request[c].swept : /\ jobStatus[j] # "free"
                                                       /\ jobUpload[j] = request[c].upload

\* A slot is busy only while its worker runs.
BusySlotsRun == \A s \in Slots : ~Idle(s) => phase[Owner[s]] = "running"

\* A cancellation in progress holds its upload alone, and what it marked is still pending.
Cancellations ==
  /\ \A c \in Clients : \A j \in request[c].swept : jobStatus[j] = "pending"
  /\ \A c, d \in Clients :
       request[c].kind = "cancel" /\ request[d].kind = "cancel"
         /\ request[c].upload = request[d].upload => c = d

\* A live job whose run, if it has one, has not already decided how it ends.  NoStranding
\* is not inductive: a job about to be settled would count as somebody to finish it.
Useful(j) ==
  LiveJob(j) /\ \A s \in Slots : held[s] = j => pc[s] \notin {"finished", "cancelled"}

Finisher(u) ==
  \/ \E j \in Jobs : jobUpload[j] = u /\ Useful(j)
  \/ intake[u] \in {"received", "queued"}
  \/ \E s \in Slots : pc[s] = "failed" /\ UploadOf(s) = u

FinishersOK ==
  \A u \in Uploads :
    Unfinished(u) /\ ~cancelRequested[u] => Finisher(u) \/ u \in abandoned

KeepsSettled == \A j \in Jobs : jobStatus[j] \in Settled => jobStatus'[j] = jobStatus[j]

Typed == TypeOK /\ References
Alone == BusySlotsRun /\ Cancellations /\ OneRunPerJob /\ ActiveJobsAreHeld
Exclusive == Typed /\ Alone

-----------------------------------------------------------------------------
(* The shapes of a run's steps *)

\* Only the position changes: the run goes on or starts to cancel; it skips to "filed" only if
\* an earlier attempt has filed.
Move(s) ==
  /\ pc[s] \in Stages /\ OnlySlots
  /\ \E next \in Stages \cup {"cancelling"} :
       Goto(s, next) /\ next # "scanning" /\ (next = "filed" => filed[UploadOf(s)])

\* A status in mid-flight is written, and the run goes on.
Advance(s) ==
  /\ pc[s] \in Stages /\ OnlyStatus
  /\ \E st \in MidFlight, next \in Stages :
       SetStatus(UploadOf(s), st) /\ Goto(s, next)
         /\ next # "filed" /\ (next = "scanning" => pc[s] = "filed")

\* A terminal status is written, COMPLETED behind a scan only, and the job is settled next.
Conclude(s) ==
  /\ pc[s] \in Stages \cup {"cancelling"} /\ OnlyStatus
  /\ \E st \in Terminal, next \in {"finished", "cancelled"} :
       SetStatus(UploadOf(s), st) /\ Goto(s, next) /\ (st = "COMPLETED" => pc[s] = "scanning")

\* Every step of a run has one of these shapes or ends it.
LEMMA RunShapes ==
  ASSUME NEW s \in Slots, Run(s)
  PROVE  \/ Move(s) \/ Advance(s) \/ Conclude(s) \/ File(s) \/ SettleJob(s)
         \/ FailForNow(s) \/ FailForGood(s) \/ MarkFailed(s)
<1>1. CASE Start(s) \/ ResumeFiled(s) \/ Download(s) \/ Identify(s) \/ NotDuplicate(s)
    BY <1>1 DEF Start, ResumeFiled, Download, Identify, NotDuplicate, Checkpoint, Move, Stages
<1>2. CASE BeginDownload(s) \/ BeginProcessing(s) \/ BeginOrganizing(s) \/ BeginScan(s)
    BY <1>2 DEF BeginDownload, BeginProcessing, BeginOrganizing, BeginScan, Advance, Stages,
       MidFlight
<1>3. CASE Park(s) \/ Duplicate(s) \/ Complete(s) \/ MarkCancelled(s)
    BY <1>3 DEF Park, Duplicate, Complete, MarkCancelled, Conclude, Stages, Terminal
<1> QED
    BY <1>1, <1>2, <1>3 DEF Run

-----------------------------------------------------------------------------
(* Type correctness *)

LEMMA InitTyped == Init => Typed
BY AttemptsType, CrashesType
   DEF Init, Typed, TypeOK, References, Idle, Status, Terminal, MidFlight, Waiting, JobStatus,
       Stages, Endings, NoRequest

\* Every action keeps every variable in its type, and slots and requests naming rows.
LEMMA NextTyped == Typed /\ [Next]_vars => Typed'
<1> SUFFICES ASSUME Typed, [Next]_vars PROVE Typed'
    OBVIOUS
<1> USE AttemptsType, CrashesType, NoneIsNoId
    DEF Typed, TypeOK, References, Status, Terminal, MidFlight, Waiting, JobStatus, Stages,
       Endings,
        tables, slotVars, Idle, UploadOf, NoRequest, SetStatus, Enqueue, Goto, Release,
        Checkpoint, OnlySlots, OnlyStatus, OnlyJob
<1>1. ASSUME NEW u \in Uploads, Accept(u) PROVE Typed'
    BY <1>1 DEF Accept
<1>2. ASSUME NEW u \in Uploads, MarkQueued(u) PROVE Typed'
    BY <1>2 DEF MarkQueued
<1>3. ASSUME NEW u \in Uploads, EnqueueFirst(u) PROVE Typed'
    BY <1>3 DEF EnqueueFirst
<1>4. ASSUME NEW u \in Uploads, HandOff(u) PROVE Typed'
    BY <1>4 DEF HandOff
<1>5. ASSUME NEW u \in Uploads, IntakeCrash(u) PROVE Typed'
    BY <1>5 DEF IntakeCrash
<1>6. ASSUME NEW w \in Workers, ReleaseOrphans(w) PROVE Typed'
    BY <1>6 DEF ReleaseOrphans
<1>7. ASSUME NEW w \in Workers, ResetStale(w) PROVE Typed'
    BY <1>7 DEF ResetStale
<1>8. ASSUME NEW w \in Workers, WorkerCrash(w) PROVE Typed'
    BY <1>8 DEF WorkerCrash
<1>9. ASSUME NEW s \in Slots, Claim(s) PROVE Typed'
    BY <1>9 DEF Claim
<1>10. ASSUME NEW s \in Slots, Run(s) PROVE Typed'
  <2>1. CASE Move(s)
      BY <1>10, <2>1 DEF Move
  <2>2. CASE Advance(s)
      BY <1>10, <2>2 DEF Advance
  <2>3. CASE Conclude(s)
      BY <1>10, <2>3 DEF Conclude
  <2>4. CASE File(s)
      BY <1>10, <2>4 DEF File
  <2>5. CASE SettleJob(s)
      BY <1>10, <2>5 DEF SettleJob
  <2>6. CASE FailForNow(s)
      BY <2>6, SMTT(60) DEF FailForNow
  <2>7. CASE FailForGood(s)
      BY <1>10, <2>7 DEF FailForGood
  <2>8. CASE MarkFailed(s)
      BY <1>10, <2>8 DEF MarkFailed
  <2> QED
      BY <1>10, RunShapes, <2>1, <2>2, <2>3, <2>4, <2>5, <2>6, <2>7, <2>8
<1>11. ASSUME NEW c \in Clients, CancelBegin(c) PROVE Typed'
    BY <1>11 DEF CancelBegin
<1>12. ASSUME NEW c \in Clients, CancelCommit(c) PROVE Typed'
    BY <1>12 DEF CancelCommit
<1>13. ASSUME NEW c \in Clients, RetryCheck(c) PROVE Typed'
    BY <1>13 DEF RetryCheck
<1>14. ASSUME NEW c \in Clients, RetryCommit(c) PROVE Typed'
    BY <1>14 DEF RetryCommit
<1>15. ASSUME NEW s \in Slots, Drop(s) PROVE Typed'
    BY <1>15 DEF Drop
<1>16. CASE UNCHANGED vars
    BY <1>16 DEF vars
<1> QED
    BY <1>1, <1>2, <1>3, <1>4, <1>5, <1>6, <1>7, <1>8, <1>9, <1>10, <1>11, <1>12, <1>13, <1>14,
       <1>15, <1>16 DEF Next

\* Every variable keeps its type, with any number of worker processes.
THEOREM TypeCorrect == Spec => []TypeOK
<1>1. Typed => TypeOK
    BY DEF Typed
<1> QED
    BY InitTyped, NextTyped, <1>1, PTL DEF Spec

-----------------------------------------------------------------------------
(* Mutual exclusion *)

LEMMA InitExclusive == Init => Exclusive
BY InitTyped
   DEF Init, Exclusive, Alone, BusySlotsRun, Cancellations, OneRunPerJob, ActiveJobsAreHeld, Idle,
       NoRequest

\* Claims take pending jobs nobody marks, orphans are released while no slot is busy, a run
\* settles the job it releases, and a crash empties the slots it leaves.
LEMMA NextAlone == OneWorkerProcess /\ Exclusive /\ [Next]_vars => Alone'
<1> SUFFICES ASSUME OneWorkerProcess /\ Exclusive, [Next]_vars PROVE Alone'
    OBVIOUS
<1> USE OwnerType, NoneIsNoId
    DEF OneWorkerProcess, Exclusive, Alone, Typed, TypeOK, References, BusySlotsRun,
       Cancellations,
        OneRunPerJob, ActiveJobsAreHeld, Locked, Swept, Stages, Endings,
        tables, slotVars, Idle, UploadOf, NoRequest, SetStatus, Enqueue, Goto, Release,
        Checkpoint, OnlySlots, OnlyStatus, OnlyJob
<1>1. ASSUME NEW u \in Uploads, Accept(u) PROVE Alone'
    BY <1>1 DEF Accept
<1>2. ASSUME NEW u \in Uploads, MarkQueued(u) PROVE Alone'
    BY <1>2 DEF MarkQueued
<1>3. ASSUME NEW u \in Uploads, EnqueueFirst(u) PROVE Alone'
    BY <1>3 DEF EnqueueFirst
<1>4. ASSUME NEW u \in Uploads, HandOff(u) PROVE Alone'
    BY <1>4 DEF HandOff
<1>5. ASSUME NEW u \in Uploads, IntakeCrash(u) PROVE Alone'
    BY <1>5 DEF IntakeCrash
<1>6. ASSUME NEW w \in Workers, ReleaseOrphans(w) PROVE Alone'
    BY <1>6 DEF ReleaseOrphans
<1>7. ASSUME NEW w \in Workers, ResetStale(w) PROVE Alone'
    BY <1>7 DEF ResetStale
<1>8. ASSUME NEW w \in Workers, WorkerCrash(w) PROVE Alone'
    BY <1>8 DEF WorkerCrash
<1>9. ASSUME NEW s \in Slots, Claim(s) PROVE Alone'
    BY <1>9 DEF Claim
<1>10. ASSUME NEW s \in Slots, Run(s) PROVE Alone'
  <2>1. CASE Move(s)
      BY <1>10, <2>1 DEF Move
  <2>2. CASE Advance(s)
      BY <1>10, <2>2 DEF Advance
  <2>3. CASE Conclude(s)
      BY <1>10, <2>3 DEF Conclude
  <2>4. CASE File(s)
      BY <1>10, <2>4 DEF File
  <2>5. CASE SettleJob(s)
      BY <1>10, <2>5 DEF SettleJob
  <2>6. CASE FailForNow(s)
      BY <2>6, SMTT(60) DEF FailForNow
  <2>7. CASE FailForGood(s)
      BY <1>10, <2>7 DEF FailForGood
  <2>8. CASE MarkFailed(s)
      BY <1>10, <2>8 DEF MarkFailed
  <2> QED
      BY <1>10, RunShapes, <2>1, <2>2, <2>3, <2>4, <2>5, <2>6, <2>7, <2>8
<1>11. ASSUME NEW c \in Clients, CancelBegin(c) PROVE Alone'
    BY <1>11 DEF CancelBegin
<1>12. ASSUME NEW c \in Clients, CancelCommit(c) PROVE Alone'
    BY <1>12 DEF CancelCommit
<1>13. ASSUME NEW c \in Clients, RetryCheck(c) PROVE Alone'
    BY <1>13 DEF RetryCheck
<1>14. ASSUME NEW c \in Clients, RetryCommit(c) PROVE Alone'
    BY <1>14 DEF RetryCommit
<1>15. ASSUME NEW s \in Slots, Drop(s) PROVE Alone'
    BY <1>15 DEF Drop
<1>16. CASE UNCHANGED vars
    BY <1>16 DEF vars
<1> QED
    BY <1>1, <1>2, <1>3, <1>4, <1>5, <1>6, <1>7, <1>8, <1>9, <1>10, <1>11, <1>12, <1>13, <1>14,
       <1>15, <1>16 DEF Next

LEMMA NextExclusive == OneWorkerProcess /\ Exclusive /\ [Next]_vars => Exclusive'
BY NextTyped, NextAlone DEF Exclusive

\* One worker process never runs a job twice at the same time.
THEOREM RunsAreExclusive == OneWorkerProcess /\ Spec => []OneRunPerJob
<1> SUFFICES ASSUME OneWorkerProcess PROVE Spec => []OneRunPerJob
    OBVIOUS
<1>1. Exclusive /\ [Next]_vars => Exclusive'
    BY NextExclusive
<1>2. Exclusive => OneRunPerJob
    BY DEF Exclusive, Alone
<1> QED
    BY InitExclusive, <1>1, <1>2, PTL DEF Spec

\* With one worker process no job is left active without a slot while the worker is up, but
\* those whose settlement failed.
THEOREM NoJobIsLost == OneWorkerProcess /\ Spec => []ActiveJobsAreHeld
<1> SUFFICES ASSUME OneWorkerProcess PROVE Spec => []ActiveJobsAreHeld
    OBVIOUS
<1>1. Exclusive /\ [Next]_vars => Exclusive'
    BY NextExclusive
<1>2. Exclusive => ActiveJobsAreHeld
    BY DEF Exclusive, Alone
<1> QED
    BY InitExclusive, <1>1, <1>2, PTL DEF Spec

-----------------------------------------------------------------------------
(* Settled jobs and attempts *)

\* A job is settled by the slot that holds it or by the cancellation that marked it, so
\* nothing touches it afterwards.
LEMMA NextKeepsSettled == OneWorkerProcess /\ Exclusive /\ [Next]_vars => KeepsSettled
<1> SUFFICES ASSUME OneWorkerProcess /\ Exclusive, [Next]_vars PROVE KeepsSettled
    OBVIOUS
<1> USE OwnerType
    DEF OneWorkerProcess, Exclusive, Alone, Typed, TypeOK, References, BusySlotsRun,
       Cancellations,
        OneRunPerJob, KeepsSettled, Settled, Endings, Stages,
        tables, slotVars, Idle, UploadOf, NoRequest, SetStatus, Enqueue, Goto, Release,
        Checkpoint, OnlySlots, OnlyStatus, OnlyJob
<1>1. ASSUME NEW u \in Uploads, Accept(u) PROVE KeepsSettled
    BY <1>1 DEF Accept
<1>2. ASSUME NEW u \in Uploads, MarkQueued(u) PROVE KeepsSettled
    BY <1>2 DEF MarkQueued
<1>3. ASSUME NEW u \in Uploads, EnqueueFirst(u) PROVE KeepsSettled
    BY <1>3 DEF EnqueueFirst
<1>4. ASSUME NEW u \in Uploads, HandOff(u) PROVE KeepsSettled
    BY <1>4 DEF HandOff
<1>5. ASSUME NEW u \in Uploads, IntakeCrash(u) PROVE KeepsSettled
    BY <1>5 DEF IntakeCrash
<1>6. ASSUME NEW w \in Workers, ReleaseOrphans(w) PROVE KeepsSettled
    BY <1>6 DEF ReleaseOrphans
<1>7. ASSUME NEW w \in Workers, ResetStale(w) PROVE KeepsSettled
    BY <1>7 DEF ResetStale
<1>8. ASSUME NEW w \in Workers, WorkerCrash(w) PROVE KeepsSettled
    BY <1>8 DEF WorkerCrash
<1>9. ASSUME NEW s \in Slots, Claim(s) PROVE KeepsSettled
    BY <1>9 DEF Claim
<1>10. ASSUME NEW s \in Slots, Run(s) PROVE KeepsSettled
  <2>1. CASE Move(s)
      BY <1>10, <2>1 DEF Move
  <2>2. CASE Advance(s)
      BY <1>10, <2>2 DEF Advance
  <2>3. CASE Conclude(s)
      BY <1>10, <2>3 DEF Conclude
  <2>4. CASE File(s)
      BY <1>10, <2>4 DEF File
  <2>5. CASE SettleJob(s)
      BY <1>10, <2>5 DEF SettleJob
  <2>6. CASE FailForNow(s)
      BY <1>10, <2>6 DEF FailForNow
  <2>7. CASE FailForGood(s)
      BY <1>10, <2>7 DEF FailForGood
  <2>8. CASE MarkFailed(s)
      BY <1>10, <2>8 DEF MarkFailed
  <2> QED
      BY <1>10, RunShapes, <2>1, <2>2, <2>3, <2>4, <2>5, <2>6, <2>7, <2>8
<1>11. ASSUME NEW c \in Clients, CancelBegin(c) PROVE KeepsSettled
    BY <1>11 DEF CancelBegin
<1>12. ASSUME NEW c \in Clients, CancelCommit(c) PROVE KeepsSettled
    BY <1>12 DEF CancelCommit
<1>13. ASSUME NEW c \in Clients, RetryCheck(c) PROVE KeepsSettled
    BY <1>13 DEF RetryCheck
<1>14. ASSUME NEW c \in Clients, RetryCommit(c) PROVE KeepsSettled
    BY <1>14 DEF RetryCommit
<1>15. ASSUME NEW s \in Slots, Drop(s) PROVE KeepsSettled
    BY <1>15 DEF Drop
<1>16. CASE UNCHANGED vars
    BY <1>16 DEF vars
<1> QED
    BY <1>1, <1>2, <1>3, <1>4, <1>5, <1>6, <1>7, <1>8, <1>9, <1>10, <1>11, <1>12, <1>13, <1>14,
       <1>15, <1>16 DEF Next

\* With one worker process no statement brings a settled job back.
THEOREM SettledForGood == OneWorkerProcess /\ Spec => SettledJobsStaySettled
<1> SUFFICES ASSUME OneWorkerProcess PROVE Spec => SettledJobsStaySettled
    OBVIOUS
<1>1. Exclusive /\ [Next]_vars => Exclusive'
    BY NextExclusive
<1>2. Exclusive /\ [Next]_vars => [KeepsSettled]_vars
    BY NextKeepsSettled
<1> QED
    BY InitExclusive, <1>1, <1>2, PTL DEF Spec, SettledJobsStaySettled, KeepsSettled

\* An attempt is counted when a job is claimed and refunded when a crash orphaned it.
LEMMA NextAttemptBudget ==
  OneWorkerProcess /\ Exclusive /\ AttemptBudget /\ [Next]_vars => AttemptBudget'
<1> SUFFICES ASSUME OneWorkerProcess /\ Exclusive /\ AttemptBudget, [Next]_vars PROVE AttemptBudget'
    OBVIOUS
<1> USE OwnerType, AttemptsType
    DEF OneWorkerProcess, Exclusive, Alone, Typed, TypeOK, References, BusySlotsRun,
       Cancellations,
        OneRunPerJob, AttemptBudget, Endings, Stages,
        tables, slotVars, Idle, UploadOf, NoRequest, SetStatus, Enqueue, Goto, Release,
        Checkpoint, OnlySlots, OnlyStatus, OnlyJob
<1>1. ASSUME NEW u \in Uploads, Accept(u) PROVE AttemptBudget'
    BY <1>1 DEF Accept
<1>2. ASSUME NEW u \in Uploads, MarkQueued(u) PROVE AttemptBudget'
    BY <1>2 DEF MarkQueued
<1>3. ASSUME NEW u \in Uploads, EnqueueFirst(u) PROVE AttemptBudget'
    BY <1>3 DEF EnqueueFirst
<1>4. ASSUME NEW u \in Uploads, HandOff(u) PROVE AttemptBudget'
    BY <1>4 DEF HandOff
<1>5. ASSUME NEW u \in Uploads, IntakeCrash(u) PROVE AttemptBudget'
    BY <1>5 DEF IntakeCrash
<1>6. ASSUME NEW w \in Workers, ReleaseOrphans(w) PROVE AttemptBudget'
    BY <1>6 DEF ReleaseOrphans
<1>7. ASSUME NEW w \in Workers, ResetStale(w) PROVE AttemptBudget'
    BY <1>7 DEF ResetStale
<1>8. ASSUME NEW w \in Workers, WorkerCrash(w) PROVE AttemptBudget'
    BY <1>8 DEF WorkerCrash
<1>9. ASSUME NEW s \in Slots, Claim(s) PROVE AttemptBudget'
    BY <1>9 DEF Claim
<1>10. ASSUME NEW s \in Slots, Run(s) PROVE AttemptBudget'
  <2>1. CASE Move(s)
      BY <1>10, <2>1 DEF Move
  <2>2. CASE Advance(s)
      BY <1>10, <2>2 DEF Advance
  <2>3. CASE Conclude(s)
      BY <1>10, <2>3 DEF Conclude
  <2>4. CASE File(s)
      BY <1>10, <2>4 DEF File
  <2>5. CASE SettleJob(s)
      BY <1>10, <2>5 DEF SettleJob
  <2>6. CASE FailForNow(s)
      BY <1>10, <2>6 DEF FailForNow
  <2>7. CASE FailForGood(s)
      BY <1>10, <2>7 DEF FailForGood
  <2>8. CASE MarkFailed(s)
      BY <1>10, <2>8 DEF MarkFailed
  <2> QED
      BY <1>10, RunShapes, <2>1, <2>2, <2>3, <2>4, <2>5, <2>6, <2>7, <2>8
<1>11. ASSUME NEW c \in Clients, CancelBegin(c) PROVE AttemptBudget'
    BY <1>11 DEF CancelBegin
<1>12. ASSUME NEW c \in Clients, CancelCommit(c) PROVE AttemptBudget'
    BY <1>12 DEF CancelCommit
<1>13. ASSUME NEW c \in Clients, RetryCheck(c) PROVE AttemptBudget'
    BY <1>13 DEF RetryCheck
<1>14. ASSUME NEW c \in Clients, RetryCommit(c) PROVE AttemptBudget'
    BY <1>14 DEF RetryCommit
<1>15. ASSUME NEW s \in Slots, Drop(s) PROVE AttemptBudget'
    BY <1>15 DEF Drop
<1>16. CASE UNCHANGED vars
    BY <1>16 DEF vars
<1> QED
    BY <1>1, <1>2, <1>3, <1>4, <1>5, <1>6, <1>7, <1>8, <1>9, <1>10, <1>11, <1>12, <1>13, <1>14,
       <1>15, <1>16 DEF Next

\* A pending job has an attempt left, a running one at least one counted.
THEOREM AttemptsAreBounded == OneWorkerProcess /\ Spec => []AttemptBudget
<1> SUFFICES ASSUME OneWorkerProcess PROVE Spec => []AttemptBudget
    OBVIOUS
<1> DEFINE I == Exclusive /\ AttemptBudget
<1>1. Init => I
    BY InitExclusive DEF Init, AttemptBudget
<1>2. I /\ [Next]_vars => I'
    BY NextExclusive, NextAttemptBudget
<1> QED
    BY <1>1, <1>2, PTL DEF Spec

-----------------------------------------------------------------------------
(* No stranding *)

\* An upload gets a finisher with the statement that makes it unfinished, and keeps one until
\* it reads a terminal status or is abandoned.
LEMMA NextFinishersOK == OneWorkerProcess /\ Exclusive /\ FinishersOK /\ [Next]_vars => FinishersOK'
<1> SUFFICES ASSUME OneWorkerProcess /\ Exclusive /\ FinishersOK, [Next]_vars PROVE FinishersOK'
    OBVIOUS
<1> USE OwnerType, NoneIsNoId
    DEF OneWorkerProcess, Exclusive, Alone, Typed, TypeOK, References, BusySlotsRun,
       Cancellations,
        OneRunPerJob, FinishersOK, Finisher, Useful, LiveJob, Unfinished, Status, Terminal,
        MidFlight, Waiting, JobStatus, Stages, Endings,
        tables, slotVars, Idle, UploadOf, NoRequest, SetStatus, Enqueue, Goto, Release,
        Checkpoint, OnlySlots, OnlyStatus, OnlyJob
<1>1. ASSUME NEW u \in Uploads, Accept(u) PROVE FinishersOK'
    BY <1>1 DEF Accept
<1>2. ASSUME NEW u \in Uploads, MarkQueued(u) PROVE FinishersOK'
    BY <1>2 DEF MarkQueued
<1>3. ASSUME NEW u \in Uploads, EnqueueFirst(u) PROVE FinishersOK'
    BY <1>3 DEF EnqueueFirst
<1>4. ASSUME NEW u \in Uploads, HandOff(u) PROVE FinishersOK'
    BY <1>4 DEF HandOff
<1>5. ASSUME NEW u \in Uploads, IntakeCrash(u) PROVE FinishersOK'
    BY <1>5 DEF IntakeCrash
<1>6. ASSUME NEW w \in Workers, ReleaseOrphans(w) PROVE FinishersOK'
    BY <1>6 DEF ReleaseOrphans
<1>7. ASSUME NEW w \in Workers, ResetStale(w) PROVE FinishersOK'
    BY <1>7 DEF ResetStale
<1>8. ASSUME NEW w \in Workers, WorkerCrash(w) PROVE FinishersOK'
    BY <1>8 DEF WorkerCrash
<1>9. ASSUME NEW s \in Slots, Claim(s) PROVE FinishersOK'
    BY <1>9 DEF Claim
<1>10. ASSUME NEW s \in Slots, Run(s) PROVE FinishersOK'
  <2>1. CASE Move(s)
      BY <1>10, <2>1 DEF Move
  <2>2. CASE Advance(s)
      BY <1>10, <2>2 DEF Advance
  <2>3. CASE Conclude(s)
      BY <1>10, <2>3 DEF Conclude
  <2>4. CASE File(s)
      BY <1>10, <2>4 DEF File
  <2>5. CASE SettleJob(s)
      BY <1>10, <2>5 DEF SettleJob
  <2>6. CASE FailForNow(s)
    <3> SUFFICES ASSUME NEW u \in Uploads, (Unfinished(u) /\ ~cancelRequested[u])'
                 PROVE  (Finisher(u) \/ u \in abandoned)'
        OBVIOUS
    <3>1. Finisher(u) \/ u \in abandoned
        BY <2>6 DEF FailForNow
    <3>2. /\ held[s] \in Jobs /\ jobUpload' = jobUpload
          /\ intake' = intake /\ abandoned' = abandoned
          /\ \A i \in Jobs : i # held[s] => jobStatus'[i] = jobStatus[i]
          /\ \A t \in Slots : t # s => held'[t] = held[t] /\ pc'[t] = pc[t] /\ held[t] # held[s]
      <4>1. /\ pc[s] # "failed" /\ ~Idle(s) /\ held[s] \in Jobs
            /\ jobUpload' = jobUpload /\ intake' = intake /\ abandoned' = abandoned
          BY <2>6 DEF FailForNow
      <4>2. \A t \in Slots : t # s => held'[t] = held[t] /\ pc'[t] = pc[t]
          BY <2>6 DEF FailForNow
      <4>3. \A t \in Slots : t # s => held[t] # held[s]
          BY <4>1
      <4>4. \A i \in Jobs : i # held[s] => jobStatus'[i] = jobStatus[i]
          BY <2>6 DEF FailForNow
      <4> QED
          BY <4>1, <4>2, <4>3, <4>4
    <3>3. CASE jobUpload[held[s]] = u
      <4>1. CASE attempts[held[s]] < maxAttempts[held[s]]
        <5>1. /\ jobStatus'[held[s]] = "pending" /\ jobUpload'[held[s]] = u
              /\ held'[s] = None /\ \A t \in Slots : held'[t] # held[s]
            BY <2>6, <3>2, <3>3, <4>1 DEF FailForNow
        <5>2. \E j \in Jobs : jobUpload'[j] = u /\ Useful(j)'
            BY <3>2, <5>1
        <5> QED
            BY <5>2
      <4>2. CASE ~(attempts[held[s]] < maxAttempts[held[s]])
        <5>1. pc'[s] = "failed" /\ held'[s] = held[s]
            BY <2>6, <3>2, <4>2 DEF FailForNow
        <5> QED
            BY <3>2, <3>3, <5>1
      <4> QED
          BY <4>1, <4>2
    <3>4. CASE jobUpload[held[s]] # u
        BY <2>6, <3>1, <3>2, <3>4 DEF FailForNow
    <3> QED
        BY <3>3, <3>4
  <2>7. CASE FailForGood(s)
      BY <1>10, <2>7 DEF FailForGood
  <2>8. CASE MarkFailed(s)
    <3> SUFFICES ASSUME NEW u \in Uploads, (Unfinished(u) /\ ~cancelRequested[u])'
                 PROVE  (Finisher(u) \/ u \in abandoned)'
        OBVIOUS
    <3>1. /\ u # UploadOf(s) /\ status'[u] = status[u]
          /\ cancelRequested' = cancelRequested /\ jobUpload' = jobUpload /\ jobStatus' = jobStatus
          /\ intake' = intake /\ abandoned' = abandoned
          /\ held'[s] = None /\ pc'[s] = "idle"
          /\ \A t \in Slots : t # s => held'[t] = held[t] /\ pc'[t] = pc[t]
        BY <2>8 DEF MarkFailed
    <3>2. Finisher(u) \/ u \in abandoned
        BY <3>1
    <3>3. ASSUME NEW j \in Jobs, jobUpload[j] = u, Useful(j)
          PROVE  Finisher(u)'
        BY <3>1, <3>3
    <3>4. ASSUME NEW t \in Slots, pc[t] = "failed", UploadOf(t) = u
          PROVE  Finisher(u)'
        BY <3>1, <3>4
    <3> QED
        BY <3>1, <3>2, <3>3, <3>4
  <2> QED
      BY <1>10, RunShapes, <2>1, <2>2, <2>3, <2>4, <2>5, <2>6, <2>7, <2>8
<1>11. ASSUME NEW c \in Clients, CancelBegin(c) PROVE FinishersOK'
    BY <1>11, SMTT(30) DEF CancelBegin
<1>12. ASSUME NEW c \in Clients, CancelCommit(c) PROVE FinishersOK'
    BY <1>12 DEF CancelCommit
<1>13. ASSUME NEW c \in Clients, RetryCheck(c) PROVE FinishersOK'
    BY <1>13 DEF RetryCheck
<1>14. ASSUME NEW c \in Clients, RetryCommit(c) PROVE FinishersOK'
  <2>1. PICK j \in Jobs :
           /\ jobStatus[j] = "free" /\ jobStatus' = [jobStatus EXCEPT ![j] = "pending"]
           /\ jobUpload' = [jobUpload EXCEPT ![j] = request[c].upload]
      BY <1>14 DEF RetryCommit
  <2>2. /\ slotVars' = slotVars /\ intake' = intake
        /\ \A s \in Slots : held[s] # j
        /\ \A u \in Uploads : u # request[c].upload =>
             /\ status'[u] = status[u] /\ cancelRequested'[u] = cancelRequested[u]
             /\ u \in abandoned <=> u \in abandoned'
      BY <1>14, <2>1 DEF RetryCommit
  <2>3. \A i \in Jobs : i # j => jobStatus'[i] = jobStatus[i] /\ jobUpload'[i] = jobUpload[i]
      BY <2>1
  <2> SUFFICES ASSUME NEW u \in Uploads, (Unfinished(u) /\ ~cancelRequested[u])'
               PROVE  (Finisher(u) \/ u \in abandoned)'
      OBVIOUS
  <2>4. CASE u = request[c].upload
    <3>1. Useful(j)' /\ jobUpload'[j] = u
        BY <2>1, <2>2, <2>4
    <3> QED
        BY <3>1
  <2>5. CASE u # request[c].upload
    <3>1. Finisher(u) \/ u \in abandoned
        BY <2>2, <2>5
    <3>2. ASSUME NEW i \in Jobs, jobUpload[i] = u, Useful(i)
          PROVE  Finisher(u)'
      <4>1. i # j
          BY <2>1, <3>2
      <4> QED
          BY <2>2, <2>3, <3>2, <4>1
    <3>3. ASSUME NEW t \in Slots, pc[t] = "failed", UploadOf(t) = u
          PROVE  Finisher(u)'
        BY <2>1, <2>2, <2>3, <3>3
    <3> QED
        BY <2>2, <2>5, <3>1, <3>2, <3>3
  <2> QED
      BY <2>4, <2>5
<1>15. ASSUME NEW s \in Slots, Drop(s) PROVE FinishersOK'
    BY <1>15, SMTT(30) DEF Drop
<1>16. CASE UNCHANGED vars
    BY <1>16 DEF vars
<1> QED
    BY <1>1, <1>2, <1>3, <1>4, <1>5, <1>6, <1>7, <1>8, <1>9, <1>10, <1>11, <1>12, <1>13, <1>14,
       <1>15, <1>16 DEF Next

\* With one worker process no accepted upload is ever without somebody to finish it, unless
\* it was cut off from the statement that settles it or its sender asked to cancel it.
THEOREM NothingIsStranded == OneWorkerProcess /\ Spec => []NoStranding
<1> SUFFICES ASSUME OneWorkerProcess PROVE Spec => []NoStranding
    OBVIOUS
<1> DEFINE I == Exclusive /\ FinishersOK
<1>1. Init => I
    BY InitExclusive
       DEF Init, FinishersOK, Unfinished, MidFlight, Waiting
<1>2. I /\ [Next]_vars => I'
    BY NextExclusive, NextFinishersOK
<1>3. I => NoStranding
    BY DEF FinishersOK, Finisher, Useful, NoStranding, HasSomeoneToFinish, HasLiveJob
<1> QED
    BY <1>1, <1>2, <1>3, PTL DEF Spec

-----------------------------------------------------------------------------
(* Uploads that have one job *)

\* A free row of jobs names no upload, so that an id enqueued adds a job and takes none away.
FreeRowsAreBlank == \A j \in Jobs : jobStatus[j] = "free" => jobUpload[j] = None

RunOf(s, u) == ~Idle(s) /\ UploadOf(s) = u
BeforeFiling == {"downloading", "fetched", "processing", "identified", "deduped", "organizing"}
Revisited == {"DUPLICATE", "NEEDS_REVIEW"}

\* What holds of an upload with one job, whose runs follow one another: what FiledIsNotRedone
\* says; a run that has begun to fetch has written over what an earlier one found out; and a
\* cancelled upload is flagged, so that a later run goes no further than its first checkpoint.
OneJobOK(u) ==
  /\ filed[u] => /\ status[u] \notin Revisited
                 /\ \A s \in Slots : RunOf(s, u) => pc[s] \notin BeforeFiling
  /\ \A s \in Slots : RunOf(s, u) /\ pc[s] \in BeforeFiling => status[u] \notin Revisited
  /\ \A s \in Slots : RunOf(s, u) /\ pc[s] \in {"cancelling", "cancelled"} => cancelRequested[u]
  /\ status[u] = "CANCELLED" =>
       /\ cancelRequested[u]
       /\ \A s \in Slots : RunOf(s, u) => pc[s] \in {"start", "cancelling", "cancelled", "failed"}

OneJobsOK == FreeRowsAreBlank /\ \A u \in Uploads : ~RetriedOnce(u) => OneJobOK(u)

\* Ids are handed out once: a second job of an upload stays its second job.
LEMMA NextJobsStay ==
  Typed /\ FreeRowsAreBlank /\ [Next]_vars =>
    FreeRowsAreBlank' /\ \A u \in Uploads : RetriedOnce(u) => RetriedOnce(u)'
<1> SUFFICES ASSUME Typed, FreeRowsAreBlank, [Next]_vars
             PROVE  FreeRowsAreBlank' /\ \A u \in Uploads : RetriedOnce(u) => RetriedOnce(u)'
    OBVIOUS
<1> DEFINE Stays == FreeRowsAreBlank' /\ \A u \in Uploads : RetriedOnce(u) => RetriedOnce(u)'
<1>1. ASSUME jobUpload' = jobUpload, \A j \in Jobs : jobStatus'[j] = "free" => jobStatus[j] = "free"
      PROVE  Stays
    BY <1>1 DEF FreeRowsAreBlank, RetriedOnce
<1>2. ASSUME NEW v \in Uploads, NEW max, Enqueue(v, max) PROVE Stays
  <2>1. PICK j \in Jobs : /\ jobStatus[j] = "free"
                          /\ jobStatus' = [jobStatus EXCEPT ![j] = "pending"]
                          /\ jobUpload' = [jobUpload EXCEPT ![j] = v]
      BY <1>2 DEF Enqueue
  <2>2. /\ jobUpload[j] = None /\ \A i \in Jobs : i # j => jobUpload'[i] = jobUpload[i]
        /\ \A i \in Jobs : jobStatus'[i] = "free" => i # j /\ jobStatus[i] = "free"
      BY <2>1 DEF FreeRowsAreBlank, Typed, TypeOK
  <2> QED
      BY <2>2, NoneIsNoId DEF FreeRowsAreBlank, RetriedOnce
<1>3. CASE \E v \in Uploads : EnqueueFirst(v) \/ HandOff(v)
    BY <1>2, <1>3 DEF EnqueueFirst, HandOff
<1>4. CASE \E c \in Clients : RetryCommit(c)
    BY <1>2, <1>4 DEF RetryCommit, Typed, References
<1>5. CASE \E v \in Uploads : Accept(v) \/ MarkQueued(v) \/ IntakeCrash(v)
    BY <1>1, <1>5 DEF Accept, MarkQueued, IntakeCrash, tables
<1>6. CASE \E w \in Workers : ReleaseOrphans(w) \/ ResetStale(w) \/ WorkerCrash(w)
    BY <1>1, <1>6 DEF ReleaseOrphans, ResetStale, WorkerCrash, tables
<1>7. CASE \E s \in Slots : Claim(s) \/ Run(s) \/ Drop(s)
  <2>1. PICK s \in Slots : Claim(s) \/ Run(s) \/ Drop(s)
      BY <1>7
  <2>2. CASE Claim(s) \/ Drop(s)
      BY <1>1, <2>2 DEF Claim, Drop, tables, Typed, TypeOK
  <2>3. CASE Move(s) \/ Advance(s) \/ Conclude(s) \/ File(s) \/ MarkFailed(s)
      BY <1>1, <2>3 DEF Move, Advance, Conclude, File, MarkFailed, OnlySlots, OnlyStatus, tables
  <2>4. CASE SettleJob(s) \/ FailForNow(s) \/ FailForGood(s)
      BY <1>1, <2>4 DEF SettleJob, FailForNow, FailForGood, OnlyJob, Typed, TypeOK
  <2> QED
      BY <2>1, <2>2, <2>3, <2>4, RunShapes
<1>8. CASE \E c \in Clients : CancelBegin(c) \/ CancelCommit(c) \/ RetryCheck(c)
    BY <1>1, <1>8 DEF CancelBegin, CancelCommit, RetryCheck, tables, Typed, TypeOK
<1>9. CASE UNCHANGED vars
    BY <1>1, <1>9 DEF vars, tables
<1> QED
    BY <1>3, <1>4, <1>5, <1>6, <1>7, <1>8, <1>9 DEF Next

\* An upload with one job has one run at most.
LEMMA OneJobOneRun ==
  ASSUME Exclusive, NEW u \in Uploads, ~RetriedOnce(u), NEW s \in Slots, NEW t \in Slots,
         RunOf(s, u), RunOf(t, u)
  PROVE  s = t
BY DEF Exclusive, Alone, Typed, References, OneRunPerJob, RetriedOnce, RunOf, UploadOf

\* With one job an upload's runs follow one another, and each leaves the row as the next one's
\* checks expect it: BeginDownload asks for the media row, Start for the flag.
LEMMA NextOneJobsOK == OneWorkerProcess /\ Exclusive /\ OneJobsOK /\ [Next]_vars => OneJobsOK'
<1> SUFFICES ASSUME OneWorkerProcess, Exclusive, OneJobsOK, [Next]_vars,
                    NEW u \in Uploads, ~RetriedOnce(u)'
             PROVE  OneJobOK(u)'
    BY NextJobsStay DEF OneJobsOK, Exclusive
<1>a. ~RetriedOnce(u) /\ OneJobOK(u)
    BY NextJobsStay DEF OneJobsOK, Exclusive
<1>b. \A s, t \in Slots : RunOf(s, u) /\ RunOf(t, u) => s = t
    BY <1>a, OneJobOneRun
<1>c. Typed /\ OneRunPerJob /\ FreeRowsAreBlank
    BY DEF Exclusive, Alone, OneJobsOK
<1> USE <1>a, <1>b, <1>c
    DEF Typed, TypeOK, References, OneJobOK, RunOf, BeforeFiling, Revisited, OneRunPerJob,
       MidFlight, Unfinished,
        Waiting, Idle, UploadOf, SetStatus, Enqueue, Goto, Release, Checkpoint, OnlySlots,
           OnlyStatus, OnlyJob,
        tables, slotVars
<1>1. ASSUME NEW v \in Uploads, Accept(v) PROVE OneJobOK(u)'
    BY <1>1 DEF Accept
<1>2. ASSUME NEW v \in Uploads, MarkQueued(v) PROVE OneJobOK(u)'
    BY <1>2 DEF MarkQueued
<1>3. ASSUME NEW v \in Uploads, EnqueueFirst(v) PROVE OneJobOK(u)'
    BY <1>3 DEF EnqueueFirst
<1>4. ASSUME NEW v \in Uploads, HandOff(v) PROVE OneJobOK(u)'
    BY <1>4 DEF HandOff
<1>5. ASSUME NEW v \in Uploads, IntakeCrash(v) PROVE OneJobOK(u)'
    BY <1>5 DEF IntakeCrash
<1>6. ASSUME NEW w \in Workers, ReleaseOrphans(w) PROVE OneJobOK(u)'
    BY <1>6 DEF ReleaseOrphans
<1>7. ASSUME NEW w \in Workers, ResetStale(w) PROVE OneJobOK(u)'
    BY <1>7 DEF ResetStale
<1>8. ASSUME NEW w \in Workers, WorkerCrash(w) PROVE OneJobOK(u)'
    BY <1>8 DEF WorkerCrash
<1>9. ASSUME NEW s \in Slots, Claim(s) PROVE OneJobOK(u)'
    BY <1>9 DEF Claim
<1>10. ASSUME NEW s \in Slots, Drop(s) PROVE OneJobOK(u)'
    BY <1>10 DEF Drop
<1>11. ASSUME NEW s \in Slots, Start(s) PROVE OneJobOK(u)'
    BY <1>11 DEF Start
<1>12. ASSUME NEW s \in Slots, ResumeFiled(s) PROVE OneJobOK(u)'
    BY <1>12 DEF ResumeFiled
<1>13. ASSUME NEW s \in Slots, BeginDownload(s) PROVE OneJobOK(u)'
    BY <1>13 DEF BeginDownload
<1>14. ASSUME NEW s \in Slots, Download(s) PROVE OneJobOK(u)'
    BY <1>14 DEF Download
<1>15. ASSUME NEW s \in Slots, BeginProcessing(s) PROVE OneJobOK(u)'
    BY <1>15 DEF BeginProcessing
<1>16. ASSUME NEW s \in Slots, Identify(s) PROVE OneJobOK(u)'
    BY <1>16 DEF Identify
<1>17. ASSUME NEW s \in Slots, Park(s) PROVE OneJobOK(u)'
    BY <1>17 DEF Park
<1>18. ASSUME NEW s \in Slots, NotDuplicate(s) PROVE OneJobOK(u)'
    BY <1>18 DEF NotDuplicate
<1>19. ASSUME NEW s \in Slots, Duplicate(s) PROVE OneJobOK(u)'
    BY <1>19 DEF Duplicate
<1>20. ASSUME NEW s \in Slots, BeginOrganizing(s) PROVE OneJobOK(u)'
    BY <1>20 DEF BeginOrganizing
<1>21. ASSUME NEW s \in Slots, File(s) PROVE OneJobOK(u)'
    BY <1>21 DEF File
<1>22. ASSUME NEW s \in Slots, BeginScan(s) PROVE OneJobOK(u)'
    BY <1>22 DEF BeginScan
<1>23. ASSUME NEW s \in Slots, Complete(s) PROVE OneJobOK(u)'
    BY <1>23 DEF Complete
<1>24. ASSUME NEW s \in Slots, MarkCancelled(s) PROVE OneJobOK(u)'
    BY <1>24 DEF MarkCancelled
<1>25. ASSUME NEW s \in Slots, SettleJob(s) PROVE OneJobOK(u)'
    BY <1>25 DEF SettleJob
<1>26. ASSUME NEW s \in Slots, FailForNow(s) PROVE OneJobOK(u)'
    BY <1>26 DEF FailForNow
<1>27. ASSUME NEW s \in Slots, FailForGood(s) PROVE OneJobOK(u)'
    BY <1>27 DEF FailForGood
<1>28. ASSUME NEW s \in Slots, MarkFailed(s) PROVE OneJobOK(u)'
    BY <1>28 DEF MarkFailed
<1>29. ASSUME NEW c \in Clients, CancelBegin(c) PROVE OneJobOK(u)'
    BY <1>29 DEF CancelBegin
<1>30. ASSUME NEW c \in Clients, CancelCommit(c) PROVE OneJobOK(u)'
    BY <1>30 DEF CancelCommit
<1>31. ASSUME NEW c \in Clients, RetryCheck(c) PROVE OneJobOK(u)'
    BY <1>31 DEF RetryCheck
<1>32. ASSUME NEW c \in Clients, RetryCommit(c) PROVE OneJobOK(u)'
  <2>1. PICK j \in Jobs : /\ jobStatus[j] = "free"
                          /\ jobUpload' = [jobUpload EXCEPT ![j] = request[c].upload]
      BY <1>32 DEF RetryCommit
  <2>2. jobUpload[j] = None /\ request[c].upload \in Uploads /\ \A s \in Slots : held[s] # j
      BY <1>32, <2>1, NoneIsNoId DEF RetryCommit, FreeRowsAreBlank
  <2>3. \A s \in Slots : RunOf(s, u)' => RunOf(s, u)
      BY <1>32, <2>1, <2>2 DEF RetryCommit
  <2>4. CASE u = request[c].upload
    <3>1. \A s \in Slots : ~RunOf(s, u)
        BY <2>1, <2>2, <2>4 DEF RetriedOnce
    <3>2. status'[u] = "QUEUED"
        BY <1>32, <2>4 DEF RetryCommit
    <3> QED
        BY <2>3, <3>1, <3>2
  <2>5. CASE u # request[c].upload
    <3>1. /\ status'[u] = status[u] /\ cancelRequested'[u] = cancelRequested[u]
          /\ filed' = filed /\ pc' = pc
        BY <1>32, <2>5 DEF RetryCommit
    <3> QED
        BY <2>3, <3>1
  <2> QED
      BY <2>4, <2>5
<1>33. CASE UNCHANGED vars
    BY <1>33 DEF vars
<1> QED
    BY <1>1, <1>2, <1>3, <1>4, <1>5, <1>6, <1>7, <1>8, <1>9, <1>10, <1>11, <1>12, <1>13,
       <1>14, <1>15, <1>16, <1>17, <1>18, <1>19, <1>20, <1>21, <1>22, <1>23, <1>24, <1>25,
       <1>26, <1>27, <1>28, <1>29, <1>30, <1>31, <1>32, <1>33
       DEF Next, Run

LEMMA InitOneJobs == Init => OneJobsOK
BY DEF Init, OneJobsOK, FreeRowsAreBlank, OneJobOK, RunOf, Idle

\* With one worker process a filed upload is not fetched again, nor taken for a duplicate of
\* itself, by any run of its one job, however often that is refunded and claimed again.
THEOREM FilingIsFinal == OneWorkerProcess /\ Spec => []FiledIsNotRedone
<1> SUFFICES ASSUME OneWorkerProcess PROVE Spec => []FiledIsNotRedone
    OBVIOUS
<1> DEFINE I == Exclusive /\ OneJobsOK
<1>1. Init => I
    BY InitExclusive, InitOneJobs
<1>2. I /\ [Next]_vars => I'
    BY NextExclusive, NextOneJobsOK
<1>3. I => FiledIsNotRedone
  <2> SUFFICES ASSUME I, NEW u \in Uploads, filed[u], ~RetriedOnce(u)
               PROVE  /\ status[u] \notin Revisited
                      /\ \A s \in Slots : RunOf(s, u) =>
                           pc[s] \in {"start", "prior", "filed", "scanning"} \cup Endings
      BY DEF FiledIsNotRedone, Revisited, RunOf
  <2>1. OneJobOK(u) /\ \A s \in Slots : ~Idle(s) => pc[s] \in Stages \cup Endings
      BY DEF OneJobsOK, Exclusive, Typed, TypeOK, Idle
  <2> QED
      BY <2>1 DEF OneJobOK, RunOf, BeforeFiling, Stages
<1> QED
    BY <1>1, <1>2, <1>3, PTL DEF Spec

\* With one worker process an upload that reads CANCELLED has no run past its last checkpoint:
\* the flag goes with the status, and a cancellation that meets no run leaves none behind.
THEOREM CancelledIsFinal == OneWorkerProcess /\ Spec => []CancelledIsNotFiled
<1> SUFFICES ASSUME OneWorkerProcess PROVE Spec => []CancelledIsNotFiled
    OBVIOUS
<1> DEFINE I == Exclusive /\ OneJobsOK
<1>1. Init => I
    BY InitExclusive, InitOneJobs
<1>2. I /\ [Next]_vars => I'
    BY NextExclusive, NextOneJobsOK
<1>3. I => CancelledIsNotFiled
    BY DEF OneJobsOK, OneJobOK, CancelledIsNotFiled, RunOf
<1> QED
    BY <1>1, <1>2, <1>3, PTL DEF Spec

-----------------------------------------------------------------------------
(* It implements Ingestion: what else its steps keep *)

\* A row of jobs that was not inserted belongs to no upload, an upload has no status before
\* it is accepted, and whatever names an upload names an accepted one.  A cancellation in
\* progress has found its upload unfinished, and nothing changes that behind its lock.
Rows ==
  /\ \A j \in Jobs : jobStatus[j] = "free" => jobUpload[j] = None
  /\ \A u \in Uploads : intake[u] = "none" <=> status[u] = "ABSENT"
  /\ \A j \in Jobs : jobUpload[j] # None => intake[jobUpload[j]] # "none"
  /\ \A c \in Clients : request[c].kind # "none" => intake[request[c].upload] # "none"
  /\ \A c \in Clients : request[c].kind = "cancel" => Unfinished(request[c].upload)

\* A run that scans has filed.
ScansAreFiled ==
  \A s \in Slots : pc[s] \in {"filed", "scanning"} => filed[UploadOf(s)]

\* Cancelled behind a run that had already decided: only a retry gets an upload there.
Overtaken(u) ==
  cancelRequested[u] /\ \E i, j \in Jobs : i # j /\ jobUpload[i] = u /\ jobUpload[j] = u

\* FinishersOK for uploads somebody asked to cancel as well.
Attending ==
  \A u \in Uploads : Unfinished(u) => Finisher(u) \/ u \in abandoned \/ Overtaken(u)

Kept == Exclusive /\ Rows /\ ScansAreFiled /\ Attending

\* Nothing is accepted, filed or running at first.
LEMMA InitKept == Init => Kept
BY InitExclusive, NoneIsNoId
   DEF Init, Kept, Rows, ScansAreFiled, Attending, Unfinished, MidFlight, Waiting, NoRequest

\* Rows are inserted by accepting an upload or for one that was; statuses wait for the lock.
LEMMA NextRows == Exclusive /\ Rows /\ [Next]_vars => Rows'
<1> SUFFICES ASSUME Exclusive /\ Rows, [Next]_vars PROVE Rows'
    OBVIOUS
<1> USE NoneIsNoId
    DEF Exclusive, Alone, Typed, TypeOK, References, Cancellations, OneRunPerJob, Rows, Locked,
        Unfinished, Status, Terminal, MidFlight, Waiting, JobStatus, Stages, Endings,
        tables, slotVars, Idle, UploadOf, NoRequest, SetStatus, Enqueue, Goto, Release,
        OnlySlots, OnlyStatus, OnlyJob
<1>1. ASSUME NEW u \in Uploads, Accept(u) PROVE Rows'
    BY <1>1 DEF Accept
<1>2. ASSUME NEW u \in Uploads, MarkQueued(u) PROVE Rows'
    BY <1>2 DEF MarkQueued
<1>3. ASSUME NEW u \in Uploads, EnqueueFirst(u) PROVE Rows'
    BY <1>3 DEF EnqueueFirst
<1>4. ASSUME NEW u \in Uploads, HandOff(u) PROVE Rows'
    BY <1>4 DEF HandOff
<1>5. ASSUME NEW u \in Uploads, IntakeCrash(u) PROVE Rows'
    BY <1>5 DEF IntakeCrash
<1>6. ASSUME NEW w \in Workers, ReleaseOrphans(w) PROVE Rows'
    BY <1>6 DEF ReleaseOrphans
<1>7. ASSUME NEW w \in Workers, ResetStale(w) PROVE Rows'
    BY <1>7 DEF ResetStale
<1>8. ASSUME NEW w \in Workers, WorkerCrash(w) PROVE Rows'
    BY <1>8 DEF WorkerCrash
<1>9. ASSUME NEW s \in Slots, Claim(s) PROVE Rows'
    BY <1>9 DEF Claim
<1>10. ASSUME NEW s \in Slots, Run(s) PROVE Rows'
  <2>1. CASE Move(s)
      BY <2>1 DEF Move
  <2>2. CASE Advance(s)
      BY <2>2 DEF Advance
  <2>3. CASE Conclude(s)
      BY <2>3 DEF Conclude
  <2>4. CASE File(s)
      BY <2>4 DEF File
  <2>5. CASE SettleJob(s)
      BY <2>5 DEF SettleJob
  <2>6. CASE FailForNow(s)
      BY <2>6 DEF FailForNow
  <2>7. CASE FailForGood(s)
      BY <2>7 DEF FailForGood
  <2>8. CASE MarkFailed(s)
      BY <2>8 DEF MarkFailed
  <2> QED
      BY <1>10, RunShapes, <2>1, <2>2, <2>3, <2>4, <2>5, <2>6, <2>7, <2>8
<1>11. ASSUME NEW c \in Clients, CancelBegin(c) PROVE Rows'
    BY <1>11 DEF CancelBegin
<1>12. ASSUME NEW c \in Clients, CancelCommit(c) PROVE Rows'
    BY <1>12 DEF CancelCommit
<1>13. ASSUME NEW c \in Clients, RetryCheck(c) PROVE Rows'
    BY <1>13 DEF RetryCheck
<1>14. ASSUME NEW c \in Clients, RetryCommit(c) PROVE Rows'
    BY <1>14 DEF RetryCommit
<1>15. ASSUME NEW s \in Slots, Drop(s) PROVE Rows'
    BY <1>15 DEF Drop
<1>16. CASE UNCHANGED vars
    BY <1>16 DEF vars
<1> QED
    BY <1>1, <1>2, <1>3, <1>4, <1>5, <1>6, <1>7, <1>8, <1>9, <1>10, <1>11, <1>12, <1>13, <1>14,
       <1>15, <1>16 DEF Next

\* What is filed stays filed, and a run gets to the scan by filing or by finding it done.
LEMMA NextScansAreFiled == Exclusive /\ ScansAreFiled /\ [Next]_vars => ScansAreFiled'
<1> SUFFICES ASSUME Exclusive /\ ScansAreFiled, [Next]_vars PROVE ScansAreFiled'
    OBVIOUS
<1> USE NoneIsNoId
    DEF Exclusive, Typed, TypeOK, References, ScansAreFiled, Stages, Endings,
        tables, slotVars, Idle, UploadOf, NoRequest, SetStatus, Enqueue, Goto, Release,
        OnlySlots, OnlyStatus, OnlyJob
<1>1. ASSUME NEW u \in Uploads, Accept(u) PROVE ScansAreFiled'
    BY <1>1 DEF Accept
<1>2. ASSUME NEW u \in Uploads, MarkQueued(u) PROVE ScansAreFiled'
    BY <1>2 DEF MarkQueued
<1>3. ASSUME NEW u \in Uploads, EnqueueFirst(u) PROVE ScansAreFiled'
    BY <1>3 DEF EnqueueFirst
<1>4. ASSUME NEW u \in Uploads, HandOff(u) PROVE ScansAreFiled'
    BY <1>4 DEF HandOff
<1>5. ASSUME NEW u \in Uploads, IntakeCrash(u) PROVE ScansAreFiled'
    BY <1>5 DEF IntakeCrash
<1>6. ASSUME NEW w \in Workers, ReleaseOrphans(w) PROVE ScansAreFiled'
    BY <1>6 DEF ReleaseOrphans
<1>7. ASSUME NEW w \in Workers, ResetStale(w) PROVE ScansAreFiled'
    BY <1>7 DEF ResetStale
<1>8. ASSUME NEW w \in Workers, WorkerCrash(w) PROVE ScansAreFiled'
    BY <1>8 DEF WorkerCrash
<1>9. ASSUME NEW s \in Slots, Claim(s) PROVE ScansAreFiled'
    BY <1>9 DEF Claim
<1>10. ASSUME NEW s \in Slots, Run(s) PROVE ScansAreFiled'
  <2>1. CASE Move(s)
      BY <2>1 DEF Move
  <2>2. CASE Advance(s)
      BY <2>2 DEF Advance
  <2>3. CASE Conclude(s)
      BY <2>3 DEF Conclude
  <2>4. CASE File(s)
      BY <2>4 DEF File
  <2>5. CASE SettleJob(s)
      BY <2>5 DEF SettleJob
  <2>6. CASE FailForNow(s)
      BY <2>6 DEF FailForNow
  <2>7. CASE FailForGood(s)
      BY <2>7 DEF FailForGood
  <2>8. CASE MarkFailed(s)
      BY <2>8 DEF MarkFailed
  <2> QED
      BY <1>10, RunShapes, <2>1, <2>2, <2>3, <2>4, <2>5, <2>6, <2>7, <2>8
<1>11. ASSUME NEW c \in Clients, CancelBegin(c) PROVE ScansAreFiled'
    BY <1>11 DEF CancelBegin
<1>12. ASSUME NEW c \in Clients, CancelCommit(c) PROVE ScansAreFiled'
    BY <1>12 DEF CancelCommit
<1>13. ASSUME NEW c \in Clients, RetryCheck(c) PROVE ScansAreFiled'
    BY <1>13 DEF RetryCheck
<1>14. ASSUME NEW c \in Clients, RetryCommit(c) PROVE ScansAreFiled'
    BY <1>14 DEF RetryCommit
<1>15. ASSUME NEW s \in Slots, Drop(s) PROVE ScansAreFiled'
    BY <1>15 DEF Drop
<1>16. CASE UNCHANGED vars
    BY <1>16 DEF vars
<1> QED
    BY <1>1, <1>2, <1>3, <1>4, <1>5, <1>6, <1>7, <1>8, <1>9, <1>10, <1>11, <1>12, <1>13, <1>14,
       <1>15, <1>16 DEF Next

\* A job inserted for x attends to x, and others are attended to as before.
LEMMA NewJobAttends ==
  ASSUME Exclusive, Rows, NEW x \in Uploads, NEW max, Enqueue(x, max), slotVars' = slotVars,
         NEW v \in Uploads
  PROVE  /\ Finisher(x)'
         /\ v # x /\ Finisher(v) /\ intake'[v] = intake[v] => Finisher(v)'
         /\ v # x /\ Overtaken(v) /\ cancelRequested'[v] = cancelRequested[v] => Overtaken(v)'
<1> USE NoneIsNoId
    DEF Exclusive, Typed, TypeOK, References, Rows, Finisher, Useful, LiveJob, UploadOf, slotVars,
        Idle
<1>1. PICK j \in Jobs :
        /\ jobStatus[j] = "free" /\ jobStatus' = [jobStatus EXCEPT ![j] = "pending"]
        /\ jobUpload' = [jobUpload EXCEPT ![j] = x]
    BY DEF Enqueue
<1>2. \A s \in Slots : held[s] # j /\ held'[s] = held[s] /\ pc'[s] = pc[s]
    BY <1>1
<1>3. \A i \in Jobs : i # j => jobStatus'[i] = jobStatus[i] /\ jobUpload'[i] = jobUpload[i]
    BY <1>1
<1>4. jobStatus'[j] = "pending" /\ jobUpload'[j] = x /\ jobUpload[j] = None /\ ~LiveJob(j)
    BY <1>1
<1>5. Finisher(x)'
    BY <1>2, <1>4
<1>6. ASSUME v # x, Finisher(v), intake'[v] = intake[v] PROVE Finisher(v)'
  <2>1. ASSUME NEW i \in Jobs, jobUpload[i] = v, Useful(i) PROVE Finisher(v)'
      BY <1>2, <1>3, <1>4, <2>1
  <2>2. ASSUME NEW s \in Slots, pc[s] = "failed", UploadOf(s) = v PROVE Finisher(v)'
      BY <1>2, <1>3, <2>2
  <2> QED
      BY <1>6, <2>1, <2>2
<1>7. ASSUME v # x, Overtaken(v), cancelRequested'[v] = cancelRequested[v] PROVE Overtaken(v)'
    BY <1>3, <1>4, <1>7 DEF Overtaken
<1> QED
    BY <1>5, <1>6, <1>7

\* As NextFinishersOK; a cancellation that takes away the last useful job leaves the job of
\* another run behind.
LEMMA NextAttending == Exclusive /\ Rows /\ Attending /\ [Next]_vars => Attending'
<1> SUFFICES ASSUME Exclusive /\ Rows /\ Attending, [Next]_vars PROVE Attending'
    OBVIOUS
<1> USE OwnerType, NoneIsNoId
    DEF Exclusive, Alone, Typed, TypeOK, References, BusySlotsRun, Cancellations,
        OneRunPerJob, Rows, Attending, Overtaken, Finisher, Useful, LiveJob, Unfinished, Status,
        Terminal, MidFlight, Waiting, JobStatus, Stages, Endings,
        tables, slotVars, Idle, UploadOf, NoRequest, SetStatus, Enqueue, Goto, Release,
        OnlySlots, OnlyStatus, OnlyJob
<1>1. ASSUME NEW u \in Uploads, Accept(u) PROVE Attending'
    BY <1>1 DEF Accept
<1>2. ASSUME NEW u \in Uploads, MarkQueued(u) PROVE Attending'
    BY <1>2 DEF MarkQueued
<1>3. ASSUME NEW u \in Uploads, EnqueueFirst(u) PROVE Attending'
  <2>1. Enqueue(u, MaxAttempts) /\ slotVars' = slotVars
      BY <1>3 DEF EnqueueFirst
  <2>2. /\ status' = status /\ abandoned' = abandoned /\ cancelRequested' = cancelRequested
        /\ \A v \in Uploads : v # u => intake'[v] = intake[v]
      BY <1>3 DEF EnqueueFirst
  <2> HIDE DEF Exclusive, Rows, Enqueue, Finisher, Overtaken, slotVars
  <2> QED
      BY <2>1, <2>2, NewJobAttends
<1>4. ASSUME NEW u \in Uploads, HandOff(u) PROVE Attending'
  <2>1. Enqueue(u, MaxAttempts) /\ slotVars' = slotVars
      BY <1>4 DEF HandOff
  <2>2. /\ abandoned' = abandoned /\ cancelRequested' = cancelRequested
        /\ \A v \in Uploads : v # u => intake'[v] = intake[v] /\ status'[v] = status[v]
      BY <1>4 DEF HandOff
  <2> HIDE DEF Exclusive, Rows, Enqueue, Finisher, Overtaken, slotVars
  <2> QED
      BY <2>1, <2>2, NewJobAttends
<1>5. ASSUME NEW u \in Uploads, IntakeCrash(u) PROVE Attending'
    BY <1>5 DEF IntakeCrash
<1>6. ASSUME NEW w \in Workers, ReleaseOrphans(w) PROVE Attending'
    BY <1>6 DEF ReleaseOrphans
<1>7. ASSUME NEW w \in Workers, ResetStale(w) PROVE Attending'
    BY <1>7 DEF ResetStale
<1>8. ASSUME NEW w \in Workers, WorkerCrash(w) PROVE Attending'
    BY <1>8 DEF WorkerCrash
<1>9. ASSUME NEW s \in Slots, Claim(s) PROVE Attending'
  <2>1. PICK j \in Jobs :
          /\ jobStatus[j] = "pending" /\ jobStatus' = [jobStatus EXCEPT ![j] = "active"]
          /\ held' = [held EXCEPT ![s] = j] /\ pc' = [pc EXCEPT ![s] = "start"]
      BY <1>9 DEF Claim
  <2>2. /\ status' = status /\ abandoned' = abandoned /\ cancelRequested' = cancelRequested
        /\ jobUpload' = jobUpload /\ intake' = intake /\ Idle(s)
      BY <1>9 DEF Claim
  <2>3. \A t \in Slots : t # s => held'[t] = held[t] /\ pc'[t] = pc[t]
      BY <2>1
  <2>4. held'[s] = j /\ pc'[s] = "start" /\ jobStatus'[j] = "active"
      BY <2>1
  <2>5. \A i \in Jobs : i # j => jobStatus'[i] = jobStatus[i]
      BY <2>1
  <2>6. ASSUME NEW v \in Uploads, NEW i \in Jobs, jobUpload[i] = v, Useful(i) PROVE Finisher(v)'
      BY <2>1, <2>2, <2>3, <2>4, <2>5, <2>6
  <2>7. ASSUME NEW v \in Uploads, NEW t \in Slots, pc[t] = "failed", UploadOf(t) = v
        PROVE  Finisher(v)'
      BY <2>2, <2>3, <2>7
  <2> QED
      BY <2>2, <2>6, <2>7
<1>10. ASSUME NEW s \in Slots, Run(s) PROVE Attending'
  <2>1. CASE Move(s)
      BY <2>1 DEF Move
  <2>2. CASE Advance(s)
      BY <2>2 DEF Advance
  <2>3. CASE Conclude(s)
      BY <2>3 DEF Conclude
  <2>4. CASE File(s)
      BY <2>4 DEF File
  <2>5. CASE SettleJob(s)
      BY <2>5 DEF SettleJob
  <2>6. CASE FailForNow(s)
    <3>1. /\ ~Idle(s) /\ pc[s] # "failed" /\ held[s] \in Jobs
          /\ status' = status /\ abandoned' = abandoned /\ cancelRequested' = cancelRequested
          /\ jobUpload' = jobUpload /\ intake' = intake
        BY <2>6 DEF FailForNow
    <3>2. \A t \in Slots : t # s => held'[t] = held[t] /\ pc'[t] = pc[t] /\ held[t] # held[s]
        BY <2>6, <3>1 DEF FailForNow
    <3>3. \A i \in Jobs : i # held[s] => jobStatus'[i] = jobStatus[i]
        BY <2>6 DEF FailForNow
    <3>4. held'[s] \in {held[s], None}
        BY <2>6 DEF FailForNow
    <3>5. \/ jobStatus'[held[s]] = "pending" /\ held'[s] = None
          \/ pc'[s] = "failed" /\ held'[s] = held[s]
        BY <2>6, <3>1 DEF FailForNow
    <3>6. ASSUME NEW v \in Uploads, jobUpload[held[s]] = v PROVE Finisher(v)'
        BY <3>1, <3>2, <3>5, <3>6
    <3>7. ASSUME NEW v \in Uploads, jobUpload[held[s]] # v, Finisher(v) PROVE Finisher(v)'
      <4>1. ASSUME NEW i \in Jobs, jobUpload[i] = v, Useful(i) PROVE Finisher(v)'
        <5>1. i # held[s]
            BY <3>7, <4>1
        <5>2. Useful(i)'
            BY <3>2, <3>3, <3>4, <4>1, <5>1
        <5> QED
            BY <3>1, <4>1, <5>2
      <4>2. ASSUME NEW t \in Slots, pc[t] = "failed", UploadOf(t) = v PROVE Finisher(v)'
          BY <3>1, <3>2, <4>2
      <4> QED
          BY <3>1, <3>7, <4>1, <4>2
    <3> QED
        BY <3>1, <3>6, <3>7
  <2>7. CASE FailForGood(s)
    <3>1. /\ ~Idle(s) /\ held[s] \in Jobs
          /\ status' = status /\ abandoned' = abandoned /\ cancelRequested' = cancelRequested
          /\ jobUpload' = jobUpload /\ intake' = intake
        BY <2>7 DEF FailForGood
    <3>2. held' = held /\ pc'[s] = "failed" /\ \A t \in Slots : t # s => pc'[t] = pc[t]
        BY <2>7 DEF FailForGood
    <3>3. \A i \in Jobs : i # held[s] => jobStatus'[i] = jobStatus[i]
        BY <2>7 DEF FailForGood
    <3>4. ASSUME NEW v \in Uploads, NEW i \in Jobs, jobUpload[i] = v, Useful(i)
          PROVE  Finisher(v)'
      <4>1. CASE i = held[s]
          BY <3>1, <3>2, <3>4, <4>1
      <4>2. CASE i # held[s]
        <5>1. Useful(i)'
            BY <3>2, <3>3, <3>4, <4>2
        <5> QED
            BY <3>1, <3>4, <5>1
      <4> QED
          BY <4>1, <4>2
    <3>5. ASSUME NEW v \in Uploads, NEW t \in Slots, pc[t] = "failed", UploadOf(t) = v
          PROVE  Finisher(v)'
        BY <3>1, <3>2, <3>5
    <3> QED
        BY <3>1, <3>4, <3>5
  <2>8. CASE MarkFailed(s)
      BY <2>8 DEF MarkFailed
  <2> QED
      BY <1>10, RunShapes, <2>1, <2>2, <2>3, <2>4, <2>5, <2>6, <2>7, <2>8
<1>11. ASSUME NEW c \in Clients, CancelBegin(c) PROVE Attending'
    BY <1>11 DEF CancelBegin
<1>12. ASSUME NEW c \in Clients, CancelCommit(c) PROVE Attending'
    BY <1>12 DEF CancelCommit
<1>13. ASSUME NEW c \in Clients, RetryCheck(c) PROVE Attending'
    BY <1>13 DEF RetryCheck
<1>14. ASSUME NEW c \in Clients, RetryCommit(c) PROVE Attending'
  <2> DEFINE u == request[c].upload
  <2>1. u \in Uploads /\ Enqueue(u, RetryAttempts) /\ slotVars' = slotVars
      BY <1>14 DEF RetryCommit
  <2>2. /\ intake' = intake
        /\ \A v \in Uploads : v # u => /\ status'[v] = status[v]
                                       /\ cancelRequested'[v] = cancelRequested[v]
                                       /\ v \in abandoned => v \in abandoned'
      BY <1>14 DEF RetryCommit
  <2> HIDE DEF u, Exclusive, Rows, Enqueue, Finisher, Overtaken, slotVars
  <2> QED
      BY <2>1, <2>2, NewJobAttends
<1>15. ASSUME NEW s \in Slots, Drop(s) PROVE Attending'
    BY <1>15 DEF Drop
<1>16. CASE UNCHANGED vars
    BY <1>16 DEF vars
<1> QED
    BY <1>1, <1>2, <1>3, <1>4, <1>5, <1>6, <1>7, <1>8, <1>9, <1>10, <1>11, <1>12, <1>13, <1>14,
       <1>15, <1>16 DEF Next

\* The four parts are inductive together.
LEMMA NextKept == OneWorkerProcess /\ Kept /\ [Next]_vars => Kept'
BY NextExclusive, NextRows, NextScansAreFiled, NextAttending DEF Kept

-----------------------------------------------------------------------------
(* The mapping *)

\* What the abstract service sees of a step that writes one status, or none.
LEMMA StateWritten ==
  ASSUME TypeOK, NEW u \in Uploads, NEW st, status' = [status EXCEPT ![u] = st]
  PROVE  State' = [State EXCEPT ![u] = StateOf(st)]
BY DEF State, TypeOK

\* A step that writes no status changes no abstract state.
LEMMA StateKept == status' = status => State' = State
BY DEF State

\* What an abstract state says of the row it stands for.
LEMMA StateValues ==
  ASSUME NEW u \in Uploads
  PROVE  /\ State[u] = StateOf(status[u])
         /\ State[u] = "open" <=> Unfinished(u)
         /\ State[u] = "absent" <=> status[u] = "ABSENT"
         /\ status[u] = "ABSENT" \/ Unfinished(u) \/ State[u] \in {"completed", "ended"}
BY DEF State, StateOf, Unfinished, MidFlight, Waiting

\* A job inserted for an upload is a try granted to it.
LEMMA EnqueueGrants ==
  ASSUME Exclusive, Rows, NEW u \in Uploads, NEW max, Enqueue(u, max), slotVars' = slotVars
  PROVE  Promised!Grant(u)
<1>1. PICK j \in Jobs :
        /\ jobStatus[j] = "free" /\ jobStatus' = [jobStatus EXCEPT ![j] = "pending"]
        /\ jobUpload' = [jobUpload EXCEPT ![j] = u]
    BY DEF Enqueue
<1>2. jobUpload[j] = None
    BY <1>1 DEF Rows
<1>3. OpenJobs' = OpenJobs \cup {j}
    BY <1>1 DEF OpenJobs, LiveJob, slotVars, Exclusive, Typed, TypeOK
<1> QED
    BY <1>1, <1>2, <1>3 DEF Promised!Grant

\* The job a slot holds is an open try of its upload.
LEMMA HeldIsOpen ==
  ASSUME Exclusive, Rows, NEW s \in Slots, ~Idle(s)
  PROVE  /\ held[s] \in Jobs /\ UploadOf(s) \in Uploads
         /\ held[s] \in Promised!OpenTries(UploadOf(s))
         /\ status[UploadOf(s)] # "ABSENT"
<1>1. held[s] \in Jobs /\ UploadOf(s) \in Uploads
    BY DEF Exclusive, Typed, References, UploadOf
<1>2. held[s] \in OpenJobs
    BY <1>1 DEF OpenJobs
<1>3. status[UploadOf(s)] # "ABSENT"
    BY <1>1, NoneIsNoId DEF Rows, UploadOf
<1> QED
    BY <1>1, <1>2, <1>3 DEF Promised!OpenTries, Promised!TriesOf, UploadOf

\* A step that keeps every job's life, and whatever else the abstract service sees, is none.
LEMMA OpenJobsKept ==
  ASSUME \A j \in Jobs : LiveJob(j)' \/ (\E s \in Slots : held'[s] = j)
                            <=> LiveJob(j) \/ (\E s \in Slots : held[s] = j)
  PROVE  OpenJobs' = OpenJobs
BY DEF OpenJobs

\* A terminal status is an outcome, and only COMPLETED is the good one.
LEMMA OutcomeStates ==
  \A st \in Terminal : StateOf(st) = IF st = "COMPLETED" THEN "completed" ELSE "ended"
BY DEF StateOf, Terminal, MidFlight, Waiting

\* What a step of the rows may look like from outside.
Step == Promised!Next \/ UNCHANGED Promised!vars

\* A step the service does not see.
LEMMA Stutters ==
  UNCHANGED <<State, Accepting, jobUpload, OpenJobs, Filed, Asked, abandoned>> => Step
BY DEF Step, Promised!vars

\* A slot that runs holds a job.
LEMMA RunIsBusy == \A s \in Slots : Run(s) => ~Idle(s)
BY RunShapes
   DEF Move, Advance, Conclude, File, SettleJob, FailForNow, FailForGood, MarkFailed, Idle, Stages

\* An upload somebody attends to that is opened, again or still.
LEMMA Reopens ==
  ASSUME NEW u \in Uploads, Promised!Attended(u), State[u] # "absent",
         State' = [State EXCEPT ![u] = "open"],
         UNCHANGED <<Accepting, jobUpload, OpenJobs, Filed, Asked, abandoned>>
  PROVE  Step
<1>1. CASE State[u] = "open"
    BY <1>1, Stutters DEF State
<1>2. CASE State[u] # "open"
    BY <1>2, StateValues DEF Step, Promised!Next, Promised!Reopen, Promised!Outcomes
<1> QED
    BY <1>1, <1>2

\* Whoever attended is gone, and it shows.
LEMMA Loses ==
  ASSUME NEW us \in SUBSET Accepting, NEW ts \in SUBSET OpenJobs,
         Accepting' = Accepting \ us, OpenJobs' = OpenJobs \ ts,
         abandoned' = abandoned \cup us \cup {jobUpload[t] : t \in ts},
         UNCHANGED <<State, jobUpload, Filed, Asked>>
  PROVE  Step
BY DEF Step, Promised!Next, Promised!Lose

\* Every step of the upload's row and jobs is a step of the service, or invisible to it.
LEMMA NextImplements == Kept /\ [Next]_vars => Step
<1> SUFFICES ASSUME Kept, [Next]_vars PROVE Step
    OBVIOUS
<1>1. ASSUME NEW u \in Uploads, Accept(u) PROVE Step
  <2>1. State[u] = "absent" /\ State' = [State EXCEPT ![u] = "open"]
      BY <1>1, StateValues, StateWritten
         DEF Accept, Kept, Rows, Exclusive, Typed, StateOf, MidFlight, Waiting
  <2>2. Accepting' = Accepting \cup {u}
      BY <1>1 DEF Accept, Accepting, Kept, Exclusive, Typed, TypeOK
  <2>3. UNCHANGED <<jobUpload, OpenJobs, Filed, Asked, abandoned>>
      BY <1>1 DEF Accept, OpenJobs, LiveJob, Filed, Asked, slotVars
  <2> QED
      BY <2>1, <2>2, <2>3 DEF Step, Promised!Next, Promised!Accept
<1>2. ASSUME NEW u \in Uploads, MarkQueued(u) PROVE Step
  <2>1. u \in Accepting /\ State[u] # "absent"
      BY <1>2, StateValues DEF MarkQueued, Accepting, Kept, Rows
  <2>2. State' = [State EXCEPT ![u] = "open"]
      BY <1>2, StateWritten
         DEF MarkQueued, SetStatus, Kept, Exclusive, Typed, StateOf, MidFlight, Waiting
  <2>3. UNCHANGED <<Accepting, jobUpload, OpenJobs, Filed, Asked, abandoned>>
      BY <1>2
         DEF MarkQueued, Accepting, OpenJobs, LiveJob, Filed, Asked, slotVars, Kept, Exclusive,
             Typed, TypeOK
  <2> QED
      BY <2>1, <2>2, <2>3, Reopens DEF Promised!Attended
<1>3. ASSUME NEW u \in Uploads, EnqueueFirst(u) PROVE Step
  <2>1. u \in Accepting /\ Accepting' = Accepting \ {u}
      BY <1>3 DEF EnqueueFirst, Accepting, Kept, Exclusive, Typed, TypeOK
  <2>2. Promised!Grant(u)
      BY <1>3, EnqueueGrants DEF EnqueueFirst, Kept
  <2>3. UNCHANGED <<State, Filed, Asked, abandoned>>
      BY <1>3, StateKept DEF EnqueueFirst, Filed, Asked
  <2> QED
      BY <2>1, <2>2, <2>3 DEF Step, Promised!Next, Promised!GrantFirst
<1>4. ASSUME NEW u \in Uploads, HandOff(u) PROVE Step
  <2>1. State[u] = "absent" /\ State' = [State EXCEPT ![u] = "open"]
      BY <1>4, StateValues, StateWritten
         DEF HandOff, Kept, Rows, Exclusive, Typed, StateOf, MidFlight, Waiting
  <2>2. Promised!Grant(u)
      BY <1>4, EnqueueGrants DEF HandOff, Kept
  <2>3. UNCHANGED <<Accepting, Filed, Asked, abandoned>>
      BY <1>4 DEF HandOff, Accepting, Filed, Asked, Kept, Exclusive, Typed, TypeOK
  <2> QED
      BY <2>1, <2>2, <2>3 DEF Step, Promised!Next, Promised!HandOver
<1>5. ASSUME NEW u \in Uploads, IntakeCrash(u) PROVE Step
  <2>1. {u} \subseteq Accepting /\ Accepting' = Accepting \ {u}
      BY <1>5 DEF IntakeCrash, Accepting, Kept, Exclusive, Typed, TypeOK
  <2>2. UNCHANGED <<State, jobUpload, OpenJobs, Filed, Asked>>
      BY <1>5, StateKept DEF IntakeCrash, tables, slotVars, OpenJobs, LiveJob, Filed, Asked
  <2>3. abandoned' = abandoned \cup {u}
      BY <1>5 DEF IntakeCrash
  <2> QED
      BY <2>1, <2>2, <2>3, Loses, OpenJobs \ {} = OpenJobs, {jobUpload[j] : j \in {}} = {}
<1>6. ASSUME NEW w \in Workers, ReleaseOrphans(w) PROVE Step
  <2>1. OpenJobs' = OpenJobs
      BY <1>6 DEF ReleaseOrphans, OpenJobs, LiveJob, slotVars, Kept, Exclusive, Typed, TypeOK
  <2> QED
      BY <1>6, <2>1, StateKept, Stutters DEF ReleaseOrphans, Accepting, Filed, Asked
<1>7. ASSUME NEW w \in Workers, ResetStale(w) PROVE Step
  <2>1. State' = State
      BY <1>7 DEF ResetStale, State, StateOf, MidFlight, Waiting, Kept, Exclusive, Typed, TypeOK
  <2> QED
      BY <1>7, <2>1, Stutters DEF ResetStale, Accepting, Filed, Asked, OpenJobs, LiveJob, slotVars
<1>8. ASSUME NEW w \in Workers, WorkerCrash(w) PROVE Step
  <2> DEFINE ts == {held[s] : s \in {t \in Slots : Owner[t] = w /\ pc[t] = "failed"}}
  <2>1. ts \subseteq OpenJobs
      BY HeldIsOpen DEF Kept, OpenJobs, Idle
  <2>2. OpenJobs' = OpenJobs \ ts
    <3>1. \A s \in Slots : held'[s] = IF Owner[s] = w THEN None ELSE held[s]
        BY <1>8 DEF WorkerCrash
    <3>2. jobStatus' = jobStatus
        BY <1>8 DEF WorkerCrash, tables
    <3>3. \A j \in Jobs : j \in OpenJobs' => j \in OpenJobs /\ j \notin ts
      <4> SUFFICES ASSUME NEW j \in Jobs, j \in OpenJobs' PROVE j \in OpenJobs /\ j \notin ts
          OBVIOUS
      <4>1. j \in OpenJobs
          BY <3>1, <3>2, NoneIsNoId DEF OpenJobs, LiveJob
      <4>2. ASSUME NEW s \in Slots, Owner[s] = w, pc[s] = "failed", held[s] = j PROVE FALSE
        <5>1. jobStatus[j] = "failed" /\ \A t \in Slots : held[t] = j => t = s
            BY <4>2 DEF Kept, Exclusive, Alone, OneRunPerJob, Idle
        <5> QED
            BY <3>1, <3>2, <4>2, <5>1, NoneIsNoId DEF OpenJobs, LiveJob
      <4> QED
          BY <4>1, <4>2
    <3>4. \A j \in Jobs : j \in OpenJobs /\ j \notin ts => j \in OpenJobs'
      <4> SUFFICES ASSUME NEW j \in Jobs, j \in OpenJobs, j \notin ts PROVE j \in OpenJobs'
          OBVIOUS
      <4>1. CASE LiveJob(j)
          BY <3>2, <4>1 DEF OpenJobs, LiveJob
      <4>2. CASE \E s \in Slots : held[s] = j /\ ~LiveJob(j)
        <5>1. PICK s \in Slots : held[s] = j /\ ~LiveJob(j)
            BY <4>2
        <5>2. pc[s] = "failed"
            BY <5>1, NoneIsNoId DEF Kept, Exclusive, Typed, References, Alone, OneRunPerJob, LiveJob
        <5> QED
            BY <3>1, <5>1, <5>2 DEF OpenJobs
      <4> QED
          BY <4>1, <4>2 DEF OpenJobs
    <3> QED
        BY <3>3, <3>4 DEF OpenJobs
  <2>3. abandoned' = abandoned \cup {jobUpload[j] : j \in ts}
      BY <1>8 DEF WorkerCrash, UploadOf
  <2>4. UNCHANGED <<State, Accepting, jobUpload, Filed, Asked>>
      BY <1>8, StateKept DEF WorkerCrash, tables, Accepting, Filed, Asked
  <2> HIDE DEF ts
  <2> QED
      BY <2>1, <2>2, <2>3, <2>4, Loses, Accepting \ {} = Accepting
<1>9. ASSUME NEW s \in Slots, Claim(s) PROVE Step
  <2>1. OpenJobs' = OpenJobs
    <3>1. PICK j \in Jobs : /\ jobStatus[j] = "pending"
                            /\ jobStatus' = [jobStatus EXCEPT ![j] = "active"]
                            /\ held' = [held EXCEPT ![s] = j]
        BY <1>9 DEF Claim
    <3>2. held[s] = None
        BY <1>9 DEF Claim, Kept, Exclusive, Typed, References
    <3> QED
        BY <3>1, <3>2, NoneIsNoId, OpenJobsKept DEF LiveJob, Kept, Exclusive, Typed, TypeOK
  <2> QED
      BY <1>9, <2>1, StateKept, Stutters DEF Claim, Accepting, Filed, Asked
<1>10. ASSUME NEW s \in Slots, Run(s) PROVE Step
  <2>a. /\ ~Idle(s) /\ held[s] \in Jobs /\ UploadOf(s) \in Uploads
        /\ held[s] \in Promised!OpenTries(UploadOf(s)) /\ status[UploadOf(s)] # "ABSENT"
      BY <1>10, HeldIsOpen, RunIsBusy DEF Kept
  <2>1. CASE Move(s)
    <3>1. UNCHANGED <<State, Accepting, jobUpload, OpenJobs, Filed, Asked, abandoned>>
        BY <2>1, StateKept
           DEF Move, OnlySlots, Goto, tables, Accepting, OpenJobs, LiveJob, Filed, Asked
    <3> QED
        BY <3>1, Stutters
  <2>2. CASE Advance(s)
    <3>1. PICK st \in MidFlight : SetStatus(UploadOf(s), st)
        BY <2>2 DEF Advance
    <3>2. State' = [State EXCEPT ![UploadOf(s)] = "open"]
        BY <3>1, <2>a, StateWritten DEF SetStatus, StateOf, MidFlight, Kept, Exclusive, Typed
    <3>3. UNCHANGED <<Accepting, jobUpload, OpenJobs, Filed, Asked, abandoned>>
        BY <2>2 DEF Advance, OnlyStatus, Goto, Accepting, OpenJobs, LiveJob, Filed, Asked
    <3>4. State[UploadOf(s)] # "absent" /\ Promised!Attended(UploadOf(s))
        BY <2>a, StateValues DEF Promised!Attended
    <3> QED
        BY <2>a, <3>2, <3>3, <3>4, Reopens
  <2>3. CASE Conclude(s)
    <3>1. PICK st \in Terminal :
            SetStatus(UploadOf(s), st) /\ (st = "COMPLETED" => pc[s] = "scanning")
        BY <2>3 DEF Conclude
    <3>2. State' = [State EXCEPT ![UploadOf(s)] = StateOf(st)]
        BY <3>1, <2>a, StateWritten DEF SetStatus, Kept, Exclusive, Typed
    <3>3. StateOf(st) \in {"completed", "ended"} /\ (StateOf(st) = "completed" => st = "COMPLETED")
        BY OutcomeStates
    <3>4. StateOf(st) = "completed" => UploadOf(s) \in Filed
        BY <2>a, <3>1, <3>3 DEF Kept, ScansAreFiled, Filed
    <3>5. UNCHANGED <<Accepting, jobUpload, OpenJobs, Filed, Asked, abandoned>>
        BY <2>3 DEF Conclude, OnlyStatus, Goto, Accepting, OpenJobs, LiveJob, Filed, Asked
    <3> QED
        BY <2>a, <3>2, <3>3, <3>4, <3>5 DEF Step, Promised!Next, Promised!End, Promised!Outcomes
  <2>4. CASE File(s)
    <3>1. Filed' = Filed \cup {UploadOf(s)}
        BY <2>4, <2>a DEF File, Filed, Kept, Exclusive, Typed, TypeOK
    <3>2. UNCHANGED <<State, Accepting, jobUpload, OpenJobs, Asked, abandoned>>
        BY <2>4, StateKept DEF File, Goto, Accepting, OpenJobs, LiveJob, Asked
    <3> QED
        BY <2>a, <3>1, <3>2 DEF Step, Promised!Next, Promised!File
  <2>5. CASE SettleJob(s)
    <3> DEFINE u == UploadOf(s)
               j == held[s]
    <3>1. /\ \/ jobStatus' = [jobStatus EXCEPT ![j] = "completed"]
             \/ jobStatus' = [jobStatus EXCEPT ![j] = "cancelled"]
          /\ held' = [held EXCEPT ![s] = None] /\ pc[s] \in {"finished", "cancelled"}
          /\ ~Idle(s) /\ \A t \in Slots : t # s => held[t] # j
        BY <2>5, <2>a DEF SettleJob, Release, Kept, Exclusive, Alone, OneRunPerJob
    <3>2. OpenJobs' = OpenJobs \ {j}
        BY <2>a, <3>1, NoneIsNoId DEF OpenJobs, LiveJob, Kept, Exclusive, Typed, TypeOK
    <3>3. UNCHANGED <<State, Accepting, jobUpload, Filed, Asked, abandoned>>
        BY <2>5, StateKept DEF SettleJob, OnlyJob, Accepting, Filed, Asked
    <3>4. CASE u \in abandoned
      <4>1. abandoned' = abandoned \cup {jobUpload[i] : i \in {j}}
          BY <3>3, <3>4 DEF UploadOf
      <4>2. {j} \subseteq OpenJobs
          BY <2>a DEF Promised!OpenTries
      <4> HIDE DEF u, j
      <4> QED
          BY <3>2, <3>3, <4>1, <4>2, Loses, Accepting \ {} = Accepting
    <3>5. CASE u \notin abandoned
      <4>1. State[u] \in {"completed", "ended"} \/ Finisher(u) \/ Overtaken(u)
          BY <2>a, <3>5, StateValues DEF Kept, Attending
      <4>2. ASSUME Finisher(u) PROVE u \in Accepting \/ Promised!OpenTries(u) # {j}
        <5>1. ASSUME NEW i \in Jobs, jobUpload[i] = u, Useful(i)
              PROVE  i \in Promised!OpenTries(u) \ {j}
            BY <3>1, <5>1 DEF Useful, Promised!OpenTries, Promised!TriesOf, OpenJobs
        <5>2. ASSUME NEW t \in Slots, pc[t] = "failed", UploadOf(t) = u
              PROVE  held[t] \in Promised!OpenTries(u) \ {j}
            BY <3>1, <5>2, HeldIsOpen DEF Kept, Idle
        <5> QED
            BY <2>a, <4>2, <5>1, <5>2 DEF Finisher, Accepting
      <4>3. ASSUME Overtaken(u) PROVE u \in Asked /\ Promised!TriesOf(u) # {j}
          BY <2>a, <4>3 DEF Overtaken, Asked, Promised!TriesOf
      <4>4. \/ State[u] \in {"completed", "ended"}
            \/ u \in Accepting \/ Promised!OpenTries(u) # {j}
            \/ (u \in Asked /\ Promised!TriesOf(u) # {j})
        BY <4>1, <4>2, <4>3
      <4>5. Promised!Close(j)
          BY <2>a, <3>2, <3>3, <4>4
             DEF Promised!Close, Promised!Outcomes, Promised!OpenTries, UploadOf
      <4> QED
          BY <2>a, <4>5 DEF Step, Promised!Next
    <3> QED
        BY <3>4, <3>5
  <2>6. CASE FailForNow(s)
    <3>1. OpenJobs' = OpenJobs
      <4>1. /\ jobStatus[held[s]] = "active" /\ jobStatus'[held[s]] \in {"pending", "failed"}
            /\ jobStatus'[held[s]] = "failed" => held' = held
            /\ held' = held \/ held' = [held EXCEPT ![s] = None]
            /\ \A i \in Jobs : i # held[s] => jobStatus'[i] = jobStatus[i]
          BY <2>6, <2>a
             DEF FailForNow, Release, Goto, Kept, Exclusive, Alone, OneRunPerJob, Typed, TypeOK
      <4> QED
          BY <2>a, <4>1, NoneIsNoId, OpenJobsKept DEF LiveJob, Kept, Exclusive, Typed, TypeOK
    <3> QED
        BY <2>6, <3>1, StateKept, Stutters DEF FailForNow, OnlyJob, Accepting, Filed, Asked
  <2>7. CASE FailForGood(s)
    <3>1. OpenJobs' = OpenJobs
        BY <2>7, <2>a, OpenJobsKept DEF FailForGood, Goto, LiveJob, Kept, Exclusive, Typed, TypeOK
    <3> QED
        BY <2>7, <3>1, StateKept, Stutters DEF FailForGood, OnlyJob, Accepting, Filed, Asked
  <2>8. CASE MarkFailed(s)
    <3>1. State' = [State EXCEPT ![UploadOf(s)] = "ended"]
      <4>1. status' = [status EXCEPT ![UploadOf(s)] = "FAILED"]
          BY <2>8 DEF MarkFailed, SetStatus
      <4>2. StateOf("FAILED") = "ended"
          BY OutcomeStates DEF Terminal
      <4>3. TypeOK
          BY DEF Kept, Exclusive, Typed
      <4> QED
          BY <2>a, <4>1, <4>2, <4>3, StateWritten
    <3>2. OpenJobs' = OpenJobs \ {held[s]}
      <4>1. /\ jobStatus[held[s]] = "failed" /\ jobStatus' = jobStatus
            /\ held' = [held EXCEPT ![s] = None] /\ \A t \in Slots : t # s => held[t] # held[s]
          BY <2>8, <2>a DEF MarkFailed, OnlyStatus, Release, Kept, Exclusive, Alone, OneRunPerJob
      <4> QED
          BY <2>a, <4>1, NoneIsNoId DEF OpenJobs, LiveJob, Kept, Exclusive, Typed, TypeOK
    <3>3. UNCHANGED <<Accepting, jobUpload, Filed, Asked, abandoned>>
        BY <2>8 DEF MarkFailed, OnlyStatus, Accepting, Filed, Asked
    <3> QED
        BY <2>a, <3>1, <3>2, <3>3 DEF Step, Promised!Next, Promised!End, Promised!Outcomes
  <2> QED
      BY <1>10, RunShapes, <2>1, <2>2, <2>3, <2>4, <2>5, <2>6, <2>7, <2>8
<1>11. ASSUME NEW c \in Clients, CancelBegin(c) PROVE Step
  <2>1. UNCHANGED <<State, Accepting, jobUpload, OpenJobs, Filed, Asked, abandoned>>
      BY <1>11, StateKept
         DEF CancelBegin, tables, slotVars, Accepting, OpenJobs, LiveJob, Filed, Asked
  <2> QED
      BY <2>1, Stutters
<1>12. ASSUME NEW c \in Clients, CancelCommit(c) PROVE Step
  <2> DEFINE u == request[c].upload
             over == request[c].swept
  <2>1. u \in Uploads /\ State[u] = "open"
      BY <1>12, StateValues DEF CancelCommit, Kept, Rows, Exclusive, Typed, References
  <2>2. over \subseteq Promised!OpenTries(u)
    <3>1. \A j \in over : j \in Jobs /\ jobStatus[j] = "pending" /\ jobUpload[j] = u
        BY DEF Kept, Exclusive, Typed, TypeOK, References, Alone, Cancellations
    <3> QED
        BY <3>1 DEF Promised!OpenTries, Promised!TriesOf, OpenJobs, LiveJob
  <2>3. OpenJobs' = OpenJobs \ over
    <3>1. \A j \in Jobs : jobStatus'[j] = IF j \in over THEN "cancelled" ELSE jobStatus[j]
        BY <1>12 DEF CancelCommit
    <3>2. held' = held
        BY <1>12 DEF CancelCommit, slotVars
    <3>3. \A j \in over : \A s \in Slots : held[s] # j
        BY NoneIsNoId
           DEF Kept, Exclusive, Typed, TypeOK, References, Alone, Cancellations, OneRunPerJob
    <3> QED
        BY <3>1, <3>2, <3>3 DEF OpenJobs, LiveJob
  <2>4. Asked' = Asked \cup {u}
      BY <1>12, <2>1 DEF CancelCommit, Asked, Kept, Exclusive, Typed, TypeOK
  <2>5. \/ State' = [State EXCEPT ![u] = "ended"]
        \/ Promised!OpenTries(u) \ over # {} /\ State' = State
    <3>1. CASE \E j \in Jobs : jobUpload[j] = u /\ jobStatus[j] = "active"
      <4>1. PICK j \in Jobs : jobUpload[j] = u /\ jobStatus[j] = "active"
          BY <3>1
      <4>2. j \notin over
          BY <4>1 DEF Kept, Exclusive, Alone, Cancellations
      <4>3. j \in Promised!OpenTries(u)
          BY <4>1 DEF Promised!OpenTries, Promised!TriesOf, OpenJobs, LiveJob
      <4>4. status' = status
          BY <1>12, <2>1, <3>1 DEF CancelCommit, Kept, Exclusive, Typed, TypeOK
      <4> QED
          BY <4>2, <4>3, <4>4, StateKept
    <3>2. CASE ~\E j \in Jobs : jobUpload[j] = u /\ jobStatus[j] = "active"
      <4>1. status' = [status EXCEPT ![u] = "CANCELLED"]
          BY <1>12, <3>2 DEF CancelCommit
      <4> QED
          BY <2>1, <4>1, StateWritten, OutcomeStates DEF Terminal, Kept, Exclusive, Typed
    <3> QED
        BY <3>1, <3>2
  <2>6. UNCHANGED <<Accepting, jobUpload, Filed, abandoned>>
      BY <1>12 DEF CancelCommit, Accepting, Filed
  <2> HIDE DEF u, over
  <2>7. Promised!Cancel(u)
      BY <2>1, <2>2, <2>3, <2>4, <2>5, <2>6 DEF Promised!Cancel
  <2> QED
      BY <2>1, <2>7 DEF Step, Promised!Next
<1>13. ASSUME NEW c \in Clients, RetryCheck(c) PROVE Step
  <2>1. UNCHANGED <<State, Accepting, jobUpload, OpenJobs, Filed, Asked, abandoned>>
      BY <1>13, StateKept
         DEF RetryCheck, tables, slotVars, Accepting, OpenJobs, LiveJob, Filed, Asked
  <2> QED
      BY <2>1, Stutters
<1>14. ASSUME NEW c \in Clients, RetryCommit(c) PROVE Step
  <2> DEFINE u == request[c].upload
  <2>1. u \in Uploads /\ State[u] # "absent" /\ State' = [State EXCEPT ![u] = "open"]
    <3>1. u \in Uploads /\ intake[u] # "none"
        BY <1>14 DEF RetryCommit, Kept, Rows, Exclusive, Typed, References
    <3> QED
        BY <1>14, <3>1, StateValues, StateWritten
           DEF RetryCommit, SetStatus, Kept, Rows, Exclusive, Typed, StateOf, MidFlight, Waiting
  <2>2. Promised!Grant(u)
      BY <1>14, <2>1, EnqueueGrants DEF RetryCommit, Kept
  <2>3. Asked' = Asked \ {u} /\ abandoned' = abandoned \ {u}
      BY <1>14, <2>1 DEF RetryCommit, Asked, Kept, Exclusive, Typed, TypeOK
  <2>4. UNCHANGED <<Accepting, Filed>>
      BY <1>14 DEF RetryCommit, Accepting, Filed
  <2> HIDE DEF u
  <2> QED
      BY <2>1, <2>2, <2>3, <2>4 DEF Step, Promised!Next, Promised!Retry
<1>15. ASSUME NEW s \in Slots, Drop(s) PROVE Step
  <2>1. ~Idle(s) /\ held[s] \in Jobs /\ held[s] \in OpenJobs
      BY <1>15, HeldIsOpen DEF Drop, Kept, Promised!OpenTries
  <2>2. /\ UNCHANGED <<State, Accepting, jobUpload, jobStatus, Filed, Asked>>
        /\ held' = [held EXCEPT ![s] = None] /\ \A t \in Slots : t # s => held[t] # held[s]
      BY <1>15, <2>1, StateKept
         DEF Drop, Release, tables, Accepting, Filed, Asked, Kept, Exclusive, Alone, OneRunPerJob
  <2>3. CASE pc[s] = "failed"
    <3>1. jobStatus[held[s]] = "failed"
        BY <2>1, <2>3 DEF Kept, Exclusive, Alone, OneRunPerJob
    <3>2. OpenJobs' = OpenJobs \ {held[s]}
        BY <2>1, <2>2, <3>1, NoneIsNoId DEF OpenJobs, LiveJob, Kept, Exclusive, Typed, TypeOK
    <3>3. abandoned' = abandoned \cup {jobUpload[j] : j \in {held[s]}}
        BY <1>15, <2>3 DEF Drop, UploadOf
    <3> QED
        BY <2>1, <2>2, <3>2, <3>3, Loses, Accepting \ {} = Accepting
  <2>4. CASE pc[s] # "failed"
    <3>1. jobStatus[held[s]] = "active"
        BY <2>1, <2>4 DEF Kept, Exclusive, Alone, OneRunPerJob
    <3>2. OpenJobs' = OpenJobs
        BY <2>1, <2>2, <3>1, NoneIsNoId, OpenJobsKept DEF LiveJob, Kept, Exclusive, Typed, TypeOK
    <3> QED
        BY <1>15, <2>2, <2>4, <3>2, Stutters DEF Drop
  <2> QED
      BY <2>3, <2>4
<1>16. CASE UNCHANGED vars
    BY <1>16, StateKept, Stutters
       DEF vars, tables, slotVars, Accepting, OpenJobs, LiveJob, Filed, Asked
<1> QED
    BY <1>1, <1>2, <1>3, <1>4, <1>5, <1>6, <1>7, <1>8, <1>9, <1>10, <1>11, <1>12, <1>13, <1>14,
       <1>15, <1>16 DEF Next

\* Empty tables are the abstract service before anything was accepted.
LEMMA InitImplements == Init => Promised!Init
<1> SUFFICES ASSUME Init PROVE Promised!Init
    OBVIOUS
<1>1. State = [u \in Uploads |-> "absent"]
  <2>1. status = [u \in Uploads |-> "ABSENT"]
      BY DEF Init
  <2>2. StateOf("ABSENT") = "absent"
      BY DEF StateOf, MidFlight, Waiting
  <2> QED
      BY <2>1, <2>2 DEF State
<1>2. Accepting = {} /\ Filed = {} /\ Asked = {} /\ abandoned = {}
    BY DEF Init, Accepting, Filed, Asked
<1>3. OpenJobs = {} /\ jobUpload = [t \in Jobs |-> None]
    BY NoneIsNoId DEF Init, OpenJobs, LiveJob
<1> QED
    BY <1>1, <1>2, <1>3 DEF Promised!Init

\* With one worker process the jobs, claims, runs, restarts, cancellations and retries of
\* UploadLifecycle keep the promise of Ingestion.
THEOREM LifecycleImplementsIngestion == OneWorkerProcess /\ Spec => ImplementsIngestion
<1> SUFFICES ASSUME OneWorkerProcess PROVE Spec => ImplementsIngestion
    OBVIOUS
<1>1. Kept /\ [Next]_vars => Kept'
    BY NextKept
<1>2. Kept /\ [Next]_vars => [Promised!Next]_Promised!vars
    BY NextImplements DEF Step
<1> QED
    BY InitKept, InitImplements, <1>1, <1>2, PTL DEF Spec, ImplementsIngestion, Promised!Spec

-----------------------------------------------------------------------------
(* What Ingestion amounts to *)

PromisedTyped ==
  /\ State \in [Uploads -> {"absent", "open"} \cup Promised!Outcomes]
  /\ jobUpload \in [Jobs -> Uploads \cup {None}]
  /\ Accepting \subseteq Uploads
  /\ OpenJobs \subseteq Jobs /\ \A t \in OpenJobs : jobUpload[t] \in Uploads

PromisedInv == PromisedTyped /\ Promised!OpenIsAttended /\ Promised!CompletedIsFiled

LEMMA InitPromised == Promised!Init => PromisedInv
BY DEF Promised!Init, PromisedInv, PromisedTyped, Promised!OpenIsAttended, Promised!CompletedIsFiled

\* An abstract action touches one upload and its tries only; Lose records whom it cut off.
LEMMA NextPromised == PromisedInv /\ [Promised!Next]_Promised!vars => PromisedInv'
<1> SUFFICES ASSUME PromisedInv, [Promised!Next]_Promised!vars PROVE PromisedInv'
    OBVIOUS
<1> USE NoneIsNoId DEF PromisedInv, PromisedTyped, Promised!OpenIsAttended,
        Promised!CompletedIsFiled, Promised!Attended, Promised!OpenTries, Promised!TriesOf,
        Promised!Outcomes
<1>1. ASSUME NEW u \in Uploads, Promised!Accept(u) PROVE PromisedInv'
    BY <1>1 DEF Promised!Accept
<1>2. ASSUME NEW u \in Uploads, Promised!GrantFirst(u) PROVE PromisedInv'
    BY <1>2 DEF Promised!GrantFirst, Promised!Grant
<1>3. ASSUME NEW u \in Uploads, Promised!HandOver(u) PROVE PromisedInv'
    BY <1>3 DEF Promised!HandOver, Promised!Grant
<1>4. ASSUME NEW u \in Uploads, Promised!Retry(u) PROVE PromisedInv'
    BY <1>4 DEF Promised!Retry, Promised!Grant
<1>5. ASSUME NEW u \in Uploads, Promised!Reopen(u) PROVE PromisedInv'
    BY <1>5 DEF Promised!Reopen
<1>6. ASSUME NEW u \in Uploads, Promised!File(u) PROVE PromisedInv'
    BY <1>6 DEF Promised!File
<1>7. ASSUME NEW u \in Uploads, Promised!End(u) PROVE PromisedInv'
    BY <1>7 DEF Promised!End
<1>8. ASSUME NEW u \in Uploads, Promised!Cancel(u) PROVE PromisedInv'
    BY <1>8 DEF Promised!Cancel
<1>9. ASSUME NEW t \in Jobs, Promised!Close(t) PROVE PromisedInv'
    BY <1>9 DEF Promised!Close
<1>10. CASE Promised!Lose
    BY <1>10 DEF Promised!Lose
<1>11. CASE UNCHANGED Promised!vars
    BY <1>11 DEF Promised!vars
<1> QED
    BY <1>1, <1>2, <1>3, <1>4, <1>5, <1>6, <1>7, <1>8, <1>9, <1>10, <1>11 DEF Promised!Next

\* The promise is kept by whoever implements Ingestion, and so by UploadLifecycle: an accepted
\* upload is attended to until it has ended, but for the failures and the overtaken
\* cancellation that OpenIsAttended names.
THEOREM AttendedUntilEnded ==
  (Promised!Spec => []Promised!OpenIsAttended)
  /\ (OneWorkerProcess /\ Spec => []Promised!OpenIsAttended)
<1>1. PromisedInv => Promised!OpenIsAttended
    BY DEF PromisedInv
<1>2. Promised!Spec => []Promised!OpenIsAttended
    BY InitPromised, NextPromised, <1>1, PTL DEF Promised!Spec
<1> QED
    BY <1>2, LifecycleImplementsIngestion, PTL DEF ImplementsIngestion

\* Likewise an upload that reads COMPLETED is in the library.
THEOREM CompletedMeansFiled ==
  (Promised!Spec => []Promised!CompletedIsFiled)
  /\ (OneWorkerProcess /\ Spec => []Promised!CompletedIsFiled)
<1>1. PromisedInv => Promised!CompletedIsFiled
    BY DEF PromisedInv
<1>2. Promised!Spec => []Promised!CompletedIsFiled
    BY InitPromised, NextPromised, <1>1, PTL DEF Promised!Spec
<1> QED
    BY <1>2, LifecycleImplementsIngestion, PTL DEF ImplementsIngestion

=============================================================================
