--------------------------- MODULE TelegramProofs ---------------------------
(***************************************************************************)
(* What a person sees in Telegram: what ProgressMessage guarantees of the  *)
(* message that follows an upload, for any number of attempts, retries,    *)
(* restarts and lost requests, and what MiniApp guarantees of the views of *)
(* the Mini App, for any number of requests, uploads and pages.            *)
(***************************************************************************)
EXTENDS ProgressMessage, MiniApp, SequenceTheorems, TLAPS

-----------------------------------------------------------------------------
(* The inductive invariant *)

\* Whoever names a message names one that was sent.
Ids ==
  /\ row.id <= Len(chat) /\ rep.id <= Len(chat) /\ tick.id <= Len(chat)
  /\ \A p \in Parties : say[p] # None =>
       say[p].msg <= Len(chat) /\ (say[p].state = "applied" => say[p].msg # 0)

\* A run has an active job; it fetches and files under a row that says so.
RunOK ==
  /\ job.status = "active" <=> run.at # "idle"
  /\ job.status = "active" => job.attempts # 0
  /\ run.at \in {"fetching", "filing"} => row.status = "WORKING"
  /\ say["run"] # None => run.at \in {"fetching", "filing", "closing"}

\* A reporter is busy exactly while the run, or the timer's callback that belongs to it, has a
\* request out: flush lets nobody else in.  Without a run it may be the former one's.
ReporterOK ==
  /\ say["run"] # None => rep.busy = "run"
  /\ rep.busy = "run" => say["run"] # None \/ (run.at = "idle" /\ say["former"] # None)
  /\ tick.at = "editing" /\ tick.own <=> rep.busy = "tick"
  /\ say["tick"] # None <=> tick.at = "editing"
  /\ rep.refused => rep.id = 0

\* Some edit only what the row names.
Named ==
  /\ run.known => row.id # 0
  /\ say["sweep"] # None \/ say["cancel"] # None => row.id # 0
  /\ say["bot"] # None /\ say["bot"].text # "received" => row.id # 0

Runs == RunOK /\ ReporterOK /\ Named

\* While nobody has begun blindly, everybody means the row's message, and where the row has
\* none there is one who may send it.
Active == tick.at # "idle"
OneMessage ==
  ~blind =>
    /\ run.at # "idle" \/ (Active /\ tick.own) => rep.id = row.id
    /\ Active /\ ~tick.own => tick.id = row.id /\ row.id # 0
    /\ \A p \in Parties : say[p] # None /\ say[p].state = "sent" => say[p].msg = row.id
    /\ say["bot"] # None /\ say["bot"].text = "received" =>
         row.id = 0 /\ run.at = "idle" /\ ~Active /\ say["failure"] = None /\ say["former"] = None
    /\ row.id = 0 /\ say["former"] # None => run.at = "idle" /\ rep.busy = "run"
    /\ row.id = 0 /\ say["failure"] # None => run.at = "idle" /\ ~Active

\* An upload that ended undisturbed is spoken of in no other terms, and its message says so or
\* is about to.
Over ==
  row.status \in Outcomes /\ ~late =>
    /\ ~Active /\ say["bot"] = None /\ say["sweep"] = None
    /\ \A p \in Parties : say[p] # None => say[p].text = row.status
    /\ \/ row.id = 0 \/ lost \/ blind \/ chat[row.id] = row.status
       \/ \E p \in Parties : say[p] # None /\ say[p].state = "sent"

IInv == TypeOK /\ Ids /\ Runs /\ OneMessage /\ Over

-----------------------------------------------------------------------------
(* Its steps *)

RowType == [status : {"QUEUED", "WORKING"} \cup Outcomes, cancel : BOOLEAN, id : Nat]
JobType == [status : {"pending", "active", "done"}, attempts : 0..MaxAttempts]
RunType == [at : {"idle", "loaded", "fetching", "filing", "closing"}, known : BOOLEAN]
RepType == [id : Nat, busy : {None, "run", "tick"}, refused : BOOLEAN]
TickType == [at : {"idle", "sampling", "editing"}, id : Nat, own : BOOLEAN]
SayType == [Parties -> {None} \cup Requests]
EventsType == [retries : 0..MaxRetries, faults : 0..MaxFaults]
LEMMA FieldTypes ==
  TypeOK <=> /\ row \in RowType /\ job \in JobType /\ run \in RunType /\ rep \in RepType
             /\ tick \in TickType /\ say \in SayType /\ chat \in Seq(Texts) /\ events \in EventsType
             /\ late \in BOOLEAN /\ lost \in BOOLEAN /\ blind \in BOOLEAN
BY DEF TypeOK, RowType, JobType, RunType, RepType, TickType, SayType, EventsType

LEMMA Asked ==
  ASSUME NEW m \in Nat, NEW t \in Texts
  PROVE  /\ Request(m, t) \in Requests /\ Request(m, t) # None
         /\ Request(m, t).msg = m /\ Request(m, t).text = t /\ Request(m, t).state = "sent"
BY NoneIsNothing DEF Request, Requests

\* Saying something is a request of one's own, and nobody else's.
LEMMA Says ==
  ASSUME TypeOK, NEW p \in Parties, NEW r \in {None} \cup Requests, say' = [say EXCEPT ![p] = r]
  PROVE  say' \in SayType /\ say'[p] = r /\ \A q \in Parties : q # p => say'[q] = say[q]
BY FieldTypes DEF SayType

LEMMA SaidIsRequest ==
  ASSUME TypeOK, NEW p \in Parties, say[p] # None
  PROVE  say[p] \in Requests /\ say[p].msg \in Nat /\ say[p].text \in Texts
         /\ say[p].state \in {"sent", "applied", "failed"}
BY FieldTypes DEF SayType, Requests

\* Telegram's part.
LEMMA ApplyIs ==
  ASSUME TypeOK, Ids, NEW p \in Parties, Apply(p)
  PROVE  /\ say[p] # None /\ say[p].state = "sent" /\ say' \in SayType
         /\ \A q \in Parties : q # p => say'[q] = say[q]
         /\ Heeds(p) => /\ say'[p] # None /\ say'[p].state = "applied" /\ say'[p].text = say[p].text
                        /\ say'[p].msg = IF say[p].msg = 0 THEN Len(chat) + 1 ELSE say[p].msg
         /\ ~Heeds(p) => say'[p] = None
         /\ chat' \in Seq(Texts)
         /\ IF say[p].msg = 0
            THEN /\ Len(chat') = Len(chat) + 1
                 /\ \A i \in 1..Len(chat) : chat'[i] = chat[i]
            ELSE /\ Len(chat') = Len(chat) /\ chat'[say[p].msg] = say[p].text
         /\ UNCHANGED <<row, job, run, rep, tick, events, late, lost, blind>>
<1> DEFINE msg == IF say[p].msg = 0 THEN Len(chat) + 1 ELSE say[p].msg
           r == IF Heeds(p) THEN [say[p] EXCEPT !.state = "applied", !.msg = msg] ELSE None
<1>1. /\ say[p] \in Requests /\ say[p].msg \in Nat /\ say[p].text \in Texts
      /\ chat \in Seq(Texts) /\ Len(chat) \in Nat
    BY SaidIsRequest, FieldTypes DEF Apply
<1>2. msg \in Nat
    BY <1>1
<1>3. say' = [say EXCEPT ![p] = r]
    BY FieldTypes DEF Apply, SayType
<1>4. Heeds(p) => /\ r \in Requests /\ r.state = "applied" /\ r.text = say[p].text /\ r.msg = msg
    BY <1>1, <1>2 DEF Requests
<1>5. r \in {None} \cup Requests /\ (~Heeds(p) => r = None)
    BY <1>4
<1>6. chat' = IF say[p].msg = 0 THEN Append(chat, say[p].text)
                                ELSE [chat EXCEPT ![say[p].msg] = say[p].text]
    BY DEF Apply
<1>7. say[p].msg <= Len(chat)
    BY DEF Ids, Apply
<1>8. /\ chat' \in Seq(Texts)
      /\ IF say[p].msg = 0
         THEN /\ Len(chat') = Len(chat) + 1
              /\ \A i \in 1..Len(chat) : chat'[i] = chat[i]
         ELSE /\ Len(chat') = Len(chat) /\ chat'[say[p].msg] = say[p].text
    BY <1>1, <1>6, <1>7
<1>9. /\ say[p] # None /\ say[p].state = "sent"
      /\ UNCHANGED <<row, job, run, rep, tick, events, late, lost, blind>>
    BY DEF Apply, ghosts
<1>10. r \in Requests => r # None
    BY NoneIsNothing
<1> HIDE DEF r
<1>11. say' \in SayType /\ say'[p] = r /\ \A q \in Parties : q # p => say'[q] = say[q]
    BY <1>3, <1>5, Says
<1> HIDE DEF msg
<1> QED
    BY <1>4, <1>5, <1>8, <1>9, <1>10, <1>11 DEF msg

LEMMA LoseIs ==
  ASSUME TypeOK, NEW p \in Parties, Lose(p)
  PROVE  /\ say[p] # None /\ say' \in SayType /\ events' \in EventsType
         /\ \A q \in Parties : q # p => say'[q] = say[q]
         /\ Heeds(p) => /\ say'[p] # None /\ say'[p].state = "failed" /\ say'[p].text = say[p].text
                        /\ say'[p].msg = say[p].msg
         /\ ~Heeds(p) => say'[p] = None
         /\ lost' = (lost \/ say[p].text \in Outcomes)
         /\ UNCHANGED <<row, job, run, rep, tick, chat, late, blind>>
<1> DEFINE r == IF Heeds(p) THEN [say[p] EXCEPT !.state = "failed"] ELSE None
<1>1. say[p] # None /\ say[p] \in Requests
    BY SaidIsRequest DEF Lose
<1>2. say' = [say EXCEPT ![p] = r]
    BY FieldTypes DEF Lose, SayType
<1>3. Heeds(p) => r \in Requests /\ r.state = "failed" /\ r.text = say[p].text /\ r.msg = say[p].msg
    BY <1>1 DEF Requests
<1>4. r \in {None} \cup Requests /\ (~Heeds(p) => r = None)
    BY <1>3
<1>5. events' \in EventsType
    BY FieldTypes, Bounds DEF Lose, EventsType
<1>6. r \in Requests => r # None
    BY NoneIsNothing
<1>7. /\ lost' = (lost \/ say[p].text \in Outcomes)
      /\ UNCHANGED <<row, job, run, rep, tick, chat, late, blind>>
    BY DEF Lose
<1> HIDE DEF r
<1>8. say' \in SayType /\ say'[p] = r /\ \A q \in Parties : q # p => say'[q] = say[q]
    BY <1>2, <1>4, Says
<1> QED
    BY <1>1, <1>3, <1>4, <1>5, <1>6, <1>7, <1>8

\* An edit of the run, if its reporter is free.
LEMMA EditIs ==
  ASSUME TypeOK, NEW t \in Texts, Edit(t)
  PROVE  /\ say' \in SayType /\ rep' \in RepType /\ rep'.id = rep.id /\ rep'.refused = rep.refused
         /\ \A q \in Parties : q # "run" => say'[q] = say[q]
         /\ \/ /\ rep.busy = None /\ rep'.busy = "run"
               /\ say'["run"] # None /\ say'["run"].msg = rep.id /\ say'["run"].text = t
               /\ say'["run"].state = "sent"
            \/ (rep.busy # None \/ rep.refused) /\ say' = say /\ rep' = rep
<1>1. say \in SayType /\ rep \in RepType /\ rep.id \in Nat
    BY FieldTypes DEF RepType
<1>2. CASE (rep.busy # None \/ rep.refused) /\ UNCHANGED <<say, rep>>
    BY <1>1, <1>2
<1>3. CASE /\ rep.busy = None
           /\ say' = [say EXCEPT !["run"] = Request(rep.id, t)]
           /\ rep' = [rep EXCEPT !.busy = "run"]
  <2>1. rep' \in RepType /\ rep'.id = rep.id /\ rep'.refused = rep.refused /\ rep'.busy = "run"
      BY <1>1, <1>3 DEF RepType
  <2>2. "run" \in Parties /\ Request(rep.id, t) \in {None} \cup Requests
      BY <1>1, Asked DEF Parties
  <2>3. /\ say' \in SayType /\ say'["run"] = Request(rep.id, t)
        /\ \A q \in Parties : q # "run" => say'[q] = say[q]
      BY <1>3, <2>2, Says
  <2> QED
      BY <1>1, <1>3, <2>1, <2>3, Asked
<1> QED
    BY <1>2, <1>3 DEF Edit

\* Hearing the answer, the reporter learns its message's id, and the row gets it once.
LEMMA LearntIs ==
  ASSUME TypeOK, Ids, NEW p \in Parties, say[p] # None, NEW id \in Nat, id <= Len(chat)
  PROVE  /\ Learnt(p, id) \in Nat /\ Learnt(p, id) <= Len(chat)
         /\ id # 0 => Learnt(p, id) = id
         /\ Learnt(p, id) \in {id, say[p].msg}
BY SaidIsRequest DEF Learnt, Ids

LEMMA FreedIs ==
  ASSUME TypeOK, Ids, NEW p \in Parties, say[p] # None, Freed(p)
  PROVE  /\ rep' \in RepType /\ rep'.id = Learnt(p, rep.id) /\ rep'.busy = None
         /\ rep'.refused <=> rep'.id = 0
<1>1. rep.id \in Nat /\ rep.id <= Len(chat)
    BY FieldTypes DEF RepType, Ids
<1>2. PICK id \in Nat : id = Learnt(p, rep.id)
    BY <1>1, LearntIs
<1>3. rep' = [id |-> id, busy |-> None, refused |-> (id = 0)]
    BY <1>2 DEF Freed
<1> QED
    BY <1>2, <1>3 DEF RepType

LEMMA PublishIs ==
  ASSUME TypeOK, NEW id \in Nat, Publish(id)
  PROVE  /\ row' \in RowType /\ run' \in RunType
         /\ row'.status = row.status /\ run'.at = run.at
         /\ \/ /\ id # 0 /\ ~run.known /\ row'.id = id
            \/ row' = row /\ run' = run /\ (id = 0 \/ run.known)
<1>1. row \in RowType /\ run \in RunType
    BY FieldTypes
<1>2. CASE id # 0 /\ ~run.known
  <2>1. row' = [row EXCEPT !.id = id] /\ run' = [run EXCEPT !.known = TRUE]
      BY <1>2 DEF Publish
  <2> QED
      BY <1>1, <1>2, <2>1 DEF RowType, RunType
<1>3. CASE ~(id # 0 /\ ~run.known)
  <2>1. row' = row /\ run' = run
      BY <1>3 DEF Publish
  <2> QED
      BY <1>1, <1>3, <2>1
<1> QED
    BY <1>2, <1>3

\* Hearing an answer ends the party's request.
LEMMA HearIs ==
  ASSUME TypeOK, NEW p \in Parties, Hear(p)
  PROVE  say' \in SayType /\ say'[p] = None /\ \A q \in Parties : q # p => say'[q] = say[q]
BY Says DEF Hear

\* The actions, by what they change.
LEMMA RecordReceiptIs ==
  ASSUME TypeOK, Ids, RecordReceipt
  PROVE  /\ say["bot"] # None /\ say["bot"].text = "received"
         /\ say' \in SayType /\ \A q \in Parties : q # "bot" => say'[q] = say[q]
         /\ \/ /\ say["bot"].state = "applied" /\ row' \in RowType
               /\ row'.status = row.status /\ row'.id = say["bot"].msg /\ say'["bot"] # None
               /\ say'["bot"].msg = row'.id /\ say'["bot"].text = "queued"
               /\ say'["bot"].state = "sent"
            \/ say'["bot"] = None /\ row' = row
         /\ UNCHANGED <<job, run, rep, tick, chat, events, late, lost, blind>>
<1>1. "bot" \in Parties /\ "queued" \in Texts
    BY DEF Parties, Texts
<1>2. /\ say["bot"] # None /\ say["bot"].text = "received" /\ say["bot"].msg \in Nat
      /\ row \in RowType
    BY <1>1, SaidIsRequest, FieldTypes DEF RecordReceipt, Answered
<1>3. CASE say["bot"].state = "applied"
  <2>1. /\ row' = [row EXCEPT !.id = say["bot"].msg]
        /\ say' = [say EXCEPT !["bot"] = Request(say["bot"].msg, "queued")]
      BY <1>1, <1>3, FieldTypes DEF RecordReceipt, SayType
  <2>2. row' \in RowType /\ row'.status = row.status /\ row'.id = say["bot"].msg
      BY <1>2, <2>1 DEF RowType
  <2>3. PICK r \in {None} \cup Requests : r = Request(say["bot"].msg, "queued")
      BY <1>1, <1>2, Asked
  <2>4. say' = [say EXCEPT !["bot"] = r]
      BY <2>1, <2>3
  <2>5. say' \in SayType /\ say'["bot"] = r /\ \A q \in Parties : q # "bot" => say'[q] = say[q]
      BY <1>1, <2>4, Says
  <2>6. r # None /\ r.msg = say["bot"].msg /\ r.text = "queued" /\ r.state = "sent"
      BY <1>1, <1>2, <2>3, Asked
  <2>7. UNCHANGED <<job, run, rep, tick, chat, events, late, lost, blind>>
      BY DEF RecordReceipt, ghosts
  <2> QED
      BY <1>2, <1>3, <2>2, <2>5, <2>6, <2>7
<1>4. CASE say["bot"].state # "applied"
  <2>1. Hear("bot") /\ row' = row
      BY <1>4 DEF RecordReceipt
  <2> QED
      BY <1>1, <1>2, <2>1, HearIs DEF RecordReceipt, ghosts
<1> QED
    BY <1>3, <1>4

LEMMA SweepIs ==
  ASSUME TypeOK, Sweep
  PROVE  /\ row.status = "QUEUED" /\ row.id # 0 /\ say' \in SayType
         /\ \A q \in Parties : q # "sweep" => say'[q] = say[q]
         /\ say'["sweep"] # None /\ say'["sweep"].msg = row.id /\ say'["sweep"].text = "queued"
         /\ say'["sweep"].state = "sent"
         /\ UNCHANGED <<row, job, run, rep, tick, chat, events, late, lost, blind>>
<1>1. "sweep" \in Parties /\ "queued" \in Texts /\ row.id \in Nat
    BY FieldTypes DEF Parties, Texts, RowType
<1>2. PICK r \in {None} \cup Requests : r = Request(row.id, "queued")
    BY <1>1, Asked
<1>3. say' = [say EXCEPT !["sweep"] = r]
    BY <1>2 DEF Sweep
<1>4. say' \in SayType /\ say'["sweep"] = r /\ \A q \in Parties : q # "sweep" => say'[q] = say[q]
    BY <1>1, <1>3, Says
<1>5. r # None /\ r.msg = row.id /\ r.text = "queued" /\ r.state = "sent"
    BY <1>1, <1>2, Asked
<1> QED
    BY <1>4, <1>5 DEF Sweep, ghosts

LEMMA ClaimIs ==
  ASSUME TypeOK, Claim
  PROVE  /\ job.status = "pending" /\ run.at = "idle" /\ say["failure"] = None
         /\ job' \in JobType /\ job'.status = "active" /\ job'.attempts # 0
         /\ run' \in RunType /\ run'.at = "loaded" /\ (run'.known <=> row.id # 0)
         /\ rep' \in RepType /\ rep'.id = row.id /\ rep'.busy = None /\ ~rep'.refused
         /\ IF Active /\ tick.own
            THEN tick' \in TickType /\ tick'.at = tick.at /\ tick'.id = rep.id /\ ~tick'.own
            ELSE tick' = tick
         /\ blind' = (blind \/ Blind)
         /\ UNCHANGED <<row, say, chat, events, late, lost>>
<1>1. /\ row.id \in Nat /\ job \in JobType /\ rep.id \in Nat /\ tick \in TickType
      /\ MaxAttempts \in Nat
    BY FieldTypes, Bounds DEF RowType, RepType
<1>2. job' \in JobType /\ job'.status = "active" /\ job'.attempts # 0
    BY <1>1 DEF Claim, JobType
<1>3. run' \in RunType /\ run'.at = "loaded" /\ (run'.known <=> row.id # 0)
    BY DEF Claim, RunType
<1>4. rep' \in RepType /\ rep'.id = row.id /\ rep'.busy = None /\ ~rep'.refused
    BY <1>1 DEF Claim, RepType, NoReporter
<1>5. CASE Active /\ tick.own
  <2>1. tick' = [tick EXCEPT !.id = rep.id, !.own = FALSE]
      BY <1>5 DEF Claim, Active
  <2>2. tick' \in TickType /\ tick'.at = tick.at /\ tick'.id = rep.id /\ ~tick'.own
      BY <1>1, <2>1 DEF TickType
  <2> QED
      BY <1>2, <1>3, <1>4, <1>5, <2>2 DEF Claim
<1>6. CASE ~(Active /\ tick.own)
  <2>1. tick' = tick
      BY <1>6 DEF Claim, Active
  <2> QED
      BY <1>2, <1>3, <1>4, <1>6, <2>1 DEF Claim
<1> QED
    BY <1>5, <1>6

LEMMA StageIs ==
  ASSUME TypeOK, StartFetch \/ SetStage
  PROVE  /\ run.at \in {"loaded", "fetching", "filing"} /\ say["run"] = None
         /\ row' \in RowType /\ row'.id = row.id
         /\ row'.status = "WORKING" \/ (run.at # "loaded" /\ row' = row)
         /\ run' \in RunType /\ run'.at \in {"fetching", "filing"} /\ run'.known = run.known
         /\ Edit("working") /\ "working" \in Texts
         /\ UNCHANGED <<job, tick, chat, events, late, lost, blind>>
<1>1. row \in RowType /\ run \in RunType
    BY FieldTypes
<1>2. "working" \in Texts
    BY DEF Texts
<1>3. CASE StartFetch
  <2>1. row' \in RowType /\ row'.id = row.id /\ row'.status = "WORKING"
      BY <1>1, <1>3 DEF StartFetch, RowType
  <2>2. run' \in RunType /\ run'.at = "fetching" /\ run'.known = run.known
      BY <1>1, <1>3 DEF StartFetch, RunType
  <2> QED
      BY <1>2, <1>3, <2>1, <2>2 DEF StartFetch, Ready, ghosts
<1>4. CASE SetStage
  <2>1. run' \in RunType /\ run'.at = "filing" /\ run'.known = run.known
      BY <1>1, <1>4 DEF SetStage, RunType
  <2> QED
      BY <1>1, <1>2, <1>4, <2>1 DEF SetStage, Ready, ghosts
<1> QED
    BY <1>3, <1>4

LEMMA StageHeardIs ==
  ASSUME TypeOK, Ids, StageHeard
  PROVE  /\ run.at \in {"fetching", "filing"} /\ say["run"] # None /\ say["run"].state # "sent"
         /\ Hear("run") /\ Freed("run") /\ Learnt("run", rep.id) \in Nat
         /\ Publish(Learnt("run", rep.id)) /\ Learnt("run", rep.id) <= Len(chat)
         /\ UNCHANGED <<job, tick, chat, events, late, lost, blind>>
<1>1. "run" \in Parties /\ rep.id \in Nat /\ rep.id <= Len(chat) /\ say["run"] # None
    BY FieldTypes DEF Parties, RepType, Ids, StageHeard, Answered
<1> QED
    BY <1>1, LearntIs DEF StageHeard, Answered, ghosts

LEMMA FinishIs ==
  ASSUME TypeOK, Complete \/ NoticeCancel
  PROVE  /\ run.at \in {"loaded", "fetching", "filing"} /\ say["run"] = None
         /\ \E outcome \in Outcomes :
              row' \in RowType /\ row'.status = outcome /\ row'.id = row.id /\ Edit(outcome)
         /\ run' \in RunType /\ run'.at = "closing" /\ run'.known = run.known
         /\ late' = (Others # {})
         /\ UNCHANGED <<job, tick, chat, events, lost, blind>>
<1>1. row \in RowType /\ run \in RunType
    BY FieldTypes
<1>2. PICK outcome \in Outcomes : Finish(outcome)
    BY DEF Complete, NoticeCancel, Outcomes
<1>3. row' \in RowType /\ row'.status = outcome /\ row'.id = row.id
    BY <1>1, <1>2 DEF Finish, RowType
<1>4. run' \in RunType /\ run'.at = "closing" /\ run'.known = run.known
    BY <1>1, <1>2 DEF Finish, RunType
<1>5. run.at \in {"loaded", "fetching", "filing"} /\ say["run"] = None
    BY DEF Complete, NoticeCancel, Ready
<1> QED
    BY <1>2, <1>3, <1>4, <1>5 DEF Finish

LEMMA SettleIs ==
  ASSUME TypeOK, Settle
  PROVE  /\ run.at = "closing" /\ (say["run"] # None => say["run"].state # "sent") /\ Hear("run")
         /\ rep' \in RepType /\ rep'.id = rep.id /\ rep'.refused = rep.refused
         /\ rep'.busy = IF rep.busy = "run" THEN None ELSE rep.busy
         /\ run' \in RunType /\ run'.at = "idle" /\ ~run'.known
         /\ job' \in JobType /\ job'.status = "done"
         /\ UNCHANGED <<row, tick, chat, events, late, lost, blind>>
<1>1. rep \in RepType /\ job \in JobType
    BY FieldTypes
<1>2. /\ rep' \in RepType /\ rep'.id = rep.id /\ rep'.refused = rep.refused
      /\ rep'.busy = IF rep.busy = "run" THEN None ELSE rep.busy
  <2> DEFINE busy == IF rep.busy = "run" THEN None ELSE rep.busy
  <2>1. busy \in {None, "run", "tick"} /\ rep' = [rep EXCEPT !.busy = busy]
      BY <1>1 DEF Settle, RepType
  <2> HIDE DEF busy
  <2>2. rep' \in RepType /\ rep'.id = rep.id /\ rep'.refused = rep.refused /\ rep'.busy = busy
      BY <1>1, <2>1 DEF RepType
  <2> QED
      BY <2>2 DEF busy
<1>3. run' \in RunType /\ run'.at = "idle" /\ ~run'.known
    BY DEF Settle, NoRun, RunType
<1>4. job' \in JobType /\ job'.status = "done"
    BY <1>1 DEF Settle, JobType
<1> QED
    BY <1>2, <1>3, <1>4 DEF Settle, Answered, ghosts

LEMMA FormerHeardIs ==
  ASSUME TypeOK, FormerHeard
  PROVE  /\ say["former"] # None /\ say["former"].state # "sent" /\ Hear("former")
         /\ rep' \in RepType /\ rep'.id = rep.id /\ rep'.refused = rep.refused
         /\ rep'.busy = IF rep.busy = "run" /\ say["run"] = None THEN None ELSE rep.busy
         /\ UNCHANGED <<row, job, run, tick, chat, events, late, lost, blind>>
<1> DEFINE busy == IF rep.busy = "run" /\ say["run"] = None THEN None ELSE rep.busy
<1>1. rep \in RepType
    BY FieldTypes
<1>2. busy \in {None, "run", "tick"} /\ rep' = [rep EXCEPT !.busy = busy]
    BY <1>1 DEF FormerHeard, RepType
<1> HIDE DEF busy
<1>3. rep' \in RepType /\ rep'.id = rep.id /\ rep'.refused = rep.refused /\ rep'.busy = busy
    BY <1>1, <1>2 DEF RepType
<1> QED
    BY <1>3 DEF FormerHeard, Answered, ghosts, busy

LEMMA FailForNowIs ==
  ASSUME TypeOK, FailForNow
  PROVE  /\ run.at \in {"loaded", "fetching", "filing"} /\ say["run"] = None
         /\ job' \in JobType /\ job'.status = "pending"
         /\ run' \in RunType /\ run'.at = "idle" /\ ~run'.known
         /\ UNCHANGED <<row, rep, tick, say, chat, events, late, lost, blind>>
<1>1. job' \in JobType /\ job'.status = "pending"
    BY FieldTypes DEF FailForNow, JobType
<1>2. run' \in RunType /\ run'.at = "idle" /\ ~run'.known
    BY DEF FailForNow, NoRun, RunType
<1> QED
    BY <1>1, <1>2 DEF FailForNow, Ready, ghosts

LEMMA FailForGoodIs ==
  ASSUME TypeOK, FailForGood
  PROVE  /\ run.at \in {"loaded", "fetching", "filing"} /\ say["run"] = None
         /\ job' \in JobType /\ job'.status = "done"
         /\ row' \in RowType /\ row'.status = "FAILED" /\ row'.id = row.id
         /\ run' \in RunType /\ run'.at = "idle" /\ ~run'.known
         /\ say' \in SayType /\ \A q \in Parties : q # "failure" => say'[q] = say[q]
         /\ say'["failure"] # None /\ say'["failure"].msg = row.id
         /\ say'["failure"].text = "FAILED" /\ say'["failure"].state = "sent"
         /\ late' = (Others # {}) /\ blind' = (blind \/ Blind)
         /\ UNCHANGED <<rep, tick, chat, events, lost>>
<1>1. row \in RowType /\ row.id \in Nat /\ "failure" \in Parties /\ "FAILED" \in Texts
    BY FieldTypes DEF RowType, Parties, Texts, Outcomes
<1>2. job' \in JobType /\ job'.status = "done"
    BY FieldTypes DEF FailForGood, JobType
<1>3. row' \in RowType /\ row'.status = "FAILED" /\ row'.id = row.id
    BY <1>1 DEF FailForGood, RowType, Outcomes
<1>4. run' \in RunType /\ run'.at = "idle" /\ ~run'.known
    BY DEF FailForGood, NoRun, RunType
<1>5. /\ say' \in SayType /\ \A q \in Parties : q # "failure" => say'[q] = say[q]
      /\ say'["failure"] = Request(row.id, "FAILED")
    BY <1>1, Says, Asked DEF FailForGood
<1> QED
    BY <1>1, <1>2, <1>3, <1>4, <1>5, Asked DEF FailForGood, Ready

LEMMA TickStartIs ==
  ASSUME TypeOK, TickStart
  PROVE  /\ run.at = "fetching" /\ ~Active
         /\ tick' \in TickType /\ tick'.at = "sampling" /\ tick'.id = 0 /\ tick'.own
         /\ UNCHANGED <<row, job, run, rep, say, chat, events, late, lost, blind>>
BY DEF TickStart, NoTick, TickType, Active, ghosts

LEMMA TickEditIs ==
  ASSUME TypeOK, TickEdit
  PROVE  /\ tick.at = "sampling"
         /\ \/ /\ tick.own => rep.busy = None
               /\ tick' \in TickType /\ tick'.at = "editing" /\ tick'.id = tick.id
               /\ tick'.own = tick.own
               /\ say' \in SayType /\ \A q \in Parties : q # "tick" => say'[q] = say[q]
               /\ say'["tick"] # None /\ say'["tick"].text = "working" /\ say'["tick"].state = "sent"
               /\ say'["tick"].msg = IF tick.own THEN rep.id ELSE tick.id
               /\ IF tick.own
                  THEN rep' \in RepType /\ rep'.id = rep.id /\ rep'.refused = rep.refused
                       /\ rep'.busy = "tick"
                  ELSE rep' = rep
            \/ /\ tick' \in TickType /\ tick'.at = "idle" /\ tick'.id = 0 /\ tick'.own
               /\ say' = say /\ rep' = rep
         /\ UNCHANGED <<row, job, run, chat, events, late, lost, blind>>
<1>1. /\ tick \in TickType /\ tick.id \in Nat /\ rep \in RepType /\ rep.id \in Nat
      /\ "tick" \in Parties /\ "working" \in Texts
    BY FieldTypes DEF TickType, RepType, Parties, Texts
<1>2. /\ tick.at = "sampling" /\ UNCHANGED <<row, job, run, chat, events, late, lost, blind>>
    BY DEF TickEdit, ghosts
<1>3. CASE tick' = NoTick /\ UNCHANGED <<say, rep>>
  <2>1. tick' \in TickType /\ tick'.at = "idle" /\ tick'.id = 0 /\ tick'.own
      BY <1>3 DEF NoTick, TickType
  <2> QED
      BY <1>2, <1>3, <2>1
<1>4. CASE /\ tick.own => rep.busy = None
           /\ say' = [say EXCEPT !["tick"] = Request(IF tick.own THEN rep.id ELSE tick.id, "working")]
           /\ tick' = [tick EXCEPT !.at = "editing"]
           /\ rep' = IF tick.own THEN [rep EXCEPT !.busy = "tick"] ELSE rep
  <2>1. PICK m \in Nat : m = IF tick.own THEN rep.id ELSE tick.id
      BY <1>1
  <2>2. tick' \in TickType /\ tick'.at = "editing" /\ tick'.id = tick.id /\ tick'.own = tick.own
      BY <1>1, <1>4 DEF TickType
  <2>r. PICK r \in {None} \cup Requests : r = Request(m, "working")
      BY <1>1, Asked
  <2>s. say' = [say EXCEPT !["tick"] = r]
      BY <1>4, <2>1, <2>r
  <2>3. /\ say' \in SayType /\ \A q \in Parties : q # "tick" => say'[q] = say[q]
        /\ say'["tick"] = Request(m, "working")
      BY <1>1, <2>r, <2>s, Says
  <2>4. IF tick.own THEN rep' \in RepType /\ rep'.id = rep.id /\ rep'.refused = rep.refused
                         /\ rep'.busy = "tick"
        ELSE rep' = rep
    <3>1. CASE tick.own
      <4>1. rep' = [rep EXCEPT !.busy = "tick"]
          BY <1>4, <3>1
      <4> QED
          BY <1>1, <3>1, <4>1 DEF RepType
    <3>2. CASE ~tick.own
        BY <1>4, <3>2
    <3> QED
        BY <3>1, <3>2
  <2> QED
      BY <1>1, <1>2, <1>4, <2>1, <2>2, <2>3, <2>4, Asked
<1> QED
    BY <1>3, <1>4 DEF TickEdit

LEMMA TickHeardIs ==
  ASSUME TypeOK, Ids, TickHeard
  PROVE  /\ tick.at = "editing" /\ say["tick"] # None /\ say["tick"].state # "sent" /\ Hear("tick")
         /\ Learnt("tick", rep.id) \in Nat /\ Learnt("tick", rep.id) <= Len(chat)
         /\ tick' \in TickType /\ tick'.id <= Len(chat)
         /\ \/ tick'.at = "idle"
            \/ /\ tick'.at = "sampling" /\ tick'.own = tick.own
               /\ ~tick.own => tick'.id = Learnt("tick", tick.id)
         /\ IF tick.own THEN Freed("tick") /\ Publish(Learnt("tick", rep.id))
            ELSE UNCHANGED <<rep, row, run>>
         /\ UNCHANGED <<job, chat, events, late, lost, blind>>
<1>1. /\ "tick" \in Parties /\ rep.id \in Nat /\ rep.id <= Len(chat) /\ say["tick"] # None
      /\ tick \in TickType /\ tick.id \in Nat /\ tick.id <= Len(chat) /\ Len(chat) \in Nat
    BY FieldTypes DEF Parties, RepType, TickType, Ids, TickHeard, Answered
<1>2. PICK m \in Nat : m = Learnt("tick", tick.id) /\ m <= Len(chat)
    BY <1>1, LearntIs
<1>3. /\ tick.at = "editing" /\ say["tick"].state # "sent" /\ Hear("tick")
      /\ IF tick.own THEN Freed("tick") /\ Publish(Learnt("tick", rep.id))
         ELSE UNCHANGED <<rep, row, run>>
      /\ UNCHANGED <<job, chat, events, late, lost, blind>>
    BY DEF TickHeard, Answered, ghosts
<1>4. Learnt("tick", rep.id) \in Nat /\ Learnt("tick", rep.id) <= Len(chat)
    BY <1>1, LearntIs
<1>5. CASE tick' = NoTick
  <2>1. tick' \in TickType /\ tick'.at = "idle" /\ tick'.id = 0
      BY <1>5 DEF NoTick, TickType
  <2> QED
      BY <1>1, <1>3, <1>4, <2>1
<1>6. CASE tick' = [tick EXCEPT !.at = "sampling", !.id = IF tick.own THEN 0 ELSE m]
  <2>1. PICK k \in Nat : k = (IF tick.own THEN 0 ELSE m) /\ k <= Len(chat)
      BY <1>1, <1>2
  <2>2. tick' = [tick EXCEPT !.at = "sampling", !.id = k]
      BY <1>6, <2>1
  <2>3. tick' \in TickType /\ tick'.at = "sampling" /\ tick'.id = k /\ tick'.own = tick.own
      BY <1>1, <2>2 DEF TickType
  <2> QED
      BY <1>1, <1>2, <1>3, <1>4, <2>1, <2>3
<1>7. tick' = NoTick \/ tick' = [tick EXCEPT !.at = "sampling", !.id = IF tick.own THEN 0 ELSE m]
    BY <1>1, <1>2 DEF TickHeard, TickType
<1> QED
    BY <1>5, <1>6, <1>7

LEMMA CancelIs ==
  ASSUME TypeOK, Cancel
  PROVE  /\ row.status \notin Outcomes /\ row' \in RowType /\ row'.id = row.id
         /\ \/ /\ row'.status = row.status /\ UNCHANGED <<say, late>>
               /\ job' \in JobType /\ (job'.status = "active" <=> job.status = "active")
               /\ job'.attempts = job.attempts
            \/ /\ row'.status = "CANCELLED" /\ job.status # "active" /\ say["former"] = None
               /\ job' \in JobType /\ job'.status = "done"
               /\ late' = (Others # {}) /\ say["cancel"] = None
               /\ say' \in SayType /\ \A q \in Parties : q # "cancel" => say'[q] = say[q]
               /\ row.id = 0 => say' = say
               /\ row.id # 0 => /\ say'["cancel"] # None /\ say'["cancel"].msg = row.id
                                /\ say'["cancel"].text = "CANCELLED" /\ say'["cancel"].state = "sent"
         /\ UNCHANGED <<run, rep, tick, chat, events, lost, blind>>
<1>1. /\ row \in RowType /\ row.id \in Nat /\ "cancel" \in Parties /\ "CANCELLED" \in Texts
      /\ say \in SayType /\ job \in JobType
    BY FieldTypes DEF RowType, Parties, Texts, Outcomes
<1>2. /\ row.status \notin Outcomes /\ say["cancel"] = None
      /\ UNCHANGED <<run, rep, tick, chat, events, lost, blind>>
    BY DEF Cancel
<1>3. CASE job.status = "active" \/ say["former"] # None
  <2>1. /\ row' = [row EXCEPT !.cancel = TRUE] /\ UNCHANGED <<say, late>>
        /\ job' = IF job.status = "pending" THEN [job EXCEPT !.status = "done"] ELSE job
      BY <1>3 DEF Cancel
  <2>2. row' \in RowType /\ row'.id = row.id /\ row'.status = row.status
      BY <1>1, <2>1 DEF RowType
  <2>3. /\ job' \in JobType /\ (job'.status = "active" <=> job.status = "active")
        /\ job'.attempts = job.attempts
      BY <1>1, <2>1 DEF JobType
  <2> QED
      BY <1>2, <1>3, <2>1, <2>2, <2>3
<1>4. CASE job.status # "active" /\ say["former"] = None
  <2>1. /\ row' = [row EXCEPT !.cancel = TRUE, !.status = "CANCELLED"]
        /\ job' = [job EXCEPT !.status = "done"]
        /\ say' = IF row.id = 0 THEN say ELSE [say EXCEPT !["cancel"] = Request(row.id, "CANCELLED")]
        /\ late' = (Others # {})
      BY <1>4 DEF Cancel
  <2>2. row' \in RowType /\ row'.id = row.id /\ row'.status = "CANCELLED"
      BY <1>1, <2>1 DEF RowType, Outcomes
  <2>3. job' \in JobType /\ job'.status = "done"
      BY <1>1, <2>1 DEF JobType
  <2>4. /\ say' \in SayType /\ \A q \in Parties : q # "cancel" => say'[q] = say[q]
        /\ row.id = 0 => say' = say
        /\ row.id # 0 => say'["cancel"] = Request(row.id, "CANCELLED")
    <3>1. CASE row.id = 0
        BY <1>1, <2>1, <3>1
    <3>2. CASE row.id # 0
        BY <1>1, <2>1, <3>2, Says, Asked
    <3> QED
        BY <3>1, <3>2
  <2> QED
      BY <1>1, <1>2, <1>4, <2>1, <2>2, <2>3, <2>4, Asked
<1> QED
    BY <1>3, <1>4

LEMMA RetryIs ==
  ASSUME TypeOK, Retry
  PROVE  /\ row.status \in {"FAILED", "CANCELLED"} /\ say["former"] = None
         /\ row' \in RowType /\ row'.status = "QUEUED" /\ row'.id = row.id
         /\ job' \in JobType /\ job'.status = "pending" /\ events' \in EventsType
         /\ run' \in RunType /\ run'.at = "idle" /\ ~run'.known
         /\ say' \in SayType /\ say'["former"] = say["run"] /\ say'["run"] = None
         /\ \A q \in Parties : q \notin {"run", "former"} => say'[q] = say[q]
         /\ UNCHANGED <<rep, tick, chat, late, lost, blind>>
<1>1. row' \in RowType /\ row'.status = "QUEUED" /\ row'.id = row.id
    BY FieldTypes DEF Retry, RowType
<1>2. job' \in JobType /\ job'.status = "pending"
    BY Bounds DEF Retry, JobType
<1>3. events' \in EventsType
    BY FieldTypes, Bounds DEF Retry, EventsType
<1>4. run' \in RunType /\ run'.at = "idle" /\ ~run'.known
    BY DEF Retry, NoRun, RunType
<1>5. /\ say' \in SayType /\ say'["former"] = say["run"] /\ say'["run"] = None
      /\ \A q \in Parties : q \notin {"run", "former"} => say'[q] = say[q]
  <2>1. say \in SayType /\ say' = [say EXCEPT !["former"] = say["run"], !["run"] = None]
      BY FieldTypes DEF Retry
  <2> QED
      BY <2>1 DEF SayType, Parties
<1> QED
    BY <1>1, <1>2, <1>3, <1>4, <1>5 DEF Retry, ghosts

LEMMA RestartIs ==
  ASSUME TypeOK, RunOK, Restart
  PROVE  /\ events' \in EventsType
         /\ run' \in RunType /\ run'.at = "idle" /\ ~run'.known
         /\ rep' \in RepType /\ rep'.id = 0 /\ rep'.busy = None /\ ~rep'.refused
         /\ tick' \in TickType /\ tick'.at = "idle" /\ tick'.id = 0 /\ tick'.own
         /\ say' \in SayType /\ \A q \in OfWorker : say'[q] = None
         /\ say'["bot"] = say["bot"] /\ say'["cancel"] = say["cancel"]
         /\ job' \in JobType
         /\ IF job.status = "active" THEN job'.status = "pending" ELSE job' = job
         /\ row' \in RowType /\ row'.id = row.id
         /\ row'.status = IF row.status = "WORKING" THEN "QUEUED" ELSE row.status
         /\ lost' = (lost \/ \E p \in OfWorker : say[p] # None /\ say[p].text \in Outcomes)
         /\ UNCHANGED <<chat, late, blind>>
<1>1. row \in RowType /\ job \in JobType /\ say \in SayType /\ MaxAttempts \in Nat
    BY FieldTypes, Bounds
<1>2. events' \in EventsType
    BY FieldTypes, Bounds DEF Restart, EventsType
<1>3. run' \in RunType /\ run'.at = "idle" /\ ~run'.known
    BY DEF Restart, NoRun, RunType
<1>4. rep' \in RepType /\ rep'.id = 0 /\ rep'.busy = None /\ ~rep'.refused
    BY DEF Restart, NoReporter, RepType
<1>5. tick' \in TickType /\ tick'.at = "idle" /\ tick'.id = 0 /\ tick'.own
    BY DEF Restart, NoTick, TickType
<1>6. /\ say' \in SayType /\ \A q \in OfWorker : say'[q] = None
      /\ say'["bot"] = say["bot"] /\ say'["cancel"] = say["cancel"]
    BY <1>1 DEF Restart, SayType, OfWorker, Parties
<1>7. job' \in JobType /\ IF job.status = "active" THEN job'.status = "pending" ELSE job' = job
  <2>1. CASE job.status = "active"
    <3>1. /\ job' = [status |-> "pending", attempts |-> job.attempts - 1]
          /\ job.attempts \in 0..MaxAttempts
        BY <1>1, <2>1 DEF Restart, JobType
    <3>2. job.attempts # 0
        BY <2>1 DEF RunOK
    <3> QED
        BY <1>1, <2>1, <3>1, <3>2 DEF JobType
  <2>2. CASE job.status # "active"
      BY <1>1, <2>2 DEF Restart
  <2> QED
      BY <2>1, <2>2
<1>8. /\ row' \in RowType /\ row'.id = row.id
      /\ row'.status = IF row.status = "WORKING" THEN "QUEUED" ELSE row.status
    BY <1>1 DEF Restart, RowType
<1> QED
    BY <1>2, <1>3, <1>4, <1>5, <1>6, <1>7, <1>8 DEF Restart

-----------------------------------------------------------------------------
(* Every action keeps the invariant, part by part. *)

LEMMA TypesNext ==
  ASSUME row' \in RowType, job' \in JobType, run' \in RunType, rep' \in RepType, tick' \in TickType,
         say' \in SayType, chat' \in Seq(Texts), events' \in EventsType,
         late' \in BOOLEAN, lost' \in BOOLEAN, blind' \in BOOLEAN
  PROVE  TypeOK'
BY DEF TypeOK, RowType, JobType, RunType, RepType, TickType, SayType, EventsType

\* The names.
LEMMA Known ==
  /\ Parties = {"bot", "sweep", "run", "former", "tick", "failure", "cancel"}
  /\ OfWorker = {"sweep", "run", "former", "tick", "failure"}
  /\ Outcomes = {"COMPLETED", "FAILED", "CANCELLED"}
  /\ Texts = {"received", "queued", "working", "COMPLETED", "FAILED", "CANCELLED"}
  /\ None \notin {"run", "tick"}
BY NoneIsNothing DEF Parties, OfWorker, Outcomes, Texts

\* Nobody else is writing; someone begins without an id while another is.
LEMMA Quiet ==
  /\ Others = {} <=> ~Active /\ \A p \in Parties \ {"run"} : say[p] = None
  /\ Blind <=> row.id = 0 /\ Others # {}
BY DEF Others, Active, Blind, Parties

\* The reporter hears an answer: it learns the id of what it sent, and the row gets it.
LEMMA HeardIs ==
  ASSUME TypeOK, Ids, NEW p \in {"run", "tick"}, say[p] # None, say[p].state # "sent",
         Hear(p), Freed(p), Publish(Learnt(p, rep.id))
  PROVE  /\ say' \in SayType /\ say'[p] = None /\ \A q \in Parties : q # p => say'[q] = say[q]
         /\ rep' \in RepType /\ rep'.id <= Len(chat) /\ (rep.id # 0 => rep'.id = rep.id)
         /\ rep'.busy = None /\ (rep'.refused => rep'.id = 0)
         /\ row' \in RowType /\ row'.status = row.status /\ run' \in RunType /\ run'.at = run.at
         /\ \/ ~run.known /\ row'.id # 0 /\ row'.id = rep'.id
            \/ row' = row /\ run' = run /\ (rep'.id = 0 \/ run.known)
<1>1. p \in Parties /\ rep.id \in Nat /\ rep.id <= Len(chat)
    BY FieldTypes DEF Parties, RepType, Ids
<1>2. PICK id \in Nat : id = Learnt(p, rep.id) /\ id <= Len(chat) /\ (rep.id # 0 => id = rep.id)
    BY <1>1, LearntIs
<1>3. rep' \in RepType /\ rep'.id = id /\ rep'.busy = None /\ (rep'.refused <=> rep'.id = 0)
    BY <1>1, <1>2, FreedIs
<1>4. Publish(id)
    BY <1>2
<1> QED
    BY <1>1, <1>2, <1>3, <1>4, PublishIs, HearIs

LEMMA ApplyKeeps ==
  ASSUME IInv, NEW p \in Parties, Apply(p)
  PROVE  IInv'
<1>0. TypeOK /\ Ids /\ RunOK /\ ReporterOK /\ Named /\ OneMessage /\ Over
    BY DEF IInv, Runs
<1>1. TypeOK'
    BY <1>0, ApplyIs, FieldTypes, TypesNext, Known
<1>2. Ids'
  <2>1. Len(chat) \in Nat /\ Len(chat') \in Nat /\ Len(chat) <= Len(chat')
      BY <1>0, ApplyIs, FieldTypes
  <2>2. row.id <= Len(chat') /\ rep.id <= Len(chat') /\ tick.id <= Len(chat')
      BY <1>0, <2>1, FieldTypes DEF Ids, RowType, RepType, TickType
  <2>3. ASSUME NEW q \in Parties, say'[q] # None
        PROVE  say'[q].msg <= Len(chat') /\ (say'[q].state = "applied" => say'[q].msg # 0)
    <3>1. CASE q # p
      <4>1. say'[q] = say[q]
          BY <1>0, <3>1, ApplyIs
      <4>2. say[q].msg \in Nat /\ say[q].msg <= Len(chat)
          BY <1>0, <2>3, <4>1, SaidIsRequest DEF Ids
      <4> QED
          BY <1>0, <2>1, <2>3, <4>1, <4>2 DEF Ids
    <3>2. CASE q = p
      <4>1. /\ say[p].msg \in Nat /\ say[p].msg <= Len(chat)
          BY <1>0, ApplyIs, SaidIsRequest DEF Ids
      <4>2. say'[p].msg = IF say[p].msg = 0 THEN Len(chat) + 1 ELSE say[p].msg
          BY <1>0, <2>3, <3>2, ApplyIs
      <4>3. say[p].msg = 0 => Len(chat') = Len(chat) + 1
          BY <1>0, ApplyIs
      <4> QED
          BY <2>1, <3>2, <4>1, <4>2, <4>3
    <3> QED
        BY <3>1, <3>2
  <2> QED
      BY <1>0, <2>2, <2>3, ApplyIs DEF Ids
<1>3. RunOK'
    BY <1>0, ApplyIs, FieldTypes, Known DEF RunOK
<1>4. ReporterOK'
    BY <1>0, ApplyIs, FieldTypes, Known DEF ReporterOK, RunOK, Heeds
<1>5. Named'
    BY <1>0, ApplyIs, FieldTypes, Known DEF Named, RunOK
<1>6. OneMessage'
    BY <1>0, ApplyIs, FieldTypes, Known, Quiet DEF OneMessage, RunOK, ReporterOK, Named, Active
<1>7. Over'
    BY <1>0, ApplyIs, FieldTypes, Known, Quiet DEF Over, RunOK, ReporterOK, Named, Active, OneMessage
<1> QED
    BY <1>1, <1>2, <1>3, <1>4, <1>5, <1>6, <1>7 DEF IInv, Runs

LEMMA LoseKeeps ==
  ASSUME IInv, NEW p \in Parties, Lose(p)
  PROVE  IInv'
<1>0. TypeOK /\ Ids /\ RunOK /\ ReporterOK /\ Named /\ OneMessage /\ Over
    BY DEF IInv, Runs
<1>1. TypeOK'
    BY <1>0, LoseIs, FieldTypes, TypesNext, Known
<1>2. Ids'
    BY <1>0, LoseIs, FieldTypes, Known DEF Ids, RowType, RepType, TickType
<1>3. RunOK'
    BY <1>0, LoseIs, FieldTypes, Known DEF RunOK
<1>4. ReporterOK'
    BY <1>0, LoseIs, FieldTypes, Known DEF ReporterOK, RunOK, Heeds
<1>5. Named'
    BY <1>0, LoseIs, FieldTypes, Known DEF Named, RunOK
<1>6. OneMessage'
    BY <1>0, LoseIs, FieldTypes, Known, Quiet DEF OneMessage, RunOK, ReporterOK, Named, Active
<1>7. Over'
  <2> SUFFICES ASSUME row.status \in Outcomes, ~late
               PROVE  Over'
      BY <1>0, LoseIs DEF Over
  <2>1. /\ ~Active /\ say["bot"] = None /\ say["sweep"] = None
        /\ \A q \in Parties : say[q] # None => say[q].text = row.status
      BY <1>0 DEF Over
  <2>2. lost' = TRUE
      BY <1>0, <2>1, LoseIs
  <2>3. \A q \in Parties : say'[q] # None => say[q] # None /\ say'[q].text = say[q].text
      BY <1>0, LoseIs
  <2>4. row' = row /\ tick' = tick
      BY <1>0, LoseIs
  <2> QED
      BY <2>1, <2>2, <2>3, <2>4, Known DEF Over, Active
<1> QED
    BY <1>1, <1>2, <1>3, <1>4, <1>5, <1>6, <1>7 DEF IInv, Runs

LEMMA RecordReceiptKeeps ==
  ASSUME IInv, RecordReceipt
  PROVE  IInv'
<1>0. TypeOK /\ Ids /\ RunOK /\ ReporterOK /\ Named /\ OneMessage /\ Over
    BY DEF IInv, Runs
<1>1. TypeOK'
    BY <1>0, RecordReceiptIs, FieldTypes, TypesNext, Known
<1>2. Ids'
    BY <1>0, RecordReceiptIs, FieldTypes, Known DEF Ids, RowType, RepType, TickType
<1>3. RunOK'
    BY <1>0, RecordReceiptIs, FieldTypes, Known DEF RunOK
<1>4. ReporterOK'
    BY <1>0, RecordReceiptIs, FieldTypes, Known DEF ReporterOK, RunOK
<1>5. Named'
    BY <1>0, RecordReceiptIs, FieldTypes, Known DEF Named, RunOK, Ids
<1>6. OneMessage'
    BY <1>0, RecordReceiptIs, FieldTypes, Known, Quiet
       DEF OneMessage, RunOK, ReporterOK, Named, Active
<1>7. Over'
    BY <1>0, RecordReceiptIs, FieldTypes, Known, Quiet DEF Over, RunOK, ReporterOK, Named, Active,
       OneMessage
<1> QED
    BY <1>1, <1>2, <1>3, <1>4, <1>5, <1>6, <1>7 DEF IInv, Runs

LEMMA SweepKeeps ==
  ASSUME IInv, Sweep
  PROVE  IInv'
<1>0. TypeOK /\ Ids /\ RunOK /\ ReporterOK /\ Named /\ OneMessage /\ Over
    BY DEF IInv, Runs
<1>1. TypeOK'
    BY <1>0, SweepIs, FieldTypes, TypesNext, Known
<1>2. Ids'
    BY <1>0, SweepIs, FieldTypes, Known DEF Ids, RowType, RepType, TickType
<1>3. RunOK'
    BY <1>0, SweepIs, FieldTypes, Known DEF RunOK
<1>4. ReporterOK'
    BY <1>0, SweepIs, FieldTypes, Known DEF ReporterOK, RunOK
<1>5. Named'
    BY <1>0, SweepIs, FieldTypes, Known DEF Named, RunOK
<1>6. OneMessage'
    BY <1>0, SweepIs, FieldTypes, Known, Quiet DEF OneMessage, RunOK, ReporterOK, Named, Active
<1>7. Over'
    BY <1>0, SweepIs, FieldTypes, Known, Quiet DEF Over, RunOK, ReporterOK, Named, Active, OneMessage
<1> QED
    BY <1>1, <1>2, <1>3, <1>4, <1>5, <1>6, <1>7 DEF IInv, Runs

LEMMA ClaimKeeps ==
  ASSUME IInv, Claim
  PROVE  IInv'
<1>0. TypeOK /\ Ids /\ RunOK /\ ReporterOK /\ Named /\ OneMessage /\ Over
    BY DEF IInv, Runs
<1>1. TypeOK'
    BY <1>0, ClaimIs, FieldTypes, TypesNext, Known
<1>2. Ids'
    BY <1>0, ClaimIs, FieldTypes, Known DEF Ids, RowType, RepType, TickType
<1>3. RunOK'
    BY <1>0, ClaimIs, FieldTypes, Known DEF RunOK
<1>4. ReporterOK'
    BY <1>0, ClaimIs, FieldTypes, Known DEF ReporterOK, RunOK, Active
<1>5. Named'
    BY <1>0, ClaimIs, FieldTypes, Known DEF Named, RunOK
<1>6. OneMessage'
    BY <1>0, ClaimIs, FieldTypes, Known, Quiet DEF OneMessage, RunOK, ReporterOK, Named, Active
<1>7. Over'
    BY <1>0, ClaimIs, FieldTypes, Known, Quiet DEF Over, RunOK, ReporterOK, Named, Active, OneMessage
<1> QED
    BY <1>1, <1>2, <1>3, <1>4, <1>5, <1>6, <1>7 DEF IInv, Runs

LEMMA StageKeeps ==
  ASSUME IInv, StartFetch \/ SetStage
  PROVE  IInv'
<1>0. TypeOK /\ Ids /\ RunOK /\ ReporterOK /\ Named /\ OneMessage /\ Over
    BY DEF IInv, Runs
<1>1. TypeOK'
    BY <1>0, StageIs, EditIs, FieldTypes, TypesNext, Known
<1>2. Ids'
    BY <1>0, StageIs, EditIs, FieldTypes, Known DEF Ids, RowType, RepType, TickType
<1>3. RunOK'
    BY <1>0, StageIs, EditIs, FieldTypes, Known DEF RunOK
<1>4. ReporterOK'
    BY <1>0, StageIs, EditIs, FieldTypes, Known DEF ReporterOK, RunOK
<1>5. Named'
    BY <1>0, StageIs, EditIs, FieldTypes, Known DEF Named, RunOK
<1>6. OneMessage'
    BY <1>0, StageIs, EditIs, FieldTypes, Known, Quiet
       DEF OneMessage, RunOK, ReporterOK, Named, Active
<1>7. Over'
    BY <1>0, StageIs, EditIs, FieldTypes, Known, Quiet DEF Over, RunOK, ReporterOK, Named, Active,
       OneMessage
<1> QED
    BY <1>1, <1>2, <1>3, <1>4, <1>5, <1>6, <1>7 DEF IInv, Runs

LEMMA StageHeardKeeps ==
  ASSUME IInv, StageHeard
  PROVE  IInv'
<1>0. TypeOK /\ Ids /\ RunOK /\ ReporterOK /\ Named /\ OneMessage /\ Over
    BY DEF IInv, Runs
<1>1. TypeOK'
    BY <1>0, StageHeardIs, HeardIs, FieldTypes, TypesNext, Known
<1>2. Ids'
    BY <1>0, StageHeardIs, HeardIs, FieldTypes, Known DEF Ids, RowType, RepType, TickType
<1>3. RunOK'
    BY <1>0, StageHeardIs, HeardIs, FieldTypes, Known DEF RunOK
<1>4. ReporterOK'
    BY <1>0, StageHeardIs, HeardIs, FieldTypes, Known DEF ReporterOK, RunOK
<1>5. Named'
    BY <1>0, StageHeardIs, HeardIs, FieldTypes, Known DEF Named, RunOK
<1>6. OneMessage'
    BY <1>0, StageHeardIs, HeardIs, FieldTypes, Known, Quiet DEF OneMessage, RunOK, ReporterOK, Named,
       Active
<1>7. Over'
    BY <1>0, StageHeardIs, HeardIs, FieldTypes, Known, Quiet
       DEF Over, RunOK, ReporterOK, Named, Active,
       OneMessage
<1> QED
    BY <1>1, <1>2, <1>3, <1>4, <1>5, <1>6, <1>7 DEF IInv, Runs

LEMMA FinishedKeeps ==
  ASSUME IInv, Complete \/ NoticeCancel
  PROVE  IInv'
<1>0. TypeOK /\ Ids /\ RunOK /\ ReporterOK /\ Named /\ OneMessage /\ Over
    BY DEF IInv, Runs
<1>1. TypeOK'
    BY <1>0, FinishIs, EditIs, FieldTypes, TypesNext, Known
<1>2. Ids'
    BY <1>0, FinishIs, EditIs, FieldTypes, Known DEF Ids, RowType, RepType, TickType
<1>3. RunOK'
    BY <1>0, FinishIs, EditIs, FieldTypes, Known DEF RunOK
<1>4. ReporterOK'
    BY <1>0, FinishIs, EditIs, FieldTypes, Known DEF ReporterOK, RunOK
<1>5. Named'
    BY <1>0, FinishIs, EditIs, FieldTypes, Known DEF Named, RunOK
<1>6. OneMessage'
    BY <1>0, FinishIs, EditIs, FieldTypes, Known, Quiet
       DEF OneMessage, RunOK, ReporterOK, Named, Active
<1>7. Over'
  <2>1. PICK outcome \in Outcomes : row'.status = outcome /\ row'.id = row.id /\ Edit(outcome)
      BY <1>0, FinishIs
  <2>2. /\ run.at # "idle" /\ say["run"] = None /\ late' = (Others # {})
        /\ UNCHANGED <<tick, chat, lost, blind>>
      BY <1>0, FinishIs
  <2> SUFFICES ASSUME Others = {}
               PROVE  Over'
      BY <2>2 DEF Over
  <2>3. ~Active /\ \A q \in Parties : say[q] = None
      BY <2>2, Quiet
  <2>4. rep.busy = None /\ (rep.refused => row.id = 0 \/ blind)
      BY <1>0, <2>2, <2>3, FieldTypes, Known DEF ReporterOK, OneMessage, RepType, Active
  <2>5. \A q \in Parties : q # "run" => say'[q] = None
      BY <1>0, <2>1, <2>3, EditIs, Known
  <2>6. \/ say'["run"] # None /\ say'["run"].text = outcome /\ say'["run"].state = "sent"
        \/ say'["run"] = None /\ rep.refused
      BY <1>0, <2>1, <2>2, <2>4, EditIs, Known
  <2> QED
      BY <2>1, <2>2, <2>3, <2>4, <2>5, <2>6, Known DEF Over, Active
<1> QED
    BY <1>1, <1>2, <1>3, <1>4, <1>5, <1>6, <1>7 DEF IInv, Runs

LEMMA SettleKeeps ==
  ASSUME IInv, Settle
  PROVE  IInv'
<1>0. TypeOK /\ Ids /\ RunOK /\ ReporterOK /\ Named /\ OneMessage /\ Over
    BY DEF IInv, Runs
<1>1. TypeOK'
    BY <1>0, SettleIs, HearIs, FieldTypes, TypesNext, Known
<1>2. Ids'
    BY <1>0, SettleIs, HearIs, FieldTypes, Known DEF Ids, RowType, RepType, TickType
<1>3. RunOK'
    BY <1>0, SettleIs, HearIs, FieldTypes, Known DEF RunOK
<1>4. ReporterOK'
    BY <1>0, SettleIs, HearIs, FieldTypes, Known DEF ReporterOK, RunOK
<1>5. Named'
    BY <1>0, SettleIs, HearIs, FieldTypes, Known DEF Named, RunOK
<1>6. OneMessage'
    BY <1>0, SettleIs, HearIs, FieldTypes, Known, Quiet
       DEF OneMessage, RunOK, ReporterOK, Named, Active
<1>7. Over'
    BY <1>0, SettleIs, HearIs, FieldTypes, Known, Quiet DEF Over, RunOK, ReporterOK, Named, Active,
       OneMessage
<1> QED
    BY <1>1, <1>2, <1>3, <1>4, <1>5, <1>6, <1>7 DEF IInv, Runs

LEMMA FormerHeardKeeps ==
  ASSUME IInv, FormerHeard
  PROVE  IInv'
<1>0. TypeOK /\ Ids /\ RunOK /\ ReporterOK /\ Named /\ OneMessage /\ Over
    BY DEF IInv, Runs
<1>1. TypeOK'
    BY <1>0, FormerHeardIs, HearIs, FieldTypes, TypesNext, Known
<1>2. Ids'
    BY <1>0, FormerHeardIs, HearIs, FieldTypes, Known DEF Ids, RowType, RepType, TickType
<1>3. RunOK'
    BY <1>0, FormerHeardIs, HearIs, FieldTypes, Known DEF RunOK
<1>4. ReporterOK'
    BY <1>0, FormerHeardIs, HearIs, FieldTypes, Known DEF ReporterOK, RunOK
<1>5. Named'
    BY <1>0, FormerHeardIs, HearIs, FieldTypes, Known DEF Named, RunOK
<1>6. OneMessage'
    BY <1>0, FormerHeardIs, HearIs, FieldTypes, Known, Quiet
       DEF OneMessage, RunOK, ReporterOK, Named, Active
<1>7. Over'
    BY <1>0, FormerHeardIs, HearIs, FieldTypes, Known, Quiet DEF Over, RunOK, ReporterOK, Named,
       Active, OneMessage
<1> QED
    BY <1>1, <1>2, <1>3, <1>4, <1>5, <1>6, <1>7 DEF IInv, Runs

LEMMA FailForNowKeeps ==
  ASSUME IInv, FailForNow
  PROVE  IInv'
<1>0. TypeOK /\ Ids /\ RunOK /\ ReporterOK /\ Named /\ OneMessage /\ Over
    BY DEF IInv, Runs
<1>1. TypeOK'
    BY <1>0, FailForNowIs, FieldTypes, TypesNext, Known
<1>2. Ids'
    BY <1>0, FailForNowIs, FieldTypes, Known DEF Ids, RowType, RepType, TickType
<1>3. RunOK'
    BY <1>0, FailForNowIs, FieldTypes, Known DEF RunOK
<1>4. ReporterOK'
    BY <1>0, FailForNowIs, FieldTypes, Known DEF ReporterOK, RunOK
<1>5. Named'
    BY <1>0, FailForNowIs, FieldTypes, Known DEF Named, RunOK
<1>6. OneMessage'
    BY <1>0, FailForNowIs, FieldTypes, Known, Quiet DEF OneMessage, RunOK, ReporterOK, Named, Active
<1>7. Over'
    BY <1>0, FailForNowIs, FieldTypes, Known, Quiet
       DEF Over, RunOK, ReporterOK, Named, Active, OneMessage
<1> QED
    BY <1>1, <1>2, <1>3, <1>4, <1>5, <1>6, <1>7 DEF IInv, Runs

LEMMA FailForGoodKeeps ==
  ASSUME IInv, FailForGood
  PROVE  IInv'
<1>0. TypeOK /\ Ids /\ RunOK /\ ReporterOK /\ Named /\ OneMessage /\ Over
    BY DEF IInv, Runs
<1>1. TypeOK'
    BY <1>0, FailForGoodIs, FieldTypes, TypesNext, Known
<1>2. Ids'
    BY <1>0, FailForGoodIs, FieldTypes, Known DEF Ids, RowType, RepType, TickType
<1>3. RunOK'
    BY <1>0, FailForGoodIs, FieldTypes, Known DEF RunOK
<1>4. ReporterOK'
    BY <1>0, FailForGoodIs, FieldTypes, Known DEF ReporterOK, RunOK
<1>5. Named'
    BY <1>0, FailForGoodIs, FieldTypes, Known DEF Named, RunOK
<1>6. OneMessage'
  <2>1. /\ blind' = (blind \/ Blind) /\ run.at # "idle" /\ run'.at = "idle" /\ row'.id = row.id
        /\ rep' = rep /\ tick' = tick
        /\ \A q \in Parties : q # "failure" => say'[q] = say[q]
        /\ say'["failure"].msg = row.id /\ say'["failure"].text = "FAILED"
      BY <1>0, FailForGoodIs
  <2> SUFFICES ASSUME ~blind, ~Blind
               PROVE  OneMessage'
      BY <2>1 DEF OneMessage
  <2>2. row.id = 0 => ~Active /\ \A q \in Parties \ {"run"} : say[q] = None
      BY Quiet
  <2>3. /\ Active /\ tick.own => rep.id = row.id
        /\ Active /\ ~tick.own => tick.id = row.id /\ row.id # 0
        /\ \A p \in Parties : say[p] # None /\ say[p].state = "sent" => say[p].msg = row.id
        /\ say["bot"] # None => say["bot"].text # "received"
      BY <1>0, <2>1 DEF OneMessage
  <2> QED
      BY <2>1, <2>2, <2>3, Known DEF OneMessage, Active
<1>7. Over'
  <2>1. /\ say["run"] = None /\ late' = (Others # {}) /\ row'.status = "FAILED" /\ tick' = tick
        /\ \A q \in Parties : q # "failure" => say'[q] = say[q]
        /\ say'["failure"] # None /\ say'["failure"].text = "FAILED" /\ say'["failure"].state = "sent"
      BY <1>0, FailForGoodIs
  <2> SUFFICES ASSUME Others = {}
               PROVE  Over'
      BY <2>1 DEF Over
  <2>2. ~Active /\ \A q \in Parties : say[q] = None
      BY <2>1, Quiet
  <2>3. \A q \in Parties : q # "failure" => say'[q] = None
      BY <2>1, <2>2
  <2> QED
      BY <2>1, <2>2, <2>3, Known DEF Over, Active
<1> QED
    BY <1>1, <1>2, <1>3, <1>4, <1>5, <1>6, <1>7 DEF IInv, Runs

LEMMA TickStartKeeps ==
  ASSUME IInv, TickStart
  PROVE  IInv'
<1>0. TypeOK /\ Ids /\ RunOK /\ ReporterOK /\ Named /\ OneMessage /\ Over
    BY DEF IInv, Runs
<1>1. TypeOK'
    BY <1>0, TickStartIs, FieldTypes, TypesNext, Known
<1>2. Ids'
    BY <1>0, TickStartIs, FieldTypes, Known DEF Ids, RowType, RepType, TickType
<1>3. RunOK'
    BY <1>0, TickStartIs, FieldTypes, Known DEF RunOK
<1>4. ReporterOK'
    BY <1>0, TickStartIs, FieldTypes, Known DEF ReporterOK, RunOK, Active
<1>5. Named'
    BY <1>0, TickStartIs, FieldTypes, Known DEF Named, RunOK
<1>6. OneMessage'
    BY <1>0, TickStartIs, FieldTypes, Known, Quiet DEF OneMessage, RunOK, ReporterOK, Named, Active
<1>7. Over'
    BY <1>0, TickStartIs, FieldTypes, Known, Quiet
       DEF Over, RunOK, ReporterOK, Named, Active, OneMessage
<1> QED
    BY <1>1, <1>2, <1>3, <1>4, <1>5, <1>6, <1>7 DEF IInv, Runs

LEMMA TickEditKeeps ==
  ASSUME IInv, TickEdit
  PROVE  IInv'
<1>0. TypeOK /\ Ids /\ RunOK /\ ReporterOK /\ Named /\ OneMessage /\ Over
    BY DEF IInv, Runs
<1>1. TypeOK'
    BY <1>0, TickEditIs, FieldTypes, TypesNext, Known
<1>2. Ids'
    BY <1>0, TickEditIs, FieldTypes, Known DEF Ids, RowType, RepType, TickType
<1>3. RunOK'
    BY <1>0, TickEditIs, FieldTypes, Known DEF RunOK
<1>4. ReporterOK'
    BY <1>0, TickEditIs, FieldTypes, Known DEF ReporterOK, RunOK
<1>5. Named'
    BY <1>0, TickEditIs, FieldTypes, Known DEF Named, RunOK
<1>6. OneMessage'
    BY <1>0, TickEditIs, FieldTypes, Known, Quiet DEF OneMessage, RunOK, ReporterOK, Named, Active
<1>7. Over'
    BY <1>0, TickEditIs, FieldTypes, Known, Quiet
       DEF Over, RunOK, ReporterOK, Named, Active, OneMessage
<1> QED
    BY <1>1, <1>2, <1>3, <1>4, <1>5, <1>6, <1>7 DEF IInv, Runs

LEMMA TickHeardKeeps ==
  ASSUME IInv, TickHeard
  PROVE  IInv'
<1>0. TypeOK /\ Ids /\ RunOK /\ ReporterOK /\ Named /\ OneMessage /\ Over
    BY DEF IInv, Runs
<1>1. TypeOK'
    BY <1>0, TickHeardIs, HearIs, HeardIs, LearntIs, FieldTypes, TypesNext, Known
<1>2. Ids'
  <2>1. CASE tick.own
    <3>1. /\ chat' = chat /\ tick'.id <= Len(chat) /\ rep'.id <= Len(chat)
          /\ row'.id \in {row.id, rep'.id}
        BY <1>0, <2>1, TickHeardIs, HeardIs
    <3>2. say'["tick"] = None /\ \A q \in Parties : q # "tick" => say'[q] = say[q]
        BY <1>0, TickHeardIs, HearIs, Known
    <3> QED
        BY <1>0, <3>1, <3>2 DEF Ids
  <2>2. CASE ~tick.own
    <3>1. rep' = rep /\ row' = row /\ chat' = chat /\ tick'.id <= Len(chat)
        BY <1>0, <2>2, TickHeardIs
    <3>2. say'["tick"] = None /\ \A q \in Parties : q # "tick" => say'[q] = say[q]
        BY <1>0, TickHeardIs, HearIs, Known
    <3> QED
        BY <1>0, <3>1, <3>2 DEF Ids
  <2> QED
      BY <2>1, <2>2
<1>3. RunOK'
    BY <1>0, TickHeardIs, HearIs, HeardIs, LearntIs, FieldTypes, Known DEF RunOK
<1>4. ReporterOK'
    BY <1>0, TickHeardIs, HearIs, HeardIs, LearntIs, FieldTypes, Known DEF ReporterOK, RunOK
<1>5. Named'
    BY <1>0, TickHeardIs, HearIs, HeardIs, LearntIs, FieldTypes, Known DEF Named, RunOK
<1>6. OneMessage'
  <2> SUFFICES ASSUME ~blind
               PROVE  OneMessage'
      BY <1>0, TickHeardIs DEF OneMessage
  <2>1. /\ blind' = blind /\ say["tick"] # None /\ say["tick"].state # "sent" /\ Active
        /\ say'["tick"] = None /\ \A q \in Parties : q # "tick" => say'[q] = say[q]
        /\ Active' => tick'.own = tick.own
      BY <1>0, TickHeardIs, HearIs, Known DEF Active
  <2>2. /\ run.at # "idle" \/ tick.own => rep.id = row.id
        /\ ~tick.own => tick.id = row.id /\ row.id # 0
        /\ \A p \in Parties : say[p] # None /\ say[p].state = "sent" => say[p].msg = row.id
        /\ say["bot"] # None => say["bot"].text # "received"
        /\ row.id = 0 => say["failure"] = None
      BY <1>0, <2>1, Known DEF OneMessage
  <2>3. CASE tick.own
    <3>1. /\ run'.at = run.at /\ (row.id # 0 => row'.id = row.id)
          /\ rep'.id = row'.id
        BY <1>0, <2>1, <2>2, <2>3, TickHeardIs, HeardIs, FieldTypes DEF Named, RepType, RowType
    <3>2. CASE row.id # 0
        BY <2>1, <2>2, <2>3, <3>1, <3>2, Known DEF OneMessage, Active
    <3>3. CASE row.id = 0
      <4>1. say["run"] = None
          BY <1>0, <2>1, <2>3 DEF ReporterOK
      <4>2. say["former"] = None
        <5>1. tick.at = "editing" /\ rep.busy = "tick"
            BY <1>0, <2>1, <2>3 DEF ReporterOK
        <5> QED
            BY <1>0, <3>3, <5>1 DEF OneMessage
      <4>3. \A q \in Parties : say'[q] = None
          BY <1>0, <2>1, <2>2, <3>3, <4>1, <4>2, Known DEF Named
      <4> QED
          BY <2>1, <2>3, <3>1, <4>3, Known DEF OneMessage, Active
    <3> QED
        BY <3>2, <3>3
  <2>4. CASE ~tick.own
    <3>1. rep' = rep /\ row' = row /\ run' = run
        BY <1>0, <2>4, TickHeardIs
    <3>2. Active' => tick'.id = row.id
        BY <1>0, <2>2, <2>4, TickHeardIs DEF Learnt, Active
    <3> QED
        BY <2>1, <2>2, <2>4, <3>1, <3>2, Known DEF OneMessage, Active
  <2> QED
      BY <2>3, <2>4
<1>7. Over'
    BY <1>0, TickHeardIs, HearIs, HeardIs, LearntIs, FieldTypes, Known, Quiet DEF Over, RunOK,
       ReporterOK, Named, Active, OneMessage
<1> QED
    BY <1>1, <1>2, <1>3, <1>4, <1>5, <1>6, <1>7 DEF IInv, Runs

LEMMA CancelKeeps ==
  ASSUME IInv, Cancel
  PROVE  IInv'
<1>0. TypeOK /\ Ids /\ RunOK /\ ReporterOK /\ Named /\ OneMessage /\ Over
    BY DEF IInv, Runs
<1>1. TypeOK'
    BY <1>0, CancelIs, FieldTypes, TypesNext, Known
<1>2. Ids'
    BY <1>0, CancelIs, FieldTypes, Known DEF Ids, RowType, RepType, TickType
<1>3. RunOK'
    BY <1>0, CancelIs, FieldTypes, Known DEF RunOK
<1>4. ReporterOK'
    BY <1>0, CancelIs, FieldTypes, Known DEF ReporterOK, RunOK
<1>5. Named'
    BY <1>0, CancelIs, FieldTypes, Known DEF Named, RunOK
<1>6. OneMessage'
    BY <1>0, CancelIs, FieldTypes, Known, Quiet DEF OneMessage, RunOK, ReporterOK, Named, Active
<1>7. Over'
  <2>1. CASE row'.status \notin Outcomes
      BY <2>1 DEF Over
  <2>2. CASE row'.status \in Outcomes
    <3>1. /\ row'.status = "CANCELLED" /\ job.status # "active" /\ late' = (Others # {})
          /\ row'.id = row.id /\ tick' = tick
          /\ \A q \in Parties : q # "cancel" => say'[q] = say[q]
          /\ row.id = 0 => say' = say
          /\ row.id # 0 => /\ say'["cancel"] # None /\ say'["cancel"].text = "CANCELLED"
                           /\ say'["cancel"].state = "sent"
        BY <1>0, <2>2, CancelIs
    <3> SUFFICES ASSUME Others = {}
                 PROVE  Over'
        BY <3>1 DEF Over
    <3>2. ~Active /\ \A q \in Parties : say[q] = None
        BY <1>0, <3>1, Quiet, Known DEF RunOK
    <3> QED
        BY <3>1, <3>2, Known DEF Over, Active
  <2> QED
      BY <2>1, <2>2
<1> QED
    BY <1>1, <1>2, <1>3, <1>4, <1>5, <1>6, <1>7 DEF IInv, Runs

LEMMA RetryKeeps ==
  ASSUME IInv, Retry
  PROVE  IInv'
<1>0. TypeOK /\ Ids /\ RunOK /\ ReporterOK /\ Named /\ OneMessage /\ Over
    BY DEF IInv, Runs
<1>1. TypeOK'
    BY <1>0, RetryIs, FieldTypes, TypesNext, Known
<1>2. Ids'
    BY <1>0, RetryIs, FieldTypes, Known DEF Ids, RowType, RepType, TickType
<1>3. RunOK'
    BY <1>0, RetryIs, FieldTypes, Known DEF RunOK
<1>4. ReporterOK'
    BY <1>0, RetryIs, FieldTypes, Known DEF ReporterOK, RunOK
<1>5. Named'
    BY <1>0, RetryIs, FieldTypes, Known DEF Named, RunOK
<1>6. OneMessage'
    BY <1>0, RetryIs, FieldTypes, Known, Quiet DEF OneMessage, RunOK, ReporterOK, Named, Active
<1>7. Over'
    BY <1>0, RetryIs, FieldTypes, Known, Quiet DEF Over, RunOK, ReporterOK, Named, Active, OneMessage
<1> QED
    BY <1>1, <1>2, <1>3, <1>4, <1>5, <1>6, <1>7 DEF IInv, Runs

LEMMA RestartKeeps ==
  ASSUME IInv, Restart
  PROVE  IInv'
<1>0. TypeOK /\ Ids /\ RunOK /\ ReporterOK /\ Named /\ OneMessage /\ Over
    BY DEF IInv, Runs
<1>1. TypeOK'
    BY <1>0, RestartIs, FieldTypes, TypesNext, Known
<1>2. Ids'
    BY <1>0, RestartIs, FieldTypes, Known DEF Ids, RowType, RepType, TickType
<1>3. RunOK'
    BY <1>0, RestartIs, FieldTypes, Known DEF RunOK
<1>4. ReporterOK'
    BY <1>0, RestartIs, FieldTypes, Known DEF ReporterOK, RunOK
<1>5. Named'
    BY <1>0, RestartIs, FieldTypes, Known DEF Named, RunOK
<1>6. OneMessage'
    BY <1>0, RestartIs, FieldTypes, Known, Quiet DEF OneMessage, RunOK, ReporterOK, Named, Active
<1>7. Over'
  <2>1. /\ tick'.at = "idle" /\ (\A q \in OfWorker : say'[q] = None) /\ row'.id = row.id
        /\ say'["bot"] = say["bot"] /\ say'["cancel"] = say["cancel"]
        /\ row'.status = IF row.status = "WORKING" THEN "QUEUED" ELSE row.status
        /\ lost' = (lost \/ \E p \in OfWorker : say[p] # None /\ say[p].text \in Outcomes)
        /\ UNCHANGED <<chat, late, blind>>
      BY <1>0, RestartIs
  <2> SUFFICES ASSUME row'.status \in Outcomes, ~late
               PROVE  Over'
      BY <2>1 DEF Over
  <2>2. row.status \in Outcomes /\ row'.status = row.status
      BY <2>1, Known
  <2>3. /\ say["bot"] = None
        /\ \A q \in Parties : say[q] # None => say[q].text = row.status
        /\ \/ row.id = 0 \/ lost \/ blind \/ chat[row.id] = row.status
           \/ \E p \in Parties : say[p] # None /\ say[p].state = "sent"
      BY <1>0, <2>2 DEF Over
  <2>4. \A q \in Parties : say'[q] = None \/ (q = "cancel" /\ say'[q] = say[q])
      BY <2>1, <2>3, Known
  <2>5. ASSUME NEW p \in Parties, say[p] # None, say[p].state = "sent"
        PROVE  lost' \/ \E q \in Parties : say'[q] # None /\ say'[q].state = "sent"
    <3>1. say[p].text \in Outcomes
        BY <2>2, <2>3, <2>5
    <3>2. CASE p \in OfWorker
        BY <2>1, <2>5, <3>1, <3>2
    <3>3. CASE p \notin OfWorker
        BY <2>1, <2>3, <2>5, <3>3, Known
    <3> QED
        BY <3>2, <3>3
  <2>6. \/ row'.id = 0 \/ lost' \/ blind' \/ chat'[row'.id] = row'.status
        \/ \E p \in Parties : say'[p] # None /\ say'[p].state = "sent"
      BY <2>1, <2>2, <2>3, <2>5
  <2>7. ~Active' /\ say'["bot"] = None /\ say'["sweep"] = None
        /\ \A p \in Parties : say'[p] # None => say'[p].text = row'.status
      BY <2>1, <2>2, <2>3, <2>4, Known DEF Active
  <2> QED
      BY <2>6, <2>7 DEF Over
<1> QED
    BY <1>1, <1>2, <1>3, <1>4, <1>5, <1>6, <1>7 DEF IInv, Runs

LEMMA StutterKeeps ==
  ASSUME IInv, UNCHANGED vars
  PROVE  IInv'
<1>1. UNCHANGED <<row, job, run, rep, tick, say, chat, events, late, lost, blind>>
    BY DEF vars, ghosts
<1>2. TypeOK'
    BY <1>1 DEF IInv, TypeOK
<1>3. Ids' /\ Runs'
    BY <1>1 DEF IInv, Ids, Runs, RunOK, ReporterOK, Named
<1>4. OneMessage' /\ Over'
    BY <1>1 DEF IInv, OneMessage, Over, Active
<1> QED
    BY <1>2, <1>3, <1>4 DEF IInv

-----------------------------------------------------------------------------
(* The theorems *)

\* Before anything has happened, the bot alone has a request out, for a message nobody has.
LEMMA InitIInv == Init => IInv
<1> SUFFICES ASSUME Init PROVE IInv
    OBVIOUS
<1>1. /\ row \in RowType /\ row.status = "QUEUED" /\ row.id = 0
      /\ job \in JobType /\ job.status = "pending"
      /\ run \in RunType /\ run.at = "idle" /\ ~run.known
      /\ rep \in RepType /\ rep.id = 0 /\ rep.busy = None /\ ~rep.refused
      /\ tick \in TickType /\ tick.at = "idle" /\ tick.id = 0 /\ tick.own
    BY Bounds DEF Init, NoRun, NoReporter, NoTick, RowType, JobType, RunType, RepType, TickType
<1>2. /\ Request(0, "received") \in Requests /\ Request(0, "received") # None
      /\ Request(0, "received").msg = 0 /\ Request(0, "received").text = "received"
      /\ Request(0, "received").state = "sent"
    BY Asked, Known
<1>3. PICK r \in Requests : r = Request(0, "received")
    BY <1>2
<1>4. say = [p \in Parties |-> IF p = "bot" THEN r ELSE None]
    BY <1>3 DEF Init
<1>5. say \in SayType /\ say["bot"] = r /\ \A p \in Parties : p # "bot" => say[p] = None
    BY <1>4, Known DEF SayType
<1>6. chat \in Seq(Texts) /\ Len(chat) = 0 /\ events \in EventsType /\ ~late /\ ~lost /\ ~blind
    BY Bounds DEF Init, EventsType
<1>7. late \in BOOLEAN /\ lost \in BOOLEAN /\ blind \in BOOLEAN
    BY DEF Init
<1>8. TypeOK
    BY <1>1, <1>5, <1>6, <1>7, FieldTypes
<1>9. Ids
    BY <1>1, <1>2, <1>3, <1>5, <1>6 DEF Ids
<1>10. Runs
    BY <1>1, <1>2, <1>3, <1>5, <1>6, Known DEF Runs, RunOK, ReporterOK, Named
<1>11. OneMessage /\ Over
    BY <1>1, <1>2, <1>3, <1>5, <1>6, Known DEF OneMessage, Over, Active
<1> QED
    BY <1>8, <1>9, <1>10, <1>11 DEF IInv

\* The inductive invariant holds in every state.
THEOREM Invariance == Spec => []IInv
<1>1. IInv /\ [Next]_vars => IInv'
  <2> SUFFICES ASSUME IInv, [Next]_vars PROVE IInv'
      OBVIOUS
  <2>1. ASSUME NEW p \in Parties, Apply(p) PROVE IInv'
      BY <2>1, ApplyKeeps
  <2>2. ASSUME NEW p \in Parties, Lose(p) PROVE IInv'
      BY <2>2, LoseKeeps
  <2>3. CASE RecordReceipt \/ Sweep
      BY <2>3, RecordReceiptKeeps, SweepKeeps
  <2>4. CASE Claim \/ StartFetch \/ SetStage \/ StageHeard
      BY <2>4, ClaimKeeps, StageKeeps, StageHeardKeeps
  <2>5. CASE Complete \/ NoticeCancel \/ Settle \/ FailForNow \/ FailForGood
      BY <2>5, FinishedKeeps, SettleKeeps, FailForNowKeeps, FailForGoodKeeps
  <2>6. CASE TickStart \/ TickEdit \/ TickHeard \/ FormerHeard
      BY <2>6, TickStartKeeps, TickEditKeeps, TickHeardKeeps, FormerHeardKeeps
  <2>7. CASE Cancel \/ Retry \/ Restart
      BY <2>7, CancelKeeps, RetryKeeps, RestartKeeps
  <2>8. CASE UNCHANGED vars
      BY <2>8, StutterKeeps
  <2> QED
      BY <2>1, <2>2, <2>3, <2>4, <2>5, <2>6, <2>7, <2>8 DEF Next
<1> QED
    BY InitIInv, <1>1, PTL DEF Spec

\* The row, its job, the run, its reporter and every request are of their types.
THEOREM TypeCorrect == Spec => []TypeOK
<1>1. IInv => TypeOK
    BY DEF IInv
<1> QED
    BY <1>1, Invariance, PTL

\* Once nobody is writing, the message of an upload that ended announces its outcome, unless
\* another party was in the middle of an edit when it ended, an announcement was lost or two
\* parties have sent a message each (setText and flush of src/services/notifier.ts, handleJob of
\* src/worker/index.ts, handleIncomingFile of src/bot/index.ts).
THEOREM OutcomeIsAnnounced == Spec => []LastWord
<1>1. IInv => LastWord
  <2> SUFFICES ASSUME IInv, row.status \in Outcomes, Others = {}, run.at = "idle", row.id # 0,
                      ~late, ~lost, ~blind
               PROVE  chat[row.id] = row.status
      BY DEF LastWord
  <2>1. \A p \in Parties : p # "run" => say[p] = None
      BY Quiet
  <2>2. say["run"] = None
      BY DEF IInv, Runs, RunOK
  <2>3. \A p \in Parties : say[p] = None
      BY <2>1, <2>2
  <2> QED
      BY <2>3 DEF IInv, Over
<1> QED
    BY <1>1, Invariance, PTL

\* A message is sent only while the upload has none, through retries and restarts, unless two
\* parties found none at the same time (write and publish of src/services/notifier.ts, and the
\* receipt of src/bot/index.ts).
THEOREM OneUploadOneMessage == Spec => OneChatEntry
<1>1. IInv /\ [Next]_vars => [Len(chat') > Len(chat) => row.id = 0 \/ blind]_vars
  <2> SUFFICES ASSUME IInv, [Next]_vars, Len(chat') > Len(chat), ~blind
               PROVE  row.id = 0
      OBVIOUS
  <2>1. TypeOK /\ Ids /\ RunOK /\ OneMessage /\ Len(chat) \in Nat
      BY FieldTypes DEF IInv, Runs
  <2>2. ASSUME NEW p \in Parties, Apply(p) PROVE row.id = 0
    <3>1. say[p] # None /\ say[p].state = "sent"
        BY <2>1, <2>2, ApplyIs
    <3>2. say[p].msg = 0
        BY <2>1, <2>2, ApplyIs
    <3> QED
        BY <2>1, <3>1, <3>2 DEF OneMessage
  <2>3. chat' = chat => FALSE
      BY <2>1
  <2>4. ASSUME NEW p \in Parties, Lose(p) PROVE row.id = 0
      BY <2>3, <2>4 DEF Lose
  <2>5. CASE \/ RecordReceipt \/ Sweep \/ Claim \/ StartFetch \/ SetStage \/ StageHeard
             \/ Complete \/ NoticeCancel
      BY <2>3, <2>5 DEF RecordReceipt, Sweep, Claim, StartFetch, SetStage, StageHeard, Complete,
                        NoticeCancel, Finish
  <2>6. CASE \/ Settle \/ FormerHeard \/ FailForNow \/ FailForGood \/ TickStart \/ TickEdit \/ TickHeard
             \/ Cancel \/ Retry \/ Restart \/ UNCHANGED vars
      BY <2>3, <2>6 DEF Settle, FormerHeard, FailForNow, FailForGood, TickStart, TickEdit,
                        TickHeard, Cancel, Retry, Restart, vars
  <2> QED
      BY <2>2, <2>4, <2>5, <2>6 DEF Next
<1> QED
    BY Invariance, <1>1, PTL DEF Spec, OneChatEntry

-----------------------------------------------------------------------------
(* The Mini App *)

Bodies == [of : {"library", "history"}, kind : {"loading", "grid", "empty", "error"},
           items : Seq(Selections), button : BOOLEAN]

Phone == /\ Pages \in [Types -> Nat]
         /\ Nothing \notin Asks /\ Nothing \notin Transfers /\ Nothing \notin Actings
         /\ Nothing \notin Calls

\* The request r is sent; its answer is heard or dropped.
Takes(r, q) == /\ request[r] = Nothing
               /\ \A s \in Calls : request'[s] = IF s = r THEN q ELSE request[s]
Drops(r) == \A s \in Calls : request'[s] = IF s = r THEN Nothing ELSE request[s]

\* A body is added; the body b becomes w.
Grows(v) == /\ Len(body') = Len(body) + 1
            /\ \A b \in 1..Len(body) : body'[b] = body[b]
            /\ body'[Len(body) + 1] = [of |-> v, kind |-> "loading", items |-> <<>>, button |-> FALSE]
Redraws(b0, w) == /\ Len(body') = Len(body)
                  /\ \A b \in 1..Len(body) : body'[b] = IF b = b0 THEN w ELSE body[b]

LEMMA BodyTypes ==
  ASSUME MiniAppTypeOK
  PROVE /\ Len(body) \in Nat /\ DOMAIN body = 1..Len(body)
        /\ \A b \in 1..Len(body) : body[b] \in Bodies
  <1>1. body \in Seq(Bodies)
    BY DEF MiniAppTypeOK, Bodies
  <1> QED
    BY <1>1, LenProperties, ElementOfSeq

LEMMA AttachedIn ==
  ASSUME MiniAppTypeOK
  PROVE  attached # 0 => attached \in 1..Len(body)
  BY BodyTypes DEF MiniAppTypeOK

LEMMA AskTypes ==
  ASSUME MiniAppTypeOK
  PROVE /\ request \in [Calls -> {Nothing} \cup Asks]
        /\ \A r \in Calls : request[r] # Nothing => request[r] \in Asks
  BY DEF MiniAppTypeOK, Asks

LEMMA AskIs ==
  ASSUME Phone, MiniAppTypeOK, NEW v \in Views, NEW t \in Nat, NEW quiet \in Quietness,
         NEW want \in Selections,
         NEW b \in Nat, NEW app \in BOOLEAN, Ask(v, t, quiet, want, b, app)
  PROVE /\ \E r \in Calls, q \in Asks :
             /\ Takes(r, q) /\ latest' = IF v = "library" THEN r ELSE latest
             /\ q.view = v /\ q.token = t /\ q.quiet = quiet /\ q.status = "asked"
             /\ q.want = want /\ q.body = b /\ (q.appending <=> app)
        /\ request' \in [Calls -> {Nothing} \cup Asks] /\ latest' \in Calls \cup {Nothing}
  <1> DEFINE q == [view |-> v, token |-> t, quiet |-> quiet, status |-> "asked", want |-> want,
                   body |-> b, appending |-> app, active |-> FALSE]
  <1>1. PICK r \in Calls :
          /\ request[r] = Nothing /\ request' = [request EXCEPT ![r] = q]
          /\ latest' = IF v = "library" THEN r ELSE latest
    BY DEF Ask
  <1>2. /\ q.view = v /\ q.token = t /\ q.quiet = quiet /\ q.status = "asked"
        /\ q.want = want /\ q.body = b /\ (q.appending <=> app)
    OBVIOUS
  <1>3. q \in Asks
    BY DEF Asks
  <1> HIDE DEF q
  <1>4. Takes(r, q)
    BY <1>1, AskTypes DEF Takes
  <1>5. request' \in [Calls -> {Nothing} \cup Asks]
    BY <1>1, <1>3, AskTypes
  <1>6. latest' \in Calls \cup {Nothing}
    BY <1>1 DEF MiniAppTypeOK
  <1> QED
    BY <1>1, <1>2, <1>3, <1>4, <1>5, <1>6

LEMMA ForgetIs ==
  ASSUME MiniAppTypeOK, NEW r \in Calls, Forget(r)
  PROVE  Drops(r) /\ request' \in [Calls -> {Nothing} \cup Asks]
  BY AskTypes DEF Forget, Drops

LEMMA NewBodyIs ==
  ASSUME MiniAppTypeOK, NEW v \in {"library", "history"}, NewBody(v)
  PROVE  Grows(v) /\ body' \in Seq(Bodies) /\ attached' = Len(body) + 1 /\ root' = "list"
  <1> DEFINE w == [of |-> v, kind |-> "loading", items |-> <<>>, button |-> FALSE]
  <1>1. body' = Append(body, w) /\ attached' = Len(body) + 1 /\ root' = "list"
    BY DEF NewBody
  <1>2. w \in Bodies
    <2>1. <<>> \in Seq(Selections)
      BY EmptySeq
    <2> QED
      BY <2>1 DEF Bodies
  <1>3. body \in Seq(Bodies)
    BY DEF MiniAppTypeOK, Bodies
  <1> HIDE DEF w
  <1>4. /\ Append(body, w) \in Seq(Bodies) /\ Len(Append(body, w)) = Len(body) + 1
        /\ \A b \in 1..Len(body) : Append(body, w)[b] = body[b]
        /\ Append(body, w)[Len(body) + 1] = w
    BY <1>2, <1>3, AppendProperties
  <1> QED
    BY <1>1, <1>4 DEF Grows, w

LEMMA SetBodyIs ==
  ASSUME MiniAppTypeOK, NEW b0 \in Nat, NEW w \in Bodies, body' = [body EXCEPT ![b0] = w]
  PROVE  Redraws(b0, w) /\ body' \in Seq(Bodies)
  <1>3. body \in Seq(Bodies)
    BY DEF MiniAppTypeOK, Bodies
  <1>1. CASE b0 \in 1..Len(body)
    BY <1>1, <1>3, ExceptSeq DEF Redraws
  <1>2. CASE b0 \notin 1..Len(body)
    <2>1. body' = body
      BY <1>2, <1>3, LenProperties
    <2> QED
      BY <1>2, <1>3, <2>1 DEF Redraws
  <1> QED
    BY <1>1, <1>2

Libraries == [type : Types, offset : Nat, items : Seq(Selections), grid : Nat, body : Nat, more : Nat]

LEMMA FreshLibraryIs ==
  ASSUME Phone, MiniAppTypeOK, NEW t \in Nat, NEW type \in Types, FreshLibrary(t, type)
  PROVE /\ \E r \in Calls, q \in Asks :
             /\ Takes(r, q) /\ latest' = r
             /\ q.view = "library" /\ q.token = t /\ q.quiet = "no" /\ q.status = "asked"
             /\ q.want = [type |-> type, offset |-> 0] /\ q.body = Len(body) + 1 /\ ~q.appending
        /\ request' \in [Calls -> {Nothing} \cup Asks] /\ latest' \in Calls
        /\ Grows("library") /\ body' \in Seq(Bodies) /\ attached' = Len(body) + 1 /\ root' = "list"
        /\ library' \in Libraries /\ library'.type = type /\ library'.offset = 0
        /\ library'.items = <<>> /\ library'.grid = library.grid /\ library'.body = library.body
        /\ library'.more = library.more /\ history' = history
  <1>1. PICK b \in Nat, want \in Selections, app \in BOOLEAN :
          b = Len(body) + 1 /\ want = [type |-> type, offset |-> 0] /\ app = FALSE
    <2>1. Len(body) + 1 \in Nat /\ [type |-> type, offset |-> 0] \in Selections
      BY BodyTypes DEF Selections
    <2> QED
      BY <2>1
  <1>2. /\ Ask("library", t, "no", want, b, app) /\ NewBody("library")
        /\ history' = history
        /\ library' = [library EXCEPT !.type = type, !.offset = 0, !.items = <<>>]
    BY <1>1 DEF FreshLibrary, Ask
  <1>3. "library" \in Views /\ "no" \in Quietness /\ "library" \in {"library", "history"}
    BY DEF Views, Quietness
  <1>4. /\ \E r \in Calls, q \in Asks :
             /\ Takes(r, q) /\ latest' = r
             /\ q.view = "library" /\ q.token = t /\ q.quiet = "no" /\ q.status = "asked"
             /\ q.want = want /\ q.body = b /\ (q.appending <=> app)
        /\ request' \in [Calls -> {Nothing} \cup Asks]
    BY <1>2, <1>3, AskIs
  <1>5. Grows("library") /\ body' \in Seq(Bodies) /\ attached' = Len(body) + 1 /\ root' = "list"
    BY <1>2, <1>3, NewBodyIs
  <1>6. library \in Libraries /\ <<>> \in Seq(Selections)
    BY EmptySeq DEF MiniAppTypeOK, Libraries
  <1>7. /\ library' \in Libraries /\ library'.type = type /\ library'.offset = 0
        /\ library'.items = <<>> /\ library'.grid = library.grid /\ library'.body = library.body
        /\ library'.more = library.more
    BY <1>2, <1>6 DEF Libraries
  <1> QED
    BY <1>1, <1>2, <1>4, <1>5, <1>7

Appends == library.grid # 0 /\ attached = library.grid /\ Shows(attached).kind = "grid"

LEMMA MoreLibraryIs ==
  ASSUME Phone, MiniAppTypeOK, NEW off \in Nat, MoreLibrary(off)
  PROVE /\ \E r \in Calls, q \in Asks :
             /\ Takes(r, q) /\ latest' = r
             /\ q.view = "library" /\ q.token = token /\ q.quiet = "no" /\ q.status = "asked"
             /\ q.want = [type |-> library.type, offset |-> off]
             /\ q.body = (IF Appends THEN library.body ELSE Len(body) + 1) /\ (q.appending <=> Appends)
        /\ request' \in [Calls -> {Nothing} \cup Asks] /\ latest' \in Calls
        /\ body' \in Seq(Bodies)
        /\ Appends => /\ attached' = attached /\ root' = root
                      /\ Redraws(attached, [body[attached] EXCEPT !.button = FALSE])
        /\ ~Appends => Grows("library") /\ attached' = Len(body) + 1 /\ root' = "list"
        /\ library' \in Libraries /\ library'.type = library.type /\ library'.offset = off
        /\ library'.items = library.items /\ library'.grid = library.grid
        /\ library'.body = library.body /\ library'.more = library.more
        /\ history' = history /\ overtaken' = overtaken
  <1>0. library \in Libraries
    BY DEF MiniAppTypeOK, Libraries
  <1>1. PICK b \in Nat, want \in Selections, t \in Nat, app \in BOOLEAN :
          /\ b = (IF Appends THEN library.body ELSE Len(body) + 1)
          /\ want = [type |-> library.type, offset |-> off] /\ t = token /\ app = Appends
    <2>1. PICK app \in BOOLEAN : app = Appends
      BY DEF Appends
    <2>2. PICK b \in Nat : b = (IF Appends THEN library.body ELSE Len(body) + 1)
      BY <1>0, BodyTypes DEF Libraries
    <2>3. PICK want \in Selections : want = [type |-> library.type, offset |-> off]
      BY <1>0 DEF Selections, Libraries
    <2> QED
      BY <2>1, <2>2, <2>3 DEF MiniAppTypeOK
  <1>2. Ask("library", t, "no", want, b, app)
    <2>1. CASE Appends
      <3>1. Ask("library", token, "no", [type |-> library.type, offset |-> off], library.body, TRUE)
        BY <2>1 DEF MoreLibrary, Appends
      <3> QED
        BY <1>1, <2>1, <3>1 DEF Ask
    <2>2. CASE ~Appends
      <3>1. Ask("library", token, "no", [type |-> library.type, offset |-> off], Len(body) + 1, FALSE)
        BY <2>2 DEF MoreLibrary, Appends
      <3> QED
        BY <1>1, <2>2, <3>1 DEF Ask
    <2> QED
      BY <2>1, <2>2
  <1>3. "library" \in Views /\ "no" \in Quietness /\ "library" \in {"library", "history"}
    BY DEF Views, Quietness
  <1>4. /\ \E r \in Calls, q \in Asks :
             /\ Takes(r, q) /\ latest' = r
             /\ q.view = "library" /\ q.token = t /\ q.quiet = "no" /\ q.status = "asked"
             /\ q.want = want /\ q.body = b /\ (q.appending <=> app)
        /\ request' \in [Calls -> {Nothing} \cup Asks]
    BY <1>2, <1>3, AskIs
  <1>5. body' \in Seq(Bodies) /\ (Appends => /\ attached' = attached /\ root' = root
                      /\ Redraws(attached, [body[attached] EXCEPT !.button = FALSE]))
        /\ (~Appends => Grows("library") /\ attached' = Len(body) + 1 /\ root' = "list")
    <2>1. CASE Appends
      <3>1. body' = [body EXCEPT ![attached].button = FALSE] /\ attached' = attached /\ root' = root
        BY <2>1 DEF MoreLibrary, Appends
      <3>2. attached \in 1..Len(body) /\ attached \in Nat
        BY <2>1, BodyTypes DEF MiniAppTypeOK, Appends
      <3>3. PICK w \in Bodies, a \in Nat : w = [body[attached] EXCEPT !.button = FALSE] /\ a = attached
        BY <3>2, BodyTypes DEF Bodies
      <3>4. body' = [body EXCEPT ![a] = w]
        BY <3>1, <3>3
      <3>5. Redraws(a, w) /\ body' \in Seq(Bodies)
        BY <3>4, SetBodyIs
      <3> QED
        BY <2>1, <3>1, <3>3, <3>5 DEF Redraws
    <2>2. CASE ~Appends
      <3>1. NewBody("library")
        BY <2>2 DEF MoreLibrary, Appends
      <3> QED
        BY <1>3, <2>2, <3>1, NewBodyIs
    <2> QED
      BY <2>1, <2>2
  <1>6. /\ library' = [library EXCEPT !.offset = off] /\ history' = history /\ overtaken' = overtaken
    BY DEF MoreLibrary
  <1>7. /\ library' \in Libraries /\ library'.type = library.type /\ library'.offset = off
        /\ library'.items = library.items /\ library'.grid = library.grid
        /\ library'.body = library.body /\ library'.more = library.more
    BY <1>0, <1>6 DEF Libraries
  <1> QED
    BY <1>1, <1>4, <1>5, <1>6, <1>7

LEMMA drawHistoryIs ==
  ASSUME Phone, MiniAppTypeOK, NEW t \in Nat, NEW want \in Selections, drawHistory(t, want)
  PROVE /\ \E r \in Calls, q \in Asks :
             /\ Takes(r, q)
             /\ q.view = "history" /\ q.token = t /\ q.quiet = "no" /\ q.status = "asked"
             /\ q.want = want /\ q.body = Len(body) + 1
        /\ request' \in [Calls -> {Nothing} \cup Asks] /\ latest' = latest
        /\ Grows("history") /\ body' \in Seq(Bodies) /\ attached' = Len(body) + 1 /\ root' = "list"
        /\ library' = library /\ history' = want /\ overtaken' = overtaken
  <1>1. PICK b \in Nat, app \in BOOLEAN : b = Len(body) + 1 /\ app = FALSE
    <2>1. Len(body) + 1 \in Nat
      BY BodyTypes
    <2> QED
      BY <2>1
  <1>2. /\ Ask("history", t, "no", want, b, app) /\ NewBody("history")
        /\ overtaken' = overtaken /\ history' = want /\ library' = library
    BY <1>1 DEF drawHistory, Ask
  <1>3. /\ "history" \in Views /\ "no" \in Quietness
        /\ "history" \in {"library", "history"} /\ "history" # "library"
    BY DEF Views, Quietness
  <1>4. /\ \E r \in Calls, q \in Asks :
             /\ Takes(r, q) /\ latest' = latest
             /\ q.view = "history" /\ q.token = t /\ q.quiet = "no" /\ q.status = "asked"
             /\ q.want = want /\ q.body = b /\ (q.appending <=> app)
        /\ request' \in [Calls -> {Nothing} \cup Asks]
    BY <1>2, <1>3, AskIs
  <1>5. Grows("history") /\ body' \in Seq(Bodies) /\ attached' = Len(body) + 1 /\ root' = "list"
    BY <1>2, <1>3, NewBodyIs
  <1> QED
    BY <1>1, <1>2, <1>4, <1>5

LEMMA HistoryArrivesIs ==
  ASSUME Phone, MiniAppTypeOK, NEW r \in Calls, HistoryArrives(r)
  PROVE \E q \in Asks, w \in Bodies :
          /\ q = request[r] /\ q.view = "history" /\ q.token = token
          /\ w.of = "history" /\ ~w.button /\ w.kind \in {"grid", "empty"}
          /\ w.kind = "grid" => w.items = <<q.want>>
          /\ Redraws(q.body, w) /\ body' \in Seq(Bodies)
  <1>1. PICK q \in Asks : q = request[r]
    BY AskTypes DEF HistoryArrives, Arrived
  <1>2. q.view = "history" /\ q.token = token
    BY <1>1 DEF HistoryArrives, Arrived, Current
  <1>3. q.want \in Selections /\ q.body \in Nat
    BY DEF Asks
  <1>4. PICK items \in Seq(Selections), kind \in {"grid", "empty"} :
          /\ kind = "grid" => items = <<q.want>>
          /\ body' = [body EXCEPT ![q.body] =
                        [of |-> "history", kind |-> kind, items |-> items, button |-> FALSE]]
    <2>1. <<q.want>> \in Seq(Selections) /\ <<>> \in Seq(Selections) /\ <<q.want>> # <<>>
      BY <1>3, EmptySeq
    <2>2. PICK items \in {<<q.want>>, <<>>} :
            body' = [body EXCEPT ![q.body] =
                       [of |-> "history", kind |-> IF items = <<>> THEN "empty" ELSE "grid",
                        items |-> items, button |-> FALSE]]
      BY <1>1 DEF HistoryArrives
    <2>3. PICK kind \in {"grid", "empty"} : kind = IF items = <<>> THEN "empty" ELSE "grid"
      OBVIOUS
    <2>4. kind = "grid" => items = <<q.want>>
      BY <2>2, <2>3
    <2>5. items \in Seq(Selections)
      BY <2>1, <2>2
    <2> QED
      BY <2>2, <2>3, <2>4, <2>5
  <1>5. PICK w \in Bodies :
          w = [of |-> "history", kind |-> kind, items |-> items, button |-> FALSE]
    BY DEF Bodies
  <1>6. body' = [body EXCEPT ![q.body] = w]
    BY <1>4, <1>5
  <1>7. Redraws(q.body, w) /\ body' \in Seq(Bodies)
    BY <1>3, <1>6, SetBodyIs
  <1>8. /\ w.of = "history" /\ ~w.button /\ w.kind \in {"grid", "empty"}
        /\ w.kind = "grid" => w.items = <<q.want>>
    BY <1>4, <1>5
  <1> QED
    BY <1>1, <1>2, <1>7, <1>8

LEMMA ShowErrorIs ==
  ASSUME Phone, MiniAppTypeOK, NEW r \in Calls, ShowError(r)
  PROVE \E q \in Asks :
          /\ q = request[r] /\ q.token = token /\ q.quiet = "no"
          /\ q.view \notin {"library", "history"} => root' = "error" /\ body' = body
          /\ q.view \in {"library", "history"} =>
               /\ root' = root /\ Len(body') = Len(body)
               /\ \A b \in 1..Len(body) :
                    body'[b] = IF b = q.body
                                 THEN [body[b] EXCEPT !.kind = "error", !.items = <<>>, !.button = FALSE]
                                 ELSE body[b]
          /\ body' \in Seq(Bodies)
  <1>1. PICK q \in Asks : q = request[r]
    BY AskTypes DEF ShowError
  <1>2. q.quiet = "no" /\ q.token = token /\ q.body \in Nat
    BY <1>1 DEF ShowError, Current, Asks
  <1>3. CASE q.view \notin {"library", "history"}
    BY <1>1, <1>2, <1>3 DEF ShowError, MiniAppTypeOK, Bodies
  <1>4. CASE q.view \in {"library", "history"}
    <2> DEFINE w == [body[q.body] EXCEPT !.kind = "error", !.items = <<>>, !.button = FALSE]
    <2>1. body' = [body EXCEPT ![q.body] = w] /\ root' = root
      BY <1>1, <1>4 DEF ShowError
    <2>2. CASE q.body \in 1..Len(body)
      <3>1. <<>> \in Seq(Selections)
        BY EmptySeq
      <3>2. w \in Bodies
        BY <2>2, <3>1, BodyTypes DEF Bodies
      <3>3. PICK w1 \in Bodies : w1 = w
        BY <3>2
      <3>4. Redraws(q.body, w1) /\ body' \in Seq(Bodies)
        BY <1>2, <2>1, <3>3, SetBodyIs
      <3> QED
        BY <1>1, <1>2, <1>4, <2>1, <3>3, <3>4 DEF Redraws
    <2>3. CASE q.body \notin 1..Len(body)
      <3>1. body' = body
        <4> HIDE DEF w
        <4>1. body \in Seq(Bodies)
          BY DEF MiniAppTypeOK, Bodies
        <4> QED
          BY <2>1, <2>3, <4>1, LenProperties
      <3>2. body' \in Seq(Bodies)
        BY <3>1 DEF MiniAppTypeOK, Bodies
      <3> QED
        BY <1>1, <1>2, <1>4, <2>1, <2>3, <3>1, <3>2
    <2> QED
      BY <2>2, <2>3
  <1> QED
    BY <1>3, <1>4

LEMMA showIs ==
  ASSUME Phone, MiniAppTypeOK, NEW v \in Views, show(v)
  PROVE /\ view' = v /\ token' = token + 1 /\ timer' = FALSE /\ strayed' = FALSE
        /\ (resumed' <=> expiredOnce)
        /\ v # "upload" => \E r \in Calls, q \in Asks :
             /\ Takes(r, q) /\ q.view = v /\ q.token = token + 1 /\ q.quiet = "no"
        /\ v = "upload" => request' = request /\ root' \in {"done", "disabled"}
        /\ v \in {"library", "history"} => /\ root' = "list" /\ attached' = Len(body') /\ Grows(v)
        /\ v \notin {"library", "history"} => attached' = 0 /\ body' = body
        /\ v \in {"home", "active"} => root' = "loading"
        /\ request' \in [Calls -> {Nothing} \cup Asks] /\ latest' \in Calls \cup {Nothing}
        /\ body' \in Seq(Bodies) /\ library' \in Libraries /\ history' \in Selections
        /\ overtaken' \in BOOLEAN
  <1>1. PICK t \in Nat : t = token + 1
    BY DEF MiniAppTypeOK
  <1>2. /\ view' = v /\ token' = token + 1 /\ timer' = FALSE /\ strayed' = FALSE
        /\ (resumed' <=> expiredOnce)
    BY DEF show, MiniAppTypeOK
  <1>3. CASE v = "library"
    <2>1. PICK type \in Types : type = library.type
      BY DEF MiniAppTypeOK
    <2>2. FreshLibrary(t, type)
      BY <1>1, <1>3, <2>1 DEF show
    <2>a. PICK r \in Calls, q \in Asks :
             /\ Takes(r, q) /\ latest' = r
             /\ q.view = "library" /\ q.token = t /\ q.quiet = "no" /\ q.status = "asked"
             /\ q.want = [type |-> type, offset |-> 0] /\ q.body = Len(body) + 1 /\ ~q.appending
      BY <2>2, FreshLibraryIs
    <2>3. /\ request' \in [Calls -> {Nothing} \cup Asks] /\ latest' \in Calls
          /\ Grows("library") /\ body' \in Seq(Bodies) /\ attached' = Len(body) + 1
          /\ root' = "list"
          /\ library' \in Libraries /\ history' = history
      BY <2>2, FreshLibraryIs
    <2>4. overtaken' \in BOOLEAN
      BY <2>2 DEF FreshLibrary, MiniAppTypeOK
    <2> QED
      BY <1>1, <1>2, <1>3, <2>a, <2>3, <2>4 DEF MiniAppTypeOK, Grows
  <1>4. CASE v = "history"
    <2>1. PICK want \in Selections : want = history
      BY DEF MiniAppTypeOK
    <2>2. drawHistory(t, want)
      BY <1>1, <1>4, <2>1 DEF show
    <2>3. /\ \E r \in Calls, q \in Asks :
             /\ Takes(r, q) /\ q.view = "history" /\ q.token = t /\ q.quiet = "no"
          /\ request' \in [Calls -> {Nothing} \cup Asks] /\ latest' = latest
          /\ Grows("history") /\ body' \in Seq(Bodies) /\ attached' = Len(body) + 1
          /\ root' = "list" /\ library' = library /\ history' = want /\ overtaken' = overtaken
      BY <2>2, drawHistoryIs
    <2>4. library' \in Libraries
      BY <2>3 DEF MiniAppTypeOK, Libraries
    <2> QED
      BY <1>1, <1>2, <1>4, <2>3, <2>4 DEF MiniAppTypeOK, Grows
  <1>5. CASE v = "upload"
    <2>1. /\ root' \in {"done", "disabled"} /\ attached' = 0
          /\ UNCHANGED <<request, lists, overtaken>>
      BY <1>5 DEF show
    <2>2. library' \in Libraries /\ body' \in Seq(Bodies)
      BY <2>1 DEF MiniAppTypeOK, Libraries, Bodies, lists
    <2>3. request' \in [Calls -> {Nothing} \cup Asks]
      BY <2>1, AskTypes
    <2> QED
      BY <1>1, <1>2, <1>5, <2>1, <2>2, <2>3 DEF MiniAppTypeOK, lists
  <1>6. CASE v \in {"home", "active"}
    <2>1. /\ root' = "loading" /\ attached' = 0 /\ Ask(v, token + 1, "no", NoWant, 0, FALSE)
          /\ UNCHANGED <<library, history, body, overtaken>>
      BY <1>6 DEF show
    <2>2. library.type \in Types /\ NoWant \in Selections
      BY DEF NoWant, MiniAppTypeOK, Selections
    <2>3. PICK want \in Selections, app \in BOOLEAN, b \in Nat : want = NoWant /\ app = FALSE /\ b = 0
      BY <2>2
    <2>4. Ask(v, t, "no", want, b, app) /\ "no" \in Quietness
      BY <1>1, <2>1, <2>3 DEF Ask, Quietness
    <2>5. /\ \E r \in Calls, q \in Asks :
             /\ Takes(r, q) /\ q.view = v /\ q.token = t /\ q.quiet = "no"
          /\ request' \in [Calls -> {Nothing} \cup Asks] /\ latest' \in Calls \cup {Nothing}
      BY <2>4, AskIs
    <2>6. library' \in Libraries /\ body' \in Seq(Bodies)
      BY <2>1 DEF MiniAppTypeOK, Libraries, Bodies
    <2> QED
      BY <1>1, <1>2, <1>6, <2>1, <2>5, <2>6 DEF MiniAppTypeOK
  <1> QED
    BY <1>3, <1>4, <1>5, <1>6 DEF Views

Page(q) == IF q.want.offset < Pages[q.want.type] THEN <<q.want>> ELSE <<>>

LibraryDrawn(q, items, grid) ==
  /\ items = (IF library.offset = 0 THEN Page(q) ELSE library.items \o Page(q))
  /\ grid = (IF q.appending THEN library.grid ELSE q.body)
  /\ Page(q) \in Seq(Selections) /\ body' \in Seq(Bodies) /\ Len(body') = Len(body)
  /\ library' \in Libraries
  /\ library'.type = library.type /\ library'.offset = library.offset /\ library'.items = items
  /\ items = <<>> =>
       /\ library'.grid = library.grid /\ library'.body = library.body
       /\ library'.more = library.more
       /\ \A b \in 1..Len(body) :
            body'[b] = IF b = q.body
                         THEN [body[b] EXCEPT !.kind = "empty", !.items = <<>>, !.button = FALSE]
                         ELSE body[b]
  /\ items # <<>> =>
       /\ library'.grid = grid /\ library'.body = q.body /\ library'.more \in {q.body, 0}
       /\ \A b \in 1..Len(body) :
            /\ body'[b].of = body[b].of
            /\ body'[b].kind = IF b = grid /\ ~q.appending THEN "grid" ELSE body[b].kind
            /\ body'[b].items = IF b # grid THEN body[b].items
                                ELSE IF q.appending THEN body[b].items \o Page(q) ELSE items
            /\ body'[b].button => IF b = q.body THEN Len(items) < Pages[q.want.type]
                                                ELSE body[b].button

LEMMA drawLibraryIs ==
  ASSUME Phone, MiniAppTypeOK, NEW r \in Calls, drawLibrary(r)
  PROVE \E q \in Asks, items \in Seq(Selections), grid \in Nat :
          /\ q = request[r] /\ q.view = "library" /\ q.token = token
          /\ LibraryDrawn(q, items, grid)
  <1>1. PICK q \in Asks : q = request[r]
    BY AskTypes DEF drawLibrary, Arrived
  <1>2. q.view = "library" /\ q.token = token
    BY <1>1 DEF drawLibrary, Arrived, Current
  <1>3. /\ q.want \in Selections /\ q.want.type \in Types /\ q.want.offset \in Nat /\ q.body \in Nat
        /\ q.appending \in BOOLEAN
    BY DEF Asks, Selections
  <1>4. Page(q) \in Seq(Selections)
    BY <1>3, EmptySeq DEF Page
  <1>5. library \in Libraries /\ library.items \in Seq(Selections) /\ library.offset \in Nat
    BY DEF MiniAppTypeOK, Libraries
  <1>6. PICK items \in Seq(Selections) :
          items = IF library.offset = 0 THEN Page(q) ELSE library.items \o Page(q)
    BY <1>4, <1>5, ConcatProperties
  <1>7. PICK grid \in Nat : grid = IF q.appending THEN library.grid ELSE q.body
    BY <1>3, <1>5 DEF Libraries
  <1>8. PICK more \in BOOLEAN : more = (Len(items) < Pages[q.want.type])
    <2> DEFINE full == Len(items) < Pages[q.want.type]
    <2>1. full \in BOOLEAN
      OBVIOUS
    <2> HIDE DEF full
    <2>2. PICK more \in BOOLEAN : more = full
      BY <2>1
    <2> QED
      BY <2>2 DEF full
  <1> DEFINE cleared == [b \in DOMAIN body |->
                           IF q.appending /\ b = library.more THEN [body[b] EXCEPT !.button = FALSE]
                                                              ELSE body[b]]
  <1>9. CASE items = <<>>
    <2>1. /\ body' = [body EXCEPT ![q.body] = [@ EXCEPT !.kind = "empty", !.items = <<>>, !.button = FALSE]]
          /\ library' = [library EXCEPT !.items = items]
      BY <1>1, <1>6, <1>9 DEF drawLibrary, Page
    <2> DEFINE w == [body[q.body] EXCEPT !.kind = "empty", !.items = <<>>, !.button = FALSE]
    <2>2. body' = [body EXCEPT ![q.body] = w]
      BY <2>1
    <2>3. /\ Len(body') = Len(body) /\ body' \in Seq(Bodies)
          /\ \A b \in 1..Len(body) : body'[b] = IF b = q.body THEN w ELSE body[b]
      <3>1. CASE q.body \in 1..Len(body)
        <4>1. <<>> \in Seq(Selections)
          BY EmptySeq
        <4>2. w \in Bodies
          BY <3>1, <4>1, BodyTypes DEF Bodies
        <4>3. PICK w1 \in Bodies : w1 = w
          BY <4>2
        <4> HIDE DEF w
        <4>4. Redraws(q.body, w1) /\ body' \in Seq(Bodies)
          BY <1>3, <2>2, <4>3, SetBodyIs
        <4> QED
          BY <4>3, <4>4 DEF Redraws
      <3>2. CASE q.body \notin 1..Len(body)
        <4> HIDE DEF w
        <4>1. body \in Seq(Bodies)
          BY DEF MiniAppTypeOK, Bodies
        <4>2. body' = body
          BY <2>2, <3>2, <4>1, LenProperties
        <4> QED
          BY <3>2, <4>1, <4>2
      <3> QED
        BY <3>1, <3>2
    <2>4. /\ library' \in Libraries
          /\ library'.type = library.type /\ library'.offset = library.offset
          /\ library'.items = items /\ library'.grid = library.grid
          /\ library'.body = library.body /\ library'.more = library.more
      BY <1>5, <2>1 DEF Libraries
    <2>5. \A b \in 1..Len(body) :
            body'[b] = IF b = q.body
                         THEN [body[b] EXCEPT !.kind = "empty", !.items = <<>>, !.button = FALSE]
                         ELSE body[b]
      BY <2>3
    <2>6. LibraryDrawn(q, items, grid)
      BY <1>4, <1>6, <1>7, <1>9, <2>3, <2>4, <2>5 DEF LibraryDrawn
    <2> QED
      BY <1>1, <1>2, <2>6
  <1>10. CASE items # <<>>
    <2>1. /\ body' = [cleared EXCEPT
               ![grid] = IF q.appending THEN [@ EXCEPT !.items = body[grid].items \o Page(q)]
                                        ELSE [@ EXCEPT !.kind = "grid", !.items = items],
               ![q.body].button = more]
          /\ library' = [library EXCEPT !.items = items, !.grid = grid, !.body = q.body,
                                        !.more = IF more THEN q.body ELSE 0]
      <3> DEFINE its(z) == IF library.offset = 0 THEN Page(z) ELSE library.items \o Page(z)
                 gr(z) == IF z.appending THEN library.grid ELSE z.body
                 cl(z) == [b \in DOMAIN body |->
                             IF z.appending /\ b = library.more THEN [body[b] EXCEPT !.button = FALSE]
                                                                ELSE body[b]]
                 mo(z) == Len(its(z)) < Pages[z.want.type]
                 body1(z) == [cl(z) EXCEPT
                   ![gr(z)] = IF z.appending THEN [@ EXCEPT !.items = body[gr(z)].items \o Page(z)]
                                             ELSE [@ EXCEPT !.kind = "grid", !.items = its(z)],
                   ![z.body].button = mo(z)]
                 library1(z) == [library EXCEPT !.items = its(z), !.grid = gr(z), !.body = z.body,
                                                !.more = IF mo(z) THEN z.body ELSE 0]
      <3>1. its(request[r]) # <<>> => body' = body1(request[r]) /\ library' = library1(request[r])
        BY Zenon DEF drawLibrary, Page
      <3>2. its(q) = items /\ gr(q) = grid /\ cl(q) = cleared /\ mo(q) = more
        BY <1>6, <1>7, <1>8
      <3>3. its(q) # <<>> => body' = body1(q) /\ library' = library1(q)
        <4> HIDE DEF its, body1, library1
        <4> QED
          BY <1>1, <3>1
      <3> HIDE DEF its, gr, cl, mo, cleared
      <3> QED
        BY <1>10, <3>2, <3>3
    <2> DEFINE Filled(w) == IF q.appending THEN [w EXCEPT !.items = body[grid].items \o Page(q)]
                                           ELSE [w EXCEPT !.kind = "grid", !.items = items]
               First(b) == IF b = grid THEN Filled(cleared[b]) ELSE cleared[b]
               Second(b) == IF b = q.body THEN [First(b) EXCEPT !.button = more] ELSE First(b)
    <2>2. DOMAIN body' = 1..Len(body) /\ \A b \in 1..Len(body) : body'[b] = Second(b)
      <3>1. DOMAIN cleared = 1..Len(body)
        BY BodyTypes
      <3> HIDE DEF cleared
      <3> DEFINE one == [cleared EXCEPT
               ![grid] = IF q.appending THEN [@ EXCEPT !.items = body[grid].items \o Page(q)]
                                        ELSE [@ EXCEPT !.kind = "grid", !.items = items]]
      <3>2. DOMAIN one = 1..Len(body) /\ \A b \in 1..Len(body) : one[b] = First(b)
        <4>1. DOMAIN one = 1..Len(body)
          BY <3>1
        <4>2. ASSUME NEW b \in 1..Len(body) PROVE one[b] = First(b)
          <5>1. CASE b = grid
            <6>1. grid \in 1..Len(body) => one[grid] = Filled(cleared[grid])
              BY <3>1
            <6> HIDE DEF one, Filled
            <6> QED
              BY <5>1, <6>1
          <5>2. CASE b # grid
            BY <3>1, <5>2
          <5> QED
            BY <5>1, <5>2
        <4> QED
          BY <4>1, <4>2
      <3>3. body' = [one EXCEPT ![q.body].button = more]
        BY <2>1
      <3> HIDE DEF one, First
      <3>4. DOMAIN body' = 1..Len(body) /\ \A b \in 1..Len(body) : body'[b] = Second(b)
        BY <3>2, <3>3
      <3> QED
        BY <3>4
    <2>3. ASSUME NEW b \in 1..Len(body)
          PROVE  /\ Second(b) \in Bodies
                 /\ Second(b).of = body[b].of
                 /\ Second(b).kind = IF b = grid /\ ~q.appending THEN "grid" ELSE body[b].kind
                 /\ Second(b).items = IF b # grid THEN body[b].items
                                        ELSE IF q.appending THEN body[b].items \o Page(q) ELSE items
                 /\ Second(b).button => IF b = q.body THEN Len(items) < Pages[q.want.type]
                                                      ELSE body[b].button
      <3>1. body[b] \in Bodies /\ b \in DOMAIN body
        BY BodyTypes
      <3>2. PICK w1 \in Bodies :
              w1 = IF q.appending /\ b = library.more THEN [body[b] EXCEPT !.button = FALSE]
                                                      ELSE body[b]
        BY <3>1 DEF Bodies
      <3>3. /\ cleared[b] = w1 /\ w1.of = body[b].of /\ w1.kind = body[b].kind
            /\ w1.items = body[b].items /\ (w1.button => body[b].button)
        BY <3>1, <3>2 DEF Bodies
      <3>4. w1.items \o Page(q) \in Seq(Selections)
        BY <1>4, ConcatProperties DEF Bodies
      <3>5. PICK w2 \in Bodies :
              w2 = IF b = grid THEN Filled(w1) ELSE w1
        <4>1. CASE b # grid
          BY <4>1
        <4>2. CASE b = grid /\ q.appending
          <5>1. body[grid].items \o Page(q) \in Seq(Selections)
            BY <3>3, <3>4, <4>2
          <5>2. [w1 EXCEPT !.items = body[grid].items \o Page(q)] \in Bodies
            BY <5>1 DEF Bodies
          <5> QED
            BY <4>2, <5>2
        <4>3. CASE b = grid /\ ~q.appending
          <5>1. [w1 EXCEPT !.kind = "grid", !.items = items] \in Bodies
            BY DEF Bodies
          <5> QED
            BY <4>3, <5>1
        <4> QED
          BY <4>1, <4>2, <4>3
      <3>6. /\ w2.of = body[b].of
            /\ w2.kind = IF b = grid /\ ~q.appending THEN "grid" ELSE body[b].kind
            /\ w2.items = IF b # grid THEN body[b].items
                          ELSE IF q.appending THEN body[b].items \o Page(q) ELSE items
            /\ w2.button = w1.button
        BY <3>3, <3>5 DEF Bodies
      <3>7. First(b) = w2
        <4> HIDE DEF cleared
        <4> QED
          BY <3>3, <3>5
      <3>8. PICK w3 \in Bodies : w3 = IF b = q.body THEN [w2 EXCEPT !.button = more] ELSE w2
        BY DEF Bodies
      <3>9. /\ w3.of = w2.of /\ w3.kind = w2.kind /\ w3.items = w2.items
            /\ w3.button = IF b = q.body THEN more ELSE w2.button
        BY <3>8 DEF Bodies
      <3>10. Second(b) = w3
        <4> HIDE DEF First
        <4> QED
          BY <3>7, <3>8
      <3> HIDE DEF First, Second, cleared
      <3> QED
        BY <1>8, <3>3, <3>6, <3>9, <3>10
    <2> HIDE DEF Filled, First, Second, cleared
    <2>4. body' \in Seq(Bodies) /\ Len(body') = Len(body)
      <3>1. body' \in [1..Len(body) -> Bodies]
        <4>1. \A b \in 1..Len(body) : body'[b] \in Bodies
          BY <2>2, <2>3
        <4>2. body' = [b \in 1..Len(body) |-> body'[b]]
          BY <2>1, <2>2, BodyTypes DEF cleared
        <4> QED
          BY <4>1, <4>2
      <3> QED
        BY <3>1, BodyTypes
    <2>5. /\ library' \in Libraries
          /\ library'.type = library.type /\ library'.offset = library.offset
          /\ library'.items = items /\ library'.grid = grid
          /\ library'.body = q.body /\ library'.more \in {q.body, 0}
      BY <1>3, <1>5, <2>1 DEF Libraries
    <2>6. /\ \A b \in 1..Len(body) :
                    /\ body'[b].of = body[b].of
                    /\ body'[b].kind = IF b = grid /\ ~q.appending THEN "grid" ELSE body[b].kind
                    /\ body'[b].items = IF b # grid THEN body[b].items
                                        ELSE IF q.appending THEN body[b].items \o Page(q) ELSE items
                    /\ body'[b].button => IF b = q.body THEN Len(items) < Pages[q.want.type]
                                                        ELSE body[b].button
      BY <2>2, <2>3
    <2>7. LibraryDrawn(q, items, grid)
      BY <1>4, <1>6, <1>7, <1>10, <2>4, <2>5, <2>6 DEF LibraryDrawn
    <2> QED
      BY <1>1, <1>2, <2>7
  <1> QED
    BY <1>9, <1>10

LEMMA TypeParts ==
  ASSUME view' \in Views, token' \in Nat, root' \in Roots, timer' \in BOOLEAN,
         request' \in [Calls -> {Nothing} \cup Asks],
         library' \in Libraries, history' \in Selections,
         body' \in Seq(Bodies), attached' \in 0..Len(body'),
         transfer' \in {Nothing} \cup Transfers, sending' \in [Sends -> {"new", "going", "gone"}],
         jump' \in Nat, active' \in BOOLEAN, valid' \in {"ok", "expired", "forbidden"},
         expiredOnce' \in BOOLEAN, resumed' \in BOOLEAN, latest' \in Calls \cup {Nothing},
         overtaken' \in BOOLEAN, acting' \in {Nothing} \cup Actings, strayed' \in BOOLEAN
  PROVE  MiniAppTypeOK'
  BY DEF MiniAppTypeOK, Asks, Libraries, Bodies, Transfers, Actings

LEMMA ShowTypes ==
  ASSUME Phone, MiniAppTypeOK, NEW v \in Views, show(v)
  PROVE /\ view' = v /\ token' = token + 1 /\ timer' = FALSE /\ strayed' = FALSE
        /\ (resumed' <=> expiredOnce) /\ root' \in Roots
        /\ request' \in [Calls -> {Nothing} \cup Asks] /\ latest' \in Calls \cup {Nothing}
        /\ body' \in Seq(Bodies) /\ library' \in Libraries /\ history' \in Selections
        /\ overtaken' \in BOOLEAN /\ attached' \in {0, Len(body')} /\ resumed' \in BOOLEAN
  <1>1. root' \in {"list", "done", "disabled", "loading"} /\ attached' \in {0, Len(body')}
    BY showIs DEF Views
  <1>2. root' \in Roots
    BY <1>1 DEF Roots
  <1>3. resumed' \in BOOLEAN
    BY DEF show, MiniAppTypeOK
  <1> QED
    BY <1>1, <1>2, <1>3, showIs

LEMMA PlainAsk ==
  ASSUME Phone, MiniAppTypeOK, NEW v \in Views, NEW quiet \in Quietness, Ask(v, token, quiet,
         NoWant, 0, FALSE)
  PROVE /\ \E r \in Calls, q \in Asks :
             Takes(r, q) /\ q.view = v /\ q.token = token /\ q.quiet = quiet
        /\ v # "library" => latest' = latest
        /\ request' \in [Calls -> {Nothing} \cup Asks] /\ latest' \in Calls \cup {Nothing}
  <1>1. library.type \in Types /\ NoWant \in Selections
    BY DEF NoWant, MiniAppTypeOK, Selections
  <1>2. PICK t \in Nat, want \in Selections, b \in Nat, app \in BOOLEAN :
          t = token /\ want = NoWant /\ b = 0 /\ app = FALSE
    BY <1>1 DEF MiniAppTypeOK
  <1>3. Ask(v, t, quiet, want, b, app)
    BY <1>2 DEF Ask
  <1>4. /\ \E r \in Calls, q \in Asks :
             /\ Takes(r, q) /\ latest' = IF v = "library" THEN r ELSE latest
             /\ q.view = v /\ q.token = t /\ q.quiet = quiet /\ q.status = "asked"
             /\ q.want = want /\ q.body = b /\ (q.appending <=> app)
        /\ request' \in [Calls -> {Nothing} \cup Asks] /\ latest' \in Calls \cup {Nothing}
    BY <1>3, AskIs
  <1>5. v # "library" => latest' = latest
    BY <1>4
  <1> QED
    BY <1>2, <1>4, <1>5

LEMMA FreshTypes ==
  ASSUME Phone, MiniAppTypeOK, NEW t \in Nat, NEW type \in Types, FreshLibrary(t, type)
  PROVE /\ request' \in [Calls -> {Nothing} \cup Asks] /\ latest' \in Calls \cup {Nothing}
        /\ body' \in Seq(Bodies) /\ library' \in Libraries /\ history' \in Selections
        /\ overtaken' \in BOOLEAN /\ root' \in Roots /\ attached' \in 0..Len(body')
  <1>1. /\ request' \in [Calls -> {Nothing} \cup Asks] /\ latest' \in Calls
        /\ Grows("library") /\ body' \in Seq(Bodies) /\ attached' = Len(body) + 1 /\ root' = "list"
        /\ library' \in Libraries /\ history' = history
    BY FreshLibraryIs
  <1>2. overtaken' \in BOOLEAN /\ "list" \in Roots
    BY DEF FreshLibrary, MiniAppTypeOK, Roots
  <1> QED
    BY <1>1, <1>2, BodyTypes DEF MiniAppTypeOK, Grows

LEMMA MoreTypes ==
  ASSUME Phone, MiniAppTypeOK, NEW off \in Nat, MoreLibrary(off)
  PROVE /\ request' \in [Calls -> {Nothing} \cup Asks] /\ latest' \in Calls \cup {Nothing}
        /\ body' \in Seq(Bodies) /\ library' \in Libraries /\ history' \in Selections
        /\ overtaken' \in BOOLEAN /\ root' \in Roots /\ attached' \in 0..Len(body')
  <1>1. /\ request' \in [Calls -> {Nothing} \cup Asks] /\ latest' \in Calls
        /\ body' \in Seq(Bodies) /\ library' \in Libraries /\ history' = history
        /\ overtaken' = overtaken
    BY MoreLibraryIs
  <1>2. /\ Appends => attached' = attached /\ root' = root /\ Len(body') = Len(body)
        /\ ~Appends => Len(body') = Len(body) + 1 /\ attached' = Len(body) + 1 /\ root' = "list"
    BY MoreLibraryIs DEF Redraws, Grows
  <1> QED
    BY <1>1, <1>2, BodyTypes DEF MiniAppTypeOK, Roots

LEMMA HistoryTypes ==
  ASSUME Phone, MiniAppTypeOK, NEW t \in Nat, NEW want \in Selections, drawHistory(t, want)
  PROVE /\ request' \in [Calls -> {Nothing} \cup Asks] /\ latest' \in Calls \cup {Nothing}
        /\ body' \in Seq(Bodies) /\ library' \in Libraries /\ history' \in Selections
        /\ overtaken' \in BOOLEAN /\ root' \in Roots /\ attached' \in 0..Len(body')
  <1>1. /\ request' \in [Calls -> {Nothing} \cup Asks] /\ latest' = latest
        /\ Grows("history") /\ body' \in Seq(Bodies) /\ attached' = Len(body) + 1 /\ root' = "list"
        /\ library' = library /\ history' = want /\ overtaken' = overtaken
    BY drawHistoryIs
  <1> QED
    BY <1>1, BodyTypes DEF MiniAppTypeOK, Grows, Roots, Libraries

LEMMA LoadMoreIs ==
  ASSUME MiniAppTypeOK, LoadMore
  PROVE  \E off \in Nat : /\ MoreLibrary(off)
                          /\ \/ off = library.offset + 1 /\ Shows(attached).button
                             \/ off = library.offset /\ Shows(attached).kind = "error"
  <1>1. library.offset \in Nat /\ library.offset + 1 \in Nat
    BY DEF MiniAppTypeOK
  <1>2. PICK a \in Nat, b \in Nat : a = library.offset /\ b = library.offset + 1
    BY <1>1
  <1>3. \/ Shows(attached).button /\ MoreLibrary(library.offset + 1)
        \/ Shows(attached).kind = "error" /\ MoreLibrary(library.offset)
    BY DEF LoadMore
  <1>4. CASE Shows(attached).button /\ MoreLibrary(library.offset + 1)
    <2>1. MoreLibrary(b)
      BY <1>2, <1>4 DEF MoreLibrary, Ask
    <2> QED
      BY <1>2, <1>4, <2>1
  <1>5. CASE Shows(attached).kind = "error" /\ MoreLibrary(library.offset)
    <2>1. MoreLibrary(a)
      BY <1>2, <1>5 DEF MoreLibrary, Ask
    <2> QED
      BY <1>2, <1>5, <2>1
  <1> QED
    BY <1>3, <1>4, <1>5

LEMMA PagerIs ==
  ASSUME MiniAppTypeOK, pager
  PROVE  \E t \in Nat, want \in Selections : t = token /\ drawHistory(t, want)
  <1>1. PICK off \in {history.offset - 1, history.offset + 1} :
          off >= 0 /\ drawHistory(token, [history EXCEPT !.offset = off])
    BY DEF pager
  <1>2. history \in Selections /\ history.offset \in Nat
    BY DEF MiniAppTypeOK, Selections
  <1>3. off \in Nat
    BY <1>1, <1>2
  <1>4. PICK want \in Selections, t \in Nat : want = [history EXCEPT !.offset = off] /\ t = token
    BY <1>2, <1>3 DEF Selections, MiniAppTypeOK
  <1>5. drawHistory(t, want)
    BY <1>1, <1>4 DEF drawHistory, Ask
  <1> QED
    BY <1>4, <1>5

LEMMA TypesStep ==
  ASSUME Phone, MiniAppTypeOK, [MiniAppNext]_miniAppVars
  PROVE  MiniAppTypeOK'
  <1>0. CASE UNCHANGED miniAppVars
    BY <1>0 DEF miniAppVars, screen, lists, upload, server, notes, MiniAppTypeOK
  <1>1. ASSUME NEW r \in Calls, Answer(r)
        PROVE  MiniAppTypeOK'
    <2>1. view' \in Views /\ token' \in Nat /\ root' \in Roots /\ timer' \in BOOLEAN
      BY <1>1 DEF Answer, screen, lists, upload, server, notes, MiniAppTypeOK, Roots, Views
    <2>2. request' \in [Calls -> {Nothing} \cup Asks]
      <3>1. PICK q \in Asks : q = request[r]
        BY <1>1, AskTypes DEF Answer
      <3>2. PICK p \in Asks : p = [q EXCEPT !.status = valid, !.active = active]
        BY DEF Asks, MiniAppTypeOK
      <3>3. request' = [request EXCEPT ![r] = p]
        BY <1>1, <3>1, <3>2 DEF Answer
      <3> QED
        BY <3>3, AskTypes
    <2>3. library' \in Libraries /\ history' \in Selections
      BY <1>1 DEF Answer, screen, lists, upload, server, notes, MiniAppTypeOK, Libraries
    <2>4. body' \in Seq(Bodies) /\ attached' \in 0..Len(body')
      BY <1>1 DEF Answer, screen, lists, upload, server, notes, MiniAppTypeOK, Bodies
    <2>5. /\ transfer' \in {Nothing} \cup Transfers
          /\ sending' \in [Sends -> {"new", "going", "gone"}] /\ jump' \in Nat
      BY <1>1 DEF Answer, screen, lists, upload, server, notes, MiniAppTypeOK, Transfers
    <2>6. /\ active' \in BOOLEAN /\ valid' \in {"ok", "expired", "forbidden"}
          /\ expiredOnce' \in BOOLEAN
          /\ resumed' \in BOOLEAN /\ latest' \in Calls \cup {Nothing} /\ overtaken' \in BOOLEAN
          /\ acting' \in {Nothing} \cup Actings /\ strayed' \in BOOLEAN
      BY <1>1 DEF Answer, screen, lists, upload, server, notes, MiniAppTypeOK, Actings
    <2> QED
      BY <2>1, <2>2, <2>3, <2>4, <2>5, <2>6, TypeParts
  <1>2. ASSUME NEW r \in Calls, Discard(r)
        PROVE  MiniAppTypeOK'
    <2>1. view' \in Views /\ token' \in Nat /\ root' \in Roots /\ timer' \in BOOLEAN
      BY <1>2 DEF Discard, screen, lists, upload, server, notes, MiniAppTypeOK, Roots, Views
    <2>2. request' \in [Calls -> {Nothing} \cup Asks]
      <3>1. Forget(r)
        BY <1>2 DEF Discard
      <3> QED
        BY <3>1, ForgetIs
    <2>3. library' \in Libraries /\ history' \in Selections
      BY <1>2 DEF Discard, screen, lists, upload, server, notes, MiniAppTypeOK, Libraries
    <2>4. body' \in Seq(Bodies) /\ attached' \in 0..Len(body')
      BY <1>2 DEF Discard, screen, lists, upload, server, notes, MiniAppTypeOK, Bodies
    <2>5. /\ transfer' \in {Nothing} \cup Transfers
          /\ sending' \in [Sends -> {"new", "going", "gone"}] /\ jump' \in Nat
      BY <1>2 DEF Discard, screen, lists, upload, server, notes, MiniAppTypeOK, Transfers
    <2>6. /\ active' \in BOOLEAN /\ valid' \in {"ok", "expired", "forbidden"}
          /\ expiredOnce' \in BOOLEAN
          /\ resumed' \in BOOLEAN /\ latest' \in Calls \cup {Nothing} /\ overtaken' \in BOOLEAN
          /\ acting' \in {Nothing} \cup Actings /\ strayed' \in BOOLEAN
      BY <1>2 DEF Discard, screen, lists, upload, server, notes, MiniAppTypeOK, Actings
    <2> QED
      BY <2>1, <2>2, <2>3, <2>4, <2>5, <2>6, TypeParts
  <1>3. ASSUME NEW r \in Calls, drawHome(r)
        PROVE  MiniAppTypeOK'
    <2>1. view' \in Views /\ token' \in Nat /\ root' \in Roots /\ timer' \in BOOLEAN
      BY <1>3 DEF drawHome, screen, lists, upload, server, notes, MiniAppTypeOK, Roots, Views
    <2>2. request' \in [Calls -> {Nothing} \cup Asks]
      <3>1. Forget(r)
        BY <1>3 DEF drawHome
      <3> QED
        BY <3>1, ForgetIs
    <2>3. library' \in Libraries /\ history' \in Selections
      BY <1>3 DEF drawHome, screen, lists, upload, server, notes, MiniAppTypeOK, Libraries
    <2>4. body' \in Seq(Bodies) /\ attached' \in 0..Len(body')
      BY <1>3 DEF drawHome, screen, lists, upload, server, notes, MiniAppTypeOK, Bodies
    <2>5. /\ transfer' \in {Nothing} \cup Transfers
          /\ sending' \in [Sends -> {"new", "going", "gone"}] /\ jump' \in Nat
      BY <1>3 DEF drawHome, screen, lists, upload, server, notes, MiniAppTypeOK, Transfers
    <2>6. /\ active' \in BOOLEAN /\ valid' \in {"ok", "expired", "forbidden"}
          /\ expiredOnce' \in BOOLEAN
          /\ resumed' \in BOOLEAN /\ latest' \in Calls \cup {Nothing} /\ overtaken' \in BOOLEAN
          /\ acting' \in {Nothing} \cup Actings /\ strayed' \in BOOLEAN
      BY <1>3 DEF drawHome, screen, lists, upload, server, notes, MiniAppTypeOK, Actings
    <2> QED
      BY <2>1, <2>2, <2>3, <2>4, <2>5, <2>6, TypeParts
  <1>4. ASSUME NEW r \in Calls, drawLibrary(r)
        PROVE  MiniAppTypeOK'
    <2>a. body' \in Seq(Bodies) /\ library' \in Libraries /\ Len(body') = Len(body)
      BY <1>4, drawLibraryIs DEF LibraryDrawn
    <2>1. view' \in Views /\ token' \in Nat /\ root' \in Roots /\ timer' \in BOOLEAN
      BY <1>4 DEF drawLibrary, screen, lists, upload, server, notes, MiniAppTypeOK, Roots, Views
    <2>2. request' \in [Calls -> {Nothing} \cup Asks]
      <3>1. Forget(r)
        BY <1>4 DEF drawLibrary
      <3> QED
        BY <3>1, ForgetIs
    <2>3. library' \in Libraries /\ history' \in Selections
      BY <2>a, <1>4 DEF drawLibrary, screen, lists, upload, server, notes, MiniAppTypeOK
    <2>4. body' \in Seq(Bodies) /\ attached' \in 0..Len(body')
      BY <2>a, <1>4 DEF drawLibrary, screen, lists, upload, server, notes, MiniAppTypeOK
    <2>5. /\ transfer' \in {Nothing} \cup Transfers
          /\ sending' \in [Sends -> {"new", "going", "gone"}] /\ jump' \in Nat
      BY <1>4 DEF drawLibrary, screen, lists, upload, server, notes, MiniAppTypeOK, Transfers
    <2>6. /\ active' \in BOOLEAN /\ valid' \in {"ok", "expired", "forbidden"}
          /\ expiredOnce' \in BOOLEAN
          /\ resumed' \in BOOLEAN /\ latest' \in Calls \cup {Nothing} /\ overtaken' \in BOOLEAN
          /\ acting' \in {Nothing} \cup Actings /\ strayed' \in BOOLEAN
      BY <1>4 DEF drawLibrary, screen, lists, upload, server, notes, MiniAppTypeOK, Actings
    <2> QED
      BY <2>1, <2>2, <2>3, <2>4, <2>5, <2>6, TypeParts
  <1>5. ASSUME NEW r \in Calls, HistoryArrives(r)
        PROVE  MiniAppTypeOK'
    <2>a. body' \in Seq(Bodies) /\ Len(body') = Len(body)
      BY <1>5, HistoryArrivesIs DEF Redraws
    <2>1. view' \in Views /\ token' \in Nat /\ root' \in Roots /\ timer' \in BOOLEAN
      BY <1>5 DEF HistoryArrives, screen, lists, upload, server, notes, MiniAppTypeOK, Roots, Views
    <2>2. request' \in [Calls -> {Nothing} \cup Asks]
      <3>1. Forget(r)
        BY <1>5 DEF HistoryArrives
      <3> QED
        BY <3>1, ForgetIs
    <2>3. library' \in Libraries /\ history' \in Selections
      BY <1>5 DEF HistoryArrives, screen, lists, upload, server, notes, MiniAppTypeOK, Libraries
    <2>4. body' \in Seq(Bodies) /\ attached' \in 0..Len(body')
      BY <2>a, <1>5 DEF HistoryArrives, screen, lists, upload, server, notes, MiniAppTypeOK
    <2>5. /\ transfer' \in {Nothing} \cup Transfers
          /\ sending' \in [Sends -> {"new", "going", "gone"}] /\ jump' \in Nat
      BY <1>5 DEF HistoryArrives, screen, lists, upload, server, notes, MiniAppTypeOK, Transfers
    <2>6. /\ active' \in BOOLEAN /\ valid' \in {"ok", "expired", "forbidden"}
          /\ expiredOnce' \in BOOLEAN
          /\ resumed' \in BOOLEAN /\ latest' \in Calls \cup {Nothing} /\ overtaken' \in BOOLEAN
          /\ acting' \in {Nothing} \cup Actings /\ strayed' \in BOOLEAN
      BY <1>5 DEF HistoryArrives, screen, lists, upload, server, notes, MiniAppTypeOK, Actings
    <2> QED
      BY <2>1, <2>2, <2>3, <2>4, <2>5, <2>6, TypeParts
  <1>6. ASSUME NEW r \in Calls, drawActive(r)
        PROVE  MiniAppTypeOK'
    <2>a. PICK q \in Asks : q = request[r]
      BY <1>6, AskTypes DEF drawActive, Arrived
    <2>b. q.active \in BOOLEAN
      BY DEF Asks
    <2>1. view' \in Views /\ token' \in Nat /\ root' \in Roots /\ timer' \in BOOLEAN
      BY <2>a, <2>b, <1>6 DEF drawActive, screen, lists, upload, server, notes, MiniAppTypeOK, Roots
    <2>2. request' \in [Calls -> {Nothing} \cup Asks]
      <3>1. Forget(r)
        BY <1>6 DEF drawActive
      <3> QED
        BY <3>1, ForgetIs
    <2>3. library' \in Libraries /\ history' \in Selections
      BY <1>6 DEF drawActive, screen, lists, upload, server, notes, MiniAppTypeOK, Libraries
    <2>4. body' \in Seq(Bodies) /\ attached' \in 0..Len(body')
      BY <1>6 DEF drawActive, screen, lists, upload, server, notes, MiniAppTypeOK, Bodies
    <2>5. /\ transfer' \in {Nothing} \cup Transfers
          /\ sending' \in [Sends -> {"new", "going", "gone"}] /\ jump' \in Nat
      BY <1>6 DEF drawActive, screen, lists, upload, server, notes, MiniAppTypeOK, Transfers
    <2>6. /\ active' \in BOOLEAN /\ valid' \in {"ok", "expired", "forbidden"}
          /\ expiredOnce' \in BOOLEAN
          /\ resumed' \in BOOLEAN /\ latest' \in Calls \cup {Nothing} /\ overtaken' \in BOOLEAN
          /\ acting' \in {Nothing} \cup Actings /\ strayed' \in BOOLEAN
      BY <1>6 DEF drawActive, screen, lists, upload, server, notes, MiniAppTypeOK, Actings
    <2> QED
      BY <2>1, <2>2, <2>3, <2>4, <2>5, <2>6, TypeParts
  <1>7. ASSUME NEW r \in Calls, ShowError(r)
        PROVE  MiniAppTypeOK'
    <2>a. body' \in Seq(Bodies) /\ Len(body') = Len(body) /\ root' \in {root, "error"}
      BY <1>7, ShowErrorIs
    <2>1. view' \in Views /\ token' \in Nat /\ root' \in Roots /\ timer' \in BOOLEAN
      BY <2>a, <1>7 DEF ShowError, screen, lists, upload, server, notes, MiniAppTypeOK, Roots
    <2>2. request' \in [Calls -> {Nothing} \cup Asks]
      <3>1. Forget(r)
        BY <1>7 DEF ShowError
      <3> QED
        BY <3>1, ForgetIs
    <2>3. library' \in Libraries /\ history' \in Selections
      BY <1>7 DEF ShowError, screen, lists, upload, server, notes, MiniAppTypeOK, Libraries
    <2>4. body' \in Seq(Bodies) /\ attached' \in 0..Len(body')
      BY <2>a, <1>7 DEF ShowError, screen, lists, upload, server, notes, MiniAppTypeOK
    <2>5. /\ transfer' \in {Nothing} \cup Transfers
          /\ sending' \in [Sends -> {"new", "going", "gone"}] /\ jump' \in Nat
      BY <1>7 DEF ShowError, screen, lists, upload, server, notes, MiniAppTypeOK, Transfers
    <2>6. /\ active' \in BOOLEAN /\ valid' \in {"ok", "expired", "forbidden"}
          /\ expiredOnce' \in BOOLEAN
          /\ resumed' \in BOOLEAN /\ latest' \in Calls \cup {Nothing} /\ overtaken' \in BOOLEAN
          /\ acting' \in {Nothing} \cup Actings /\ strayed' \in BOOLEAN
      BY <1>7 DEF ShowError, screen, lists, upload, server, notes, MiniAppTypeOK, Actings
    <2> QED
      BY <2>1, <2>2, <2>3, <2>4, <2>5, <2>6, TypeParts
  <1>8. ASSUME NEW r \in Calls, KeepList(r)
        PROVE  MiniAppTypeOK'
    <2>1. view' \in Views /\ token' \in Nat /\ root' \in Roots /\ timer' \in BOOLEAN
      BY <1>8 DEF KeepList, screen, lists, upload, server, notes, MiniAppTypeOK, Roots, Views
    <2>2. request' \in [Calls -> {Nothing} \cup Asks]
      <3>1. Forget(r)
        BY <1>8 DEF KeepList
      <3> QED
        BY <3>1, ForgetIs
    <2>3. library' \in Libraries /\ history' \in Selections
      BY <1>8 DEF KeepList, screen, lists, upload, server, notes, MiniAppTypeOK, Libraries
    <2>4. body' \in Seq(Bodies) /\ attached' \in 0..Len(body')
      BY <1>8 DEF KeepList, screen, lists, upload, server, notes, MiniAppTypeOK, Bodies
    <2>5. /\ transfer' \in {Nothing} \cup Transfers
          /\ sending' \in [Sends -> {"new", "going", "gone"}] /\ jump' \in Nat
      BY <1>8 DEF KeepList, screen, lists, upload, server, notes, MiniAppTypeOK, Transfers
    <2>6. /\ active' \in BOOLEAN /\ valid' \in {"ok", "expired", "forbidden"}
          /\ expiredOnce' \in BOOLEAN
          /\ resumed' \in BOOLEAN /\ latest' \in Calls \cup {Nothing} /\ overtaken' \in BOOLEAN
          /\ acting' \in {Nothing} \cup Actings /\ strayed' \in BOOLEAN
      BY <1>8 DEF KeepList, screen, lists, upload, server, notes, MiniAppTypeOK, Actings
    <2> QED
      BY <2>1, <2>2, <2>3, <2>4, <2>5, <2>6, TypeParts
  <1>9. ASSUME NEW r \in Calls, expired(r)
        PROVE  MiniAppTypeOK'
    <2>1. view' \in Views /\ token' \in Nat /\ root' \in Roots /\ timer' \in BOOLEAN
      <3>1. token + 1 \in Nat /\ token' = token + 1
        BY <1>9 DEF expired, MiniAppTypeOK
      <3>2. view' \in {view, "home"} /\ root' \in {"fatal", "loading"} /\ timer' = FALSE
        BY <1>9 DEF expired
      <3> QED
        BY <3>1, <3>2 DEF MiniAppTypeOK, Roots, Views
    <2>2. request' \in [Calls -> {Nothing} \cup Asks]
      <3>1. Forget(r)
        BY <1>9 DEF expired
      <3> QED
        BY <3>1, ForgetIs
    <2>3. library' \in Libraries /\ history' \in Selections
      BY <1>9 DEF expired, screen, lists, upload, server, notes, MiniAppTypeOK, Libraries
    <2>4. body' \in Seq(Bodies) /\ attached' \in 0..Len(body')
      BY BodyTypes, <1>9 DEF expired, screen, lists, upload, server, notes, MiniAppTypeOK, Bodies
    <2>5. /\ transfer' \in {Nothing} \cup Transfers
          /\ sending' \in [Sends -> {"new", "going", "gone"}] /\ jump' \in Nat
      BY <1>9 DEF expired, screen, lists, upload, server, notes, MiniAppTypeOK, Transfers
    <2>6. /\ active' \in BOOLEAN /\ valid' \in {"ok", "expired", "forbidden"}
          /\ expiredOnce' \in BOOLEAN
          /\ resumed' \in BOOLEAN /\ latest' \in Calls \cup {Nothing} /\ overtaken' \in BOOLEAN
          /\ acting' \in {Nothing} \cup Actings /\ strayed' \in BOOLEAN
      BY <1>9 DEF expired, screen, lists, upload, server, notes, MiniAppTypeOK, Actings
    <2> QED
      BY <2>1, <2>2, <2>3, <2>4, <2>5, <2>6, TypeParts
  <1>10. ASSUME NEW r \in Calls, GoHome(r)
        PROVE  MiniAppTypeOK'
    <2>1. view' \in Views /\ token' \in Nat /\ root' \in Roots /\ timer' \in BOOLEAN
      <3>1. token + 1 \in Nat /\ token' = token + 1
        BY <1>10 DEF GoHome, MiniAppTypeOK
      <3>2. view' \in {view, "home"} /\ root' \in {"fatal", "loading"} /\ timer' = FALSE
        BY <1>10 DEF GoHome
      <3> QED
        BY <3>1, <3>2 DEF MiniAppTypeOK, Roots, Views
    <2>2. request' \in [Calls -> {Nothing} \cup Asks]
      <3>1. PICK q \in Asks : q = request[r]
        BY <1>10, AskTypes DEF GoHome
      <3>2. token + 1 \in Nat /\ "home" \in Views /\ "no" \in Quietness
        BY DEF MiniAppTypeOK, Views, Quietness
      <3>3. PICK p \in Asks : p = [q EXCEPT !.view = "home", !.token = token + 1,
                                          !.quiet = "no", !.status = "asked"]
        BY <3>2 DEF Asks
      <3>4. request' = [request EXCEPT ![r] = p]
        BY <1>10, <3>1, <3>3 DEF GoHome
      <3> QED
        BY <3>4, AskTypes
    <2>3. library' \in Libraries /\ history' \in Selections
      BY <1>10 DEF GoHome, screen, lists, upload, server, notes, MiniAppTypeOK, Libraries
    <2>4. body' \in Seq(Bodies) /\ attached' \in 0..Len(body')
      BY <1>10 DEF GoHome, screen, lists, upload, server, notes, MiniAppTypeOK, Bodies
    <2>5. /\ transfer' \in {Nothing} \cup Transfers
          /\ sending' \in [Sends -> {"new", "going", "gone"}] /\ jump' \in Nat
      BY <1>10 DEF GoHome, screen, lists, upload, server, notes, MiniAppTypeOK, Transfers
    <2>6. /\ active' \in BOOLEAN /\ valid' \in {"ok", "expired", "forbidden"}
          /\ expiredOnce' \in BOOLEAN
          /\ resumed' \in BOOLEAN /\ latest' \in Calls \cup {Nothing} /\ overtaken' \in BOOLEAN
          /\ acting' \in {Nothing} \cup Actings /\ strayed' \in BOOLEAN
      BY <1>10 DEF GoHome, screen, lists, upload, server, notes, MiniAppTypeOK, Actings
    <2> QED
      BY <2>1, <2>2, <2>3, <2>4, <2>5, <2>6, TypeParts
  <1>11. ASSUME NEW v \in Views, Switch(v)
        PROVE  MiniAppTypeOK'
    <2>a. /\ view' = v /\ token' = token + 1 /\ timer' = FALSE /\ strayed' = FALSE
          /\ (resumed' <=> expiredOnce) /\ root' \in Roots
          /\ request' \in [Calls -> {Nothing} \cup Asks] /\ latest' \in Calls \cup {Nothing}
          /\ body' \in Seq(Bodies) /\ library' \in Libraries /\ history' \in Selections
          /\ overtaken' \in BOOLEAN /\ attached' \in {0, Len(body')} /\ resumed' \in BOOLEAN
      BY <1>11, ShowTypes DEF Switch
    <2>1. view' \in Views /\ token' \in Nat /\ root' \in Roots /\ timer' \in BOOLEAN
      <3>1. token + 1 \in Nat
        BY DEF MiniAppTypeOK
      <3> QED
        BY <2>a, <3>1
    <2>2. request' \in [Calls -> {Nothing} \cup Asks]
      BY <2>a
    <2>3. library' \in Libraries /\ history' \in Selections
      BY <2>a
    <2>4. body' \in Seq(Bodies) /\ attached' \in 0..Len(body')
      BY <2>a, LenProperties
    <2>5. /\ transfer' \in {Nothing} \cup Transfers
          /\ sending' \in [Sends -> {"new", "going", "gone"}] /\ jump' \in Nat
      BY <1>11 DEF Switch, screen, lists, upload, server, notes, MiniAppTypeOK, Transfers
    <2>6. /\ active' \in BOOLEAN /\ valid' \in {"ok", "expired", "forbidden"}
          /\ expiredOnce' \in BOOLEAN
          /\ resumed' \in BOOLEAN /\ latest' \in Calls \cup {Nothing} /\ overtaken' \in BOOLEAN
          /\ acting' \in {Nothing} \cup Actings /\ strayed' \in BOOLEAN
      BY <2>a, <1>11 DEF Switch, screen, lists, upload, server, notes, MiniAppTypeOK, Actings
    <2> QED
      BY <2>1, <2>2, <2>3, <2>4, <2>5, <2>6, TypeParts
  <1>12. ASSUME NEW t \in Types, setLibraryType(t)
        PROVE  MiniAppTypeOK'
    <2>a. /\ request' \in [Calls -> {Nothing} \cup Asks] /\ latest' \in Calls \cup {Nothing}
          /\ body' \in Seq(Bodies) /\ library' \in Libraries /\ history' \in Selections
          /\ overtaken' \in BOOLEAN /\ root' \in Roots /\ attached' \in 0..Len(body')
      <3>1. PICK t1 \in Nat : t1 = token
        BY DEF MiniAppTypeOK
      <3>2. FreshLibrary(t1, t)
        BY <1>12, <3>1 DEF setLibraryType
      <3> QED
        BY <3>2, FreshTypes
    <2>1. view' \in Views /\ token' \in Nat /\ root' \in Roots /\ timer' \in BOOLEAN
      BY <2>a, <1>12 DEF setLibraryType, screen, lists, upload, server, notes, MiniAppTypeOK
    <2>2. request' \in [Calls -> {Nothing} \cup Asks]
      BY <2>a
    <2>3. library' \in Libraries /\ history' \in Selections
      BY <2>a
    <2>4. body' \in Seq(Bodies) /\ attached' \in 0..Len(body')
      BY <2>a
    <2>5. /\ transfer' \in {Nothing} \cup Transfers
          /\ sending' \in [Sends -> {"new", "going", "gone"}] /\ jump' \in Nat
      BY <1>12 DEF setLibraryType, screen, lists, upload, server, notes, MiniAppTypeOK, Transfers
    <2>6. /\ active' \in BOOLEAN /\ valid' \in {"ok", "expired", "forbidden"}
          /\ expiredOnce' \in BOOLEAN
          /\ resumed' \in BOOLEAN /\ latest' \in Calls \cup {Nothing} /\ overtaken' \in BOOLEAN
          /\ acting' \in {Nothing} \cup Actings /\ strayed' \in BOOLEAN
      BY <2>a, <1>12 DEF setLibraryType, screen, lists, upload, server, notes, MiniAppTypeOK, Actings
    <2> QED
      BY <2>1, <2>2, <2>3, <2>4, <2>5, <2>6, TypeParts
  <1>13. ASSUME NEW t \in Types, SelectHistory(t)
        PROVE  MiniAppTypeOK'
    <2>a. /\ request' \in [Calls -> {Nothing} \cup Asks] /\ latest' \in Calls \cup {Nothing}
          /\ body' \in Seq(Bodies) /\ library' \in Libraries /\ history' \in Selections
          /\ overtaken' \in BOOLEAN /\ root' \in Roots /\ attached' \in 0..Len(body')
      <3>1. PICK t1 \in Nat, want \in Selections : t1 = token /\ want = [type |-> t, offset |-> 0]
        <4>1. [type |-> t, offset |-> 0] \in Selections
          BY DEF Selections
        <4> QED
          BY <4>1 DEF MiniAppTypeOK
      <3>2. drawHistory(t1, want)
        BY <1>13, <3>1 DEF SelectHistory
      <3> QED
        BY <3>2, HistoryTypes
    <2>1. view' \in Views /\ token' \in Nat /\ root' \in Roots /\ timer' \in BOOLEAN
      BY <2>a, <1>13 DEF SelectHistory, screen, lists, upload, server, notes, MiniAppTypeOK
    <2>2. request' \in [Calls -> {Nothing} \cup Asks]
      BY <2>a
    <2>3. library' \in Libraries /\ history' \in Selections
      BY <2>a
    <2>4. body' \in Seq(Bodies) /\ attached' \in 0..Len(body')
      BY <2>a
    <2>5. /\ transfer' \in {Nothing} \cup Transfers
          /\ sending' \in [Sends -> {"new", "going", "gone"}] /\ jump' \in Nat
      BY <1>13 DEF SelectHistory, screen, lists, upload, server, notes, MiniAppTypeOK, Transfers
    <2>6. /\ active' \in BOOLEAN /\ valid' \in {"ok", "expired", "forbidden"}
          /\ expiredOnce' \in BOOLEAN
          /\ resumed' \in BOOLEAN /\ latest' \in Calls \cup {Nothing} /\ overtaken' \in BOOLEAN
          /\ acting' \in {Nothing} \cup Actings /\ strayed' \in BOOLEAN
      BY <2>a, <1>13 DEF SelectHistory, screen, lists, upload, server, notes, MiniAppTypeOK, Actings
    <2> QED
      BY <2>1, <2>2, <2>3, <2>4, <2>5, <2>6, TypeParts
  <1>14. ASSUME LoadMore
        PROVE  MiniAppTypeOK'
    <2>a. /\ request' \in [Calls -> {Nothing} \cup Asks] /\ latest' \in Calls \cup {Nothing}
          /\ body' \in Seq(Bodies) /\ library' \in Libraries /\ history' \in Selections
          /\ overtaken' \in BOOLEAN /\ root' \in Roots /\ attached' \in 0..Len(body')
      <3>1. PICK off \in Nat : MoreLibrary(off)
        BY <1>14, LoadMoreIs
      <3> QED
        BY <3>1, MoreTypes
    <2>1. view' \in Views /\ token' \in Nat /\ root' \in Roots /\ timer' \in BOOLEAN
      BY <2>a, <1>14 DEF LoadMore, screen, lists, upload, server, notes, MiniAppTypeOK
    <2>2. request' \in [Calls -> {Nothing} \cup Asks]
      BY <2>a
    <2>3. library' \in Libraries /\ history' \in Selections
      BY <2>a
    <2>4. body' \in Seq(Bodies) /\ attached' \in 0..Len(body')
      BY <2>a
    <2>5. /\ transfer' \in {Nothing} \cup Transfers
          /\ sending' \in [Sends -> {"new", "going", "gone"}] /\ jump' \in Nat
      BY <1>14 DEF LoadMore, screen, lists, upload, server, notes, MiniAppTypeOK, Transfers
    <2>6. /\ active' \in BOOLEAN /\ valid' \in {"ok", "expired", "forbidden"}
          /\ expiredOnce' \in BOOLEAN
          /\ resumed' \in BOOLEAN /\ latest' \in Calls \cup {Nothing} /\ overtaken' \in BOOLEAN
          /\ acting' \in {Nothing} \cup Actings /\ strayed' \in BOOLEAN
      BY <2>a, <1>14 DEF LoadMore, screen, lists, upload, server, notes, MiniAppTypeOK, Actings
    <2> QED
      BY <2>1, <2>2, <2>3, <2>4, <2>5, <2>6, TypeParts
  <1>15. ASSUME pager
        PROVE  MiniAppTypeOK'
    <2>a. /\ request' \in [Calls -> {Nothing} \cup Asks] /\ latest' \in Calls \cup {Nothing}
          /\ body' \in Seq(Bodies) /\ library' \in Libraries /\ history' \in Selections
          /\ overtaken' \in BOOLEAN /\ root' \in Roots /\ attached' \in 0..Len(body')
      <3>1. PICK t1 \in Nat, want \in Selections : t1 = token /\ drawHistory(t1, want)
        BY <1>15, PagerIs
      <3> QED
        BY <3>1, HistoryTypes
    <2>1. view' \in Views /\ token' \in Nat /\ root' \in Roots /\ timer' \in BOOLEAN
      BY <2>a, <1>15 DEF pager, screen, lists, upload, server, notes, MiniAppTypeOK
    <2>2. request' \in [Calls -> {Nothing} \cup Asks]
      BY <2>a
    <2>3. library' \in Libraries /\ history' \in Selections
      BY <2>a
    <2>4. body' \in Seq(Bodies) /\ attached' \in 0..Len(body')
      BY <2>a
    <2>5. /\ transfer' \in {Nothing} \cup Transfers
          /\ sending' \in [Sends -> {"new", "going", "gone"}] /\ jump' \in Nat
      BY <1>15 DEF pager, screen, lists, upload, server, notes, MiniAppTypeOK, Transfers
    <2>6. /\ active' \in BOOLEAN /\ valid' \in {"ok", "expired", "forbidden"}
          /\ expiredOnce' \in BOOLEAN
          /\ resumed' \in BOOLEAN /\ latest' \in Calls \cup {Nothing} /\ overtaken' \in BOOLEAN
          /\ acting' \in {Nothing} \cup Actings /\ strayed' \in BOOLEAN
      BY <2>a, <1>15 DEF pager, screen, lists, upload, server, notes, MiniAppTypeOK, Actings
    <2> QED
      BY <2>1, <2>2, <2>3, <2>4, <2>5, <2>6, TypeParts
  <1>16. ASSUME TryAgain
        PROVE  MiniAppTypeOK'
    <2>a. /\ request' \in [Calls -> {Nothing} \cup Asks] /\ latest' \in Calls \cup {Nothing}
          /\ body' \in Seq(Bodies) /\ library' \in Libraries /\ history' \in Selections
          /\ overtaken' \in BOOLEAN /\ root' \in Roots /\ attached' \in 0..Len(body')
      <3>1. CASE drawHistory(token, history)
        <4>1. PICK t1 \in Nat, want \in Selections : t1 = token /\ want = history
          BY DEF MiniAppTypeOK
        <4>2. drawHistory(t1, want)
          BY <3>1, <4>1
        <4> QED
          BY <4>2, HistoryTypes
      <3>2. CASE /\ Ask(view, token, "no", NoWant, 0, FALSE)
                 /\ UNCHANGED <<attached, library, history, body, overtaken>>
                 /\ root' \in {root, "loading"}
        <4>1. view \in Views /\ "no" \in Quietness
          BY DEF MiniAppTypeOK, Views, Quietness
        <4>2. request' \in [Calls -> {Nothing} \cup Asks] /\ latest' \in Calls \cup {Nothing}
          BY <3>2, <4>1, PlainAsk
        <4> QED
          BY <3>2, <4>2 DEF MiniAppTypeOK, Libraries, Bodies, Roots
      <3> QED
        BY <1>16, <3>1, <3>2 DEF TryAgain
    <2>1. view' \in Views /\ token' \in Nat /\ root' \in Roots /\ timer' \in BOOLEAN
      BY <2>a, <1>16 DEF TryAgain, screen, lists, upload, server, notes, MiniAppTypeOK
    <2>2. request' \in [Calls -> {Nothing} \cup Asks]
      BY <2>a
    <2>3. library' \in Libraries /\ history' \in Selections
      BY <2>a
    <2>4. body' \in Seq(Bodies) /\ attached' \in 0..Len(body')
      BY <2>a
    <2>5. /\ transfer' \in {Nothing} \cup Transfers
          /\ sending' \in [Sends -> {"new", "going", "gone"}] /\ jump' \in Nat
      BY <1>16 DEF TryAgain, screen, lists, upload, server, notes, MiniAppTypeOK, Transfers
    <2>6. /\ active' \in BOOLEAN /\ valid' \in {"ok", "expired", "forbidden"}
          /\ expiredOnce' \in BOOLEAN
          /\ resumed' \in BOOLEAN /\ latest' \in Calls \cup {Nothing} /\ overtaken' \in BOOLEAN
          /\ acting' \in {Nothing} \cup Actings /\ strayed' \in BOOLEAN
      BY <2>a, <1>16 DEF TryAgain, screen, lists, upload, server, notes, MiniAppTypeOK, Actings
    <2> QED
      BY <2>1, <2>2, <2>3, <2>4, <2>5, <2>6, TypeParts
  <1>17. ASSUME poll
        PROVE  MiniAppTypeOK'
    <2>a. request' \in [Calls -> {Nothing} \cup Asks] /\ latest' \in Calls \cup {Nothing}
      <3>1. Ask("active", token, "poll", NoWant, 0, FALSE) /\ "active" \in Views /\ "poll" \in Quietness
        BY <1>17 DEF poll, Views, Quietness
      <3> QED
        BY <3>1, PlainAsk
    <2>1. view' \in Views /\ token' \in Nat /\ root' \in Roots /\ timer' \in BOOLEAN
      BY <1>17 DEF poll, screen, lists, upload, server, notes, MiniAppTypeOK, Roots, Views
    <2>2. request' \in [Calls -> {Nothing} \cup Asks]
      BY <2>a
    <2>3. library' \in Libraries /\ history' \in Selections
      BY <1>17 DEF poll, screen, lists, upload, server, notes, MiniAppTypeOK, Libraries
    <2>4. body' \in Seq(Bodies) /\ attached' \in 0..Len(body')
      BY <1>17 DEF poll, screen, lists, upload, server, notes, MiniAppTypeOK, Bodies
    <2>5. /\ transfer' \in {Nothing} \cup Transfers
          /\ sending' \in [Sends -> {"new", "going", "gone"}] /\ jump' \in Nat
      BY <1>17 DEF poll, screen, lists, upload, server, notes, MiniAppTypeOK, Transfers
    <2>6. /\ active' \in BOOLEAN /\ valid' \in {"ok", "expired", "forbidden"}
          /\ expiredOnce' \in BOOLEAN
          /\ resumed' \in BOOLEAN /\ latest' \in Calls \cup {Nothing} /\ overtaken' \in BOOLEAN
          /\ acting' \in {Nothing} \cup Actings /\ strayed' \in BOOLEAN
      BY <2>a, <1>17 DEF poll, screen, lists, upload, server, notes, MiniAppTypeOK, Actings
    <2> QED
      BY <2>1, <2>2, <2>3, <2>4, <2>5, <2>6, TypeParts
  <1>18. ASSUME refresh
        PROVE  MiniAppTypeOK'
    <2>a. request' \in [Calls -> {Nothing} \cup Asks] /\ latest' \in Calls \cup {Nothing}
      <3>1. Ask("active", token, "once", NoWant, 0, FALSE) /\ "active" \in Views /\ "once" \in Quietness
        BY <1>18 DEF refresh, Views, Quietness
      <3> QED
        BY <3>1, PlainAsk
    <2>1. view' \in Views /\ token' \in Nat /\ root' \in Roots /\ timer' \in BOOLEAN
      BY <1>18 DEF refresh, screen, lists, upload, server, notes, MiniAppTypeOK, Roots, Views
    <2>2. request' \in [Calls -> {Nothing} \cup Asks]
      BY <2>a
    <2>3. library' \in Libraries /\ history' \in Selections
      BY <1>18 DEF refresh, screen, lists, upload, server, notes, MiniAppTypeOK, Libraries
    <2>4. body' \in Seq(Bodies) /\ attached' \in 0..Len(body')
      BY <1>18 DEF refresh, screen, lists, upload, server, notes, MiniAppTypeOK, Bodies
    <2>5. /\ transfer' \in {Nothing} \cup Transfers
          /\ sending' \in [Sends -> {"new", "going", "gone"}] /\ jump' \in Nat
      BY <1>18 DEF refresh, screen, lists, upload, server, notes, MiniAppTypeOK, Transfers
    <2>6. /\ active' \in BOOLEAN /\ valid' \in {"ok", "expired", "forbidden"}
          /\ expiredOnce' \in BOOLEAN
          /\ resumed' \in BOOLEAN /\ latest' \in Calls \cup {Nothing} /\ overtaken' \in BOOLEAN
          /\ acting' \in {Nothing} \cup Actings /\ strayed' \in BOOLEAN
      BY <2>a, <1>18 DEF refresh, screen, lists, upload, server, notes, MiniAppTypeOK, Actings
    <2> QED
      BY <2>1, <2>2, <2>3, <2>4, <2>5, <2>6, TypeParts
  <1>19. ASSUME historyCard
        PROVE  MiniAppTypeOK'
    <2>1. view' \in Views /\ token' \in Nat /\ root' \in Roots /\ timer' \in BOOLEAN
      BY <1>19 DEF historyCard, screen, lists, upload, server, notes, MiniAppTypeOK, Roots, Views
    <2>2. request' \in [Calls -> {Nothing} \cup Asks]
      BY <1>19 DEF historyCard, screen, lists, upload, server, notes, MiniAppTypeOK, Asks
    <2>3. library' \in Libraries /\ history' \in Selections
      BY <1>19 DEF historyCard, screen, lists, upload, server, notes, MiniAppTypeOK, Libraries
    <2>4. body' \in Seq(Bodies) /\ attached' \in 0..Len(body')
      BY <1>19 DEF historyCard, screen, lists, upload, server, notes, MiniAppTypeOK, Bodies
    <2>5. /\ transfer' \in {Nothing} \cup Transfers
          /\ sending' \in [Sends -> {"new", "going", "gone"}] /\ jump' \in Nat
      BY <1>19 DEF historyCard, screen, lists, upload, server, notes, MiniAppTypeOK, Transfers
    <2>6. /\ active' \in BOOLEAN /\ valid' \in {"ok", "expired", "forbidden"}
          /\ expiredOnce' \in BOOLEAN
          /\ resumed' \in BOOLEAN /\ latest' \in Calls \cup {Nothing} /\ overtaken' \in BOOLEAN
          /\ acting' \in {Nothing} \cup Actings /\ strayed' \in BOOLEAN
      BY <1>19 DEF historyCard, screen, lists, upload, server, notes, MiniAppTypeOK, Actings
    <2> QED
      BY <2>1, <2>2, <2>3, <2>4, <2>5, <2>6, TypeParts
  <1>20. ASSUME transferCard
        PROVE  MiniAppTypeOK'
    <2>1. view' \in Views /\ token' \in Nat /\ root' \in Roots /\ timer' \in BOOLEAN
      BY <1>20 DEF transferCard, screen, lists, upload, server, notes, MiniAppTypeOK, Roots, Views
    <2>2. request' \in [Calls -> {Nothing} \cup Asks]
      BY <1>20 DEF transferCard, screen, lists, upload, server, notes, MiniAppTypeOK, Asks
    <2>3. library' \in Libraries /\ history' \in Selections
      BY <1>20 DEF transferCard, screen, lists, upload, server, notes, MiniAppTypeOK, Libraries
    <2>4. body' \in Seq(Bodies) /\ attached' \in 0..Len(body')
      BY <1>20 DEF transferCard, screen, lists, upload, server, notes, MiniAppTypeOK, Bodies
    <2>5. /\ transfer' \in {Nothing} \cup Transfers
          /\ sending' \in [Sends -> {"new", "going", "gone"}] /\ jump' \in Nat
      BY <1>20 DEF transferCard, screen, lists, upload, server, notes, MiniAppTypeOK, Transfers
    <2>6. /\ active' \in BOOLEAN /\ valid' \in {"ok", "expired", "forbidden"}
          /\ expiredOnce' \in BOOLEAN
          /\ resumed' \in BOOLEAN /\ latest' \in Calls \cup {Nothing} /\ overtaken' \in BOOLEAN
          /\ acting' \in {Nothing} \cup Actings /\ strayed' \in BOOLEAN
      BY <1>20 DEF transferCard, screen, lists, upload, server, notes, MiniAppTypeOK, Actings
    <2> QED
      BY <2>1, <2>2, <2>3, <2>4, <2>5, <2>6, TypeParts
  <1>21. ASSUME Acted
        PROVE  MiniAppTypeOK'
    <2>a. /\ request' \in [Calls -> {Nothing} \cup Asks] /\ latest' \in Calls \cup {Nothing}
          /\ body' \in Seq(Bodies) /\ library' \in Libraries /\ history' \in Selections
          /\ overtaken' \in BOOLEAN /\ root' \in Roots /\ attached' \in 0..Len(body')
      <3>1. CASE drawHistory(token, history)
        <4>1. PICK t1 \in Nat, want \in Selections : t1 = token /\ want = history
          BY DEF MiniAppTypeOK
        <4>2. drawHistory(t1, want)
          BY <3>1, <4>1
        <4> QED
          BY <4>2, HistoryTypes
      <3>2. CASE /\ Ask("active", token, "once", NoWant, 0, FALSE)
                 /\ UNCHANGED <<attached, library, history, body, overtaken>>
                 /\ root' \in {root, "loading"}
        <4>1. "active" \in Views /\ "once" \in Quietness
          BY DEF MiniAppTypeOK, Views, Quietness
        <4>2. request' \in [Calls -> {Nothing} \cup Asks] /\ latest' \in Calls \cup {Nothing}
          BY <3>2, <4>1, PlainAsk
        <4> QED
          BY <3>2, <4>2 DEF MiniAppTypeOK, Libraries, Bodies, Roots
      <3> QED
        BY <1>21, <3>1, <3>2 DEF Acted
    <2>1. view' \in Views /\ token' \in Nat /\ root' \in Roots /\ timer' \in BOOLEAN
      BY <2>a, <1>21 DEF Acted, screen, lists, upload, server, notes, MiniAppTypeOK
    <2>2. request' \in [Calls -> {Nothing} \cup Asks]
      BY <2>a
    <2>3. library' \in Libraries /\ history' \in Selections
      BY <2>a
    <2>4. body' \in Seq(Bodies) /\ attached' \in 0..Len(body')
      BY <2>a
    <2>5. /\ transfer' \in {Nothing} \cup Transfers
          /\ sending' \in [Sends -> {"new", "going", "gone"}] /\ jump' \in Nat
      BY <1>21 DEF Acted, screen, lists, upload, server, notes, MiniAppTypeOK, Transfers
    <2>6. /\ active' \in BOOLEAN /\ valid' \in {"ok", "expired", "forbidden"}
          /\ expiredOnce' \in BOOLEAN
          /\ resumed' \in BOOLEAN /\ latest' \in Calls \cup {Nothing} /\ overtaken' \in BOOLEAN
          /\ acting' \in {Nothing} \cup Actings /\ strayed' \in BOOLEAN
      <3>1. acting' = Nothing /\ strayed' \in BOOLEAN
        BY <1>21 DEF Acted, MiniAppTypeOK
      <3> QED
        BY <2>a, <3>1, <1>21 DEF Acted, screen, lists, upload, server, notes, MiniAppTypeOK, Actings
    <2> QED
      BY <2>1, <2>2, <2>3, <2>4, <2>5, <2>6, TypeParts
  <1>22. ASSUME ActingFails
        PROVE  MiniAppTypeOK'
    <2>1. view' \in Views /\ token' \in Nat /\ root' \in Roots /\ timer' \in BOOLEAN
      BY <1>22 DEF ActingFails, screen, lists, upload, server, notes, MiniAppTypeOK, Roots, Views
    <2>2. request' \in [Calls -> {Nothing} \cup Asks]
      BY <1>22 DEF ActingFails, screen, lists, upload, server, notes, MiniAppTypeOK, Asks
    <2>3. library' \in Libraries /\ history' \in Selections
      BY <1>22 DEF ActingFails, screen, lists, upload, server, notes, MiniAppTypeOK, Libraries
    <2>4. body' \in Seq(Bodies) /\ attached' \in 0..Len(body')
      BY <1>22 DEF ActingFails, screen, lists, upload, server, notes, MiniAppTypeOK, Bodies
    <2>5. /\ transfer' \in {Nothing} \cup Transfers
          /\ sending' \in [Sends -> {"new", "going", "gone"}] /\ jump' \in Nat
      BY <1>22 DEF ActingFails, screen, lists, upload, server, notes, MiniAppTypeOK, Transfers
    <2>6. /\ active' \in BOOLEAN /\ valid' \in {"ok", "expired", "forbidden"}
          /\ expiredOnce' \in BOOLEAN
          /\ resumed' \in BOOLEAN /\ latest' \in Calls \cup {Nothing} /\ overtaken' \in BOOLEAN
          /\ acting' \in {Nothing} \cup Actings /\ strayed' \in BOOLEAN
      BY <1>22 DEF ActingFails, screen, lists, upload, server, notes, MiniAppTypeOK, Actings
    <2> QED
      BY <2>1, <2>2, <2>3, <2>4, <2>5, <2>6, TypeParts
  <1>23. ASSUME NEW f \in Sends, startTransfer(f)
        PROVE  MiniAppTypeOK'
    <2>1. view' \in Views /\ token' \in Nat /\ root' \in Roots /\ timer' \in BOOLEAN
      BY <1>23 DEF startTransfer, screen, lists, upload, server, notes, MiniAppTypeOK, Roots, Views
    <2>2. request' \in [Calls -> {Nothing} \cup Asks]
      BY <1>23 DEF startTransfer, screen, lists, upload, server, notes, MiniAppTypeOK, Asks
    <2>3. library' \in Libraries /\ history' \in Selections
      BY <1>23 DEF startTransfer, screen, lists, upload, server, notes, MiniAppTypeOK, Libraries
    <2>4. body' \in Seq(Bodies) /\ attached' \in 0..Len(body')
      BY <1>23 DEF startTransfer, screen, lists, upload, server, notes, MiniAppTypeOK, Bodies
    <2>5. /\ transfer' \in {Nothing} \cup Transfers
          /\ sending' \in [Sends -> {"new", "going", "gone"}] /\ jump' \in Nat
      <3>1. [send |-> f, done |-> FALSE] \in Transfers
        BY DEF Transfers
      <3> QED
        BY <3>1, <1>23 DEF startTransfer, screen, lists, upload, server, notes, MiniAppTypeOK
    <2>6. /\ active' \in BOOLEAN /\ valid' \in {"ok", "expired", "forbidden"}
          /\ expiredOnce' \in BOOLEAN
          /\ resumed' \in BOOLEAN /\ latest' \in Calls \cup {Nothing} /\ overtaken' \in BOOLEAN
          /\ acting' \in {Nothing} \cup Actings /\ strayed' \in BOOLEAN
      BY <1>23 DEF startTransfer, screen, lists, upload, server, notes, MiniAppTypeOK, Actings
    <2> QED
      BY <2>1, <2>2, <2>3, <2>4, <2>5, <2>6, TypeParts
  <1>24. ASSUME NEW f \in Sends, Sent(f)
        PROVE  MiniAppTypeOK'
    <2>1. view' \in Views /\ token' \in Nat /\ root' \in Roots /\ timer' \in BOOLEAN
      BY <1>24 DEF Sent, screen, lists, upload, server, notes, MiniAppTypeOK, Roots, Views
    <2>2. request' \in [Calls -> {Nothing} \cup Asks]
      BY <1>24 DEF Sent, screen, lists, upload, server, notes, MiniAppTypeOK, Asks
    <2>3. library' \in Libraries /\ history' \in Selections
      BY <1>24 DEF Sent, screen, lists, upload, server, notes, MiniAppTypeOK, Libraries
    <2>4. body' \in Seq(Bodies) /\ attached' \in 0..Len(body')
      BY <1>24 DEF Sent, screen, lists, upload, server, notes, MiniAppTypeOK, Bodies
    <2>5. /\ transfer' \in {Nothing} \cup Transfers
          /\ sending' \in [Sends -> {"new", "going", "gone"}] /\ jump' \in Nat
      <3>1. transfer' \in {Nothing} \cup Transfers
        BY <1>24 DEF Sent, MiniAppTypeOK, Transfers
      <3> QED
        BY <3>1, <1>24 DEF Sent, screen, lists, upload, server, notes, MiniAppTypeOK
    <2>6. /\ active' \in BOOLEAN /\ valid' \in {"ok", "expired", "forbidden"}
          /\ expiredOnce' \in BOOLEAN
          /\ resumed' \in BOOLEAN /\ latest' \in Calls \cup {Nothing} /\ overtaken' \in BOOLEAN
          /\ acting' \in {Nothing} \cup Actings /\ strayed' \in BOOLEAN
      BY <1>24 DEF Sent, screen, lists, upload, server, notes, MiniAppTypeOK, Actings
    <2> QED
      BY <2>1, <2>2, <2>3, <2>4, <2>5, <2>6, TypeParts
  <1>25. ASSUME NEW f \in Sends, SendFails(f)
        PROVE  MiniAppTypeOK'
    <2>1. view' \in Views /\ token' \in Nat /\ root' \in Roots /\ timer' \in BOOLEAN
      BY <1>25 DEF SendFails, screen, lists, upload, server, notes, MiniAppTypeOK, Roots, Views
    <2>2. request' \in [Calls -> {Nothing} \cup Asks]
      BY <1>25 DEF SendFails, screen, lists, upload, server, notes, MiniAppTypeOK, Asks
    <2>3. library' \in Libraries /\ history' \in Selections
      BY <1>25 DEF SendFails, screen, lists, upload, server, notes, MiniAppTypeOK, Libraries
    <2>4. body' \in Seq(Bodies) /\ attached' \in 0..Len(body')
      BY <1>25 DEF SendFails, screen, lists, upload, server, notes, MiniAppTypeOK, Bodies
    <2>5. /\ transfer' \in {Nothing} \cup Transfers
          /\ sending' \in [Sends -> {"new", "going", "gone"}] /\ jump' \in Nat
      <3>1. transfer' \in {Nothing} \cup Transfers
        BY <1>25 DEF SendFails, MiniAppTypeOK, Transfers
      <3> QED
        BY <3>1, <1>25 DEF SendFails, screen, lists, upload, server, notes, MiniAppTypeOK
    <2>6. /\ active' \in BOOLEAN /\ valid' \in {"ok", "expired", "forbidden"}
          /\ expiredOnce' \in BOOLEAN
          /\ resumed' \in BOOLEAN /\ latest' \in Calls \cup {Nothing} /\ overtaken' \in BOOLEAN
          /\ acting' \in {Nothing} \cup Actings /\ strayed' \in BOOLEAN
      BY <1>25 DEF SendFails, screen, lists, upload, server, notes, MiniAppTypeOK, Actings
    <2> QED
      BY <2>1, <2>2, <2>3, <2>4, <2>5, <2>6, TypeParts
  <1>26. ASSUME Dismiss
        PROVE  MiniAppTypeOK'
    <2>1. view' \in Views /\ token' \in Nat /\ root' \in Roots /\ timer' \in BOOLEAN
      BY <1>26 DEF Dismiss, screen, lists, upload, server, notes, MiniAppTypeOK, Roots, Views
    <2>2. request' \in [Calls -> {Nothing} \cup Asks]
      BY <1>26 DEF Dismiss, screen, lists, upload, server, notes, MiniAppTypeOK, Asks
    <2>3. library' \in Libraries /\ history' \in Selections
      BY <1>26 DEF Dismiss, screen, lists, upload, server, notes, MiniAppTypeOK, Libraries
    <2>4. body' \in Seq(Bodies) /\ attached' \in 0..Len(body')
      BY <1>26 DEF Dismiss, screen, lists, upload, server, notes, MiniAppTypeOK, Bodies
    <2>5. /\ transfer' \in {Nothing} \cup Transfers
          /\ sending' \in [Sends -> {"new", "going", "gone"}] /\ jump' \in Nat
      BY <1>26 DEF Dismiss, screen, lists, upload, server, notes, MiniAppTypeOK, Transfers
    <2>6. /\ active' \in BOOLEAN /\ valid' \in {"ok", "expired", "forbidden"}
          /\ expiredOnce' \in BOOLEAN
          /\ resumed' \in BOOLEAN /\ latest' \in Calls \cup {Nothing} /\ overtaken' \in BOOLEAN
          /\ acting' \in {Nothing} \cup Actings /\ strayed' \in BOOLEAN
      BY <1>26 DEF Dismiss, screen, lists, upload, server, notes, MiniAppTypeOK, Actings
    <2> QED
      BY <2>1, <2>2, <2>3, <2>4, <2>5, <2>6, TypeParts
  <1>27. ASSUME JumpToActive
        PROVE  MiniAppTypeOK'
    <2>a. /\ view' \in Views /\ token' \in Nat /\ root' \in Roots /\ timer' \in BOOLEAN
          /\ request' \in [Calls -> {Nothing} \cup Asks] /\ latest' \in Calls \cup {Nothing}
          /\ body' \in Seq(Bodies) /\ library' \in Libraries /\ history' \in Selections
          /\ overtaken' \in BOOLEAN /\ attached' \in 0..Len(body')
          /\ strayed' \in BOOLEAN /\ resumed' \in BOOLEAN
      <3>1. CASE view = "upload"
        <4>1. PICK v \in Views : v = "active"
          BY DEF Views
        <4>2. show(v)
          BY <1>27, <3>1, <4>1 DEF JumpToActive
        <4>3. /\ view' = v /\ token' = token + 1 /\ timer' = FALSE /\ strayed' = FALSE
              /\ (resumed' <=> expiredOnce) /\ root' \in Roots
              /\ request' \in [Calls -> {Nothing} \cup Asks] /\ latest' \in Calls \cup {Nothing}
              /\ body' \in Seq(Bodies) /\ library' \in Libraries /\ history' \in Selections
              /\ overtaken' \in BOOLEAN /\ attached' \in {0, Len(body')}
          BY <4>2, ShowTypes
        <4>4. token + 1 \in Nat /\ resumed' \in BOOLEAN
          BY <4>2 DEF MiniAppTypeOK, show
        <4>5. attached' \in 0..Len(body')
          BY <4>3, LenProperties
        <4> QED
          BY <4>3, <4>4, <4>5
      <3>2. CASE view # "upload"
        BY <1>27, <3>2 DEF JumpToActive, screen, lists, MiniAppTypeOK, Libraries, Bodies, Asks
      <3> QED
        BY <3>1, <3>2
    <2>1. view' \in Views /\ token' \in Nat /\ root' \in Roots /\ timer' \in BOOLEAN
      BY <2>a
    <2>2. request' \in [Calls -> {Nothing} \cup Asks]
      BY <2>a
    <2>3. library' \in Libraries /\ history' \in Selections
      BY <2>a
    <2>4. body' \in Seq(Bodies) /\ attached' \in 0..Len(body')
      BY <2>a
    <2>5. /\ transfer' \in {Nothing} \cup Transfers
          /\ sending' \in [Sends -> {"new", "going", "gone"}] /\ jump' \in Nat
      BY <1>27 DEF JumpToActive, screen, lists, upload, server, notes, MiniAppTypeOK, Transfers
    <2>6. /\ active' \in BOOLEAN /\ valid' \in {"ok", "expired", "forbidden"}
          /\ expiredOnce' \in BOOLEAN
          /\ resumed' \in BOOLEAN /\ latest' \in Calls \cup {Nothing} /\ overtaken' \in BOOLEAN
          /\ acting' \in {Nothing} \cup Actings /\ strayed' \in BOOLEAN
      BY <2>a, <1>27 DEF JumpToActive, screen, lists, upload, server, notes, MiniAppTypeOK, Actings
    <2> QED
      BY <2>1, <2>2, <2>3, <2>4, <2>5, <2>6, TypeParts
  <1>28. ASSUME ServerChanges
        PROVE  MiniAppTypeOK'
    <2>1. view' \in Views /\ token' \in Nat /\ root' \in Roots /\ timer' \in BOOLEAN
      BY <1>28 DEF ServerChanges, screen, lists, upload, server, notes, MiniAppTypeOK, Roots, Views
    <2>2. request' \in [Calls -> {Nothing} \cup Asks]
      BY <1>28 DEF ServerChanges, screen, lists, upload, server, notes, MiniAppTypeOK, Asks
    <2>3. library' \in Libraries /\ history' \in Selections
      BY <1>28 DEF ServerChanges, screen, lists, upload, server, notes, MiniAppTypeOK, Libraries
    <2>4. body' \in Seq(Bodies) /\ attached' \in 0..Len(body')
      BY <1>28 DEF ServerChanges, screen, lists, upload, server, notes, MiniAppTypeOK, Bodies
    <2>5. /\ transfer' \in {Nothing} \cup Transfers
          /\ sending' \in [Sends -> {"new", "going", "gone"}] /\ jump' \in Nat
      BY <1>28 DEF ServerChanges, screen, lists, upload, server, notes, MiniAppTypeOK, Transfers
    <2>6. /\ active' \in BOOLEAN /\ valid' \in {"ok", "expired", "forbidden"}
          /\ expiredOnce' \in BOOLEAN
          /\ resumed' \in BOOLEAN /\ latest' \in Calls \cup {Nothing} /\ overtaken' \in BOOLEAN
          /\ acting' \in {Nothing} \cup Actings /\ strayed' \in BOOLEAN
      BY <1>28 DEF ServerChanges, screen, lists, upload, server, notes, MiniAppTypeOK, Actings
    <2> QED
      BY <2>1, <2>2, <2>3, <2>4, <2>5, <2>6, TypeParts
  <1> QED
    BY <1>0, <1>1, <1>2, <1>3, <1>4, <1>5, <1>6, <1>7, <1>8, <1>9, <1>10, <1>11,
       <1>12, <1>13, <1>14, <1>15, <1>16, <1>17, <1>18, <1>19, <1>20, <1>21, <1>22, <1>23,
       <1>24, <1>25, <1>26, <1>27, <1>28 DEF MiniAppNext

-----------------------------------------------------------------------------

\* In flight for the screen as it is: neither the view nor the reader has moved on.
Cur(r) == request[r] # Nothing /\ request[r].token = token
ActingNow == acting # Nothing /\ acting.token = token

\* Nothing in flight is ahead of the screen.
Dated ==
  /\ \A r \in Calls : request[r] # Nothing => request[r].token <= token
  /\ acting # Nothing => acting.token <= token

\* What is asked, acted on and shown belongs to the view.
ScreenOfView == ~strayed =>
  /\ \A r \in Calls : Cur(r) => request[r].view = view
  /\ ActingNow => acting.view = view
  /\ root = "list" => attached # 0 /\ body[attached].of = view
  /\ root \in {"running", "idle"} => view = "active"
  /\ root = "done" => view \in {"home", "upload"}
  /\ root \in {"loading", "error"} => view \in {"home", "active"}

\* Nothing is on its way that could take the place of the message to reopen the app.
MessageAlone == ~strayed /\ root = "fatal" => ~ActingNow /\ \A r \in Calls : ~Cur(r)

PollsRunning == ~strayed => (timer <=> view = "active" /\ root = "running")

\* On the transfers view one request stands for the screen, or quiet ones refresh it.
ActiveAsks == ~strayed /\ view = "active" =>
  /\ \A r \in Calls : Cur(r) =>
       IF request[r].quiet = "no" THEN root = "loading" ELSE root \in {"running", "idle"}
  /\ \A r, s \in Calls :
       Cur(r) /\ Cur(s) /\ request[r].quiet = "no" /\ request[s].quiet = "no" => r = s
  /\ ActingNow => root \in {"running", "idle"}

MessageStands == ~strayed /\ expiredOnce => root = "fatal" \/ resumed

\* An error in place of a view is that view's, so that it is tried again as what it was.
ErrorOnView ==
  /\ \A r \in Calls : request[r] # Nothing => request[r].view # "upload"
  /\ \A r \in Calls : Cur(r) /\ request[r].quiet = "no"
                           => request[r].view \in {view, "library", "history"}
  /\ root = "error" => view \in {"home", "active"}

OnView ==
  Dated /\ ScreenOfView /\ MessageAlone /\ PollsRunning /\ ActiveAsks /\ MessageStands /\ ErrorOnView

\* A list belongs to the requests it was built for.
OwnBodies ==
  /\ \A r \in Calls : request[r] # Nothing /\ request[r].view \in {"library", "history"} =>
       request[r].body \in 1..Len(body) /\ body[request[r].body].of = request[r].view
  /\ \A b \in {library.grid, library.body, library.more} :
       b # 0 => b \in 1..Len(body) /\ body[b].of = "library"
  /\ library.grid # 0 => library.body # 0

\* The history on screen, or on its way there, is what the controls select.
HistorySelected ==
  /\ \A r \in Calls : request[r] # Nothing /\ request[r].view = "history" /\ request[r].body = attached
       => request[r].want = history
  /\ attached # 0 /\ body[attached].of = "history" /\ body[attached].kind = "grid"
       => body[attached].items = <<history>>

\* The library on screen is the last request's, and state.library its content.
LibraryShown == ~overtaken /\ attached # 0 /\ body[attached].of = "library"
AskedLibrary(r) == request[r] # Nothing /\ request[r].view = "library"
AllLoaded == Len(library.items) = library.offset /\ OneListing(library.type, library.items)

LibrarySelected == LibraryShown =>
  /\ \A r \in Calls : AskedLibrary(r) /\ request[r].body = attached =>
       /\ r = latest /\ request[r].token = token
       /\ request[r].want = [type |-> library.type, offset |-> library.offset] /\ AllLoaded
       /\ body[attached].kind = (IF request[r].appending THEN "grid" ELSE "loading")
       /\ ~body[attached].button
  /\ \A r \in Calls : AskedLibrary(r) /\ r = latest => request[r].body = attached
  /\ body[attached].kind = "grid" =>
       /\ library.grid = attached /\ library.body = attached /\ library.items # <<>>
       /\ body[attached].items = library.items /\ OneListing(library.type, library.items)
  /\ body[attached].kind = "error" => AllLoaded
  /\ body[attached].button => body[attached].kind = "grid" /\ Len(library.items) = library.offset + 1

\* Answers come and go, rows are acted on: what is on screen stays.
LEMMA FewerKeeps ==
  ASSUME Phone, MiniAppTypeOK, OnView,
         view' = view, token' = token, root' = root, timer' = timer, expiredOnce' = expiredOnce,
         resumed' = resumed, strayed' = strayed, acting' \in {acting, Nothing},
         \A s \in Calls : request'[s] # Nothing =>
            /\ request[s] # Nothing /\ request'[s].token = request[s].token
            /\ request'[s].view = request[s].view /\ request'[s].quiet = request[s].quiet,
         root = "list" /\ attached # 0 => attached' # 0 /\ body'[attached'].of = body[attached].of
  PROVE  OnView'
  <1>a. \A s \in Calls : Cur(s)' => /\ Cur(s) /\ request'[s].view = request[s].view
                                    /\ request'[s].quiet = request[s].quiet
    BY DEF Cur
  <1>b. ActingNow' => ActingNow /\ acting' = acting
    BY DEF ActingNow
  <1>1. Dated'
    BY DEF OnView, Dated
  <1>2. ScreenOfView'
    BY <1>a, <1>b DEF OnView, ScreenOfView
  <1>3. MessageAlone'
    BY <1>a, <1>b DEF OnView, MessageAlone
  <1>4. PollsRunning'
    BY <1>a, <1>b DEF OnView, PollsRunning
  <1>5. ActiveAsks'
    BY <1>a, <1>b DEF OnView, ActiveAsks
  <1>6. MessageStands'
    BY <1>a, <1>b DEF OnView, MessageStands
  <1>7. ErrorOnView'
    BY <1>a DEF OnView, ErrorOnView
  <1> QED
    BY <1>1, <1>2, <1>3, <1>4, <1>5, <1>6, <1>7 DEF OnView

\* A view is opened, or home is for a deactivated account: one request is current.
LEMMA OpenedKeeps ==
  ASSUME Phone, MiniAppTypeOK, OnView, view' \in Views, token' = token + 1, timer' = FALSE,
         acting' = acting,
         resumed' = expiredOnce, expiredOnce' = expiredOnce,
         \A s \in Calls : request'[s] # Nothing =>
            \/ request'[s] = request[s]
            \/ /\ request'[s].token = token + 1 /\ request'[s].view = view'
               /\ request'[s].quiet = "no" /\ view' # "upload",
         \A s, u \in Calls : request'[s] # request[s] /\ request'[u] # request[u] => s = u,
         view' \in {"library", "history"} =>
            root' = "list" /\ attached' # 0 /\ body'[attached'].of = view',
         view' = "upload" => root' \in {"done", "disabled"},
         view' \in {"home", "active"} => root' = "loading"
  PROVE  OnView'
  <1>a. token \in Nat /\ acting # Nothing => acting.token <= token /\ acting.token \in Nat
    BY DEF MiniAppTypeOK, OnView, Dated, Actings
  <1>b. \A s \in Calls : request[s] # Nothing =>
          request[s].token <= token /\ request[s].token \in Nat
    BY AskTypes DEF OnView, Dated, Asks
  <1>t. token \in Nat
    BY DEF MiniAppTypeOK
  <1>c. ~ActingNow'
    BY <1>a, <1>t DEF ActingNow
  <1>d. \A s \in Calls : Cur(s)' => /\ request'[s].view = view' /\ request'[s].quiet = "no"
                                    /\ view' # "upload" /\ request'[s] # request[s]
    BY <1>b, <1>t DEF Cur
  <1>e. \A s, u \in Calls : Cur(s)' /\ Cur(u)' => s = u
    BY <1>d DEF Cur
  <1>f. root' \in {"list", "done", "disabled", "loading"}
    BY DEF Views
  <1>g. \A s \in Calls : request'[s] # Nothing => request'[s].view # "upload"
    BY DEF OnView, ErrorOnView
  <1>1. Dated'
    BY <1>a, <1>b, <1>t DEF Dated
  <1>2. ScreenOfView'
    BY <1>c, <1>d, <1>f DEF ScreenOfView, Views
  <1>3. MessageAlone'
    BY <1>f DEF MessageAlone
  <1>4. PollsRunning'
    BY <1>f DEF PollsRunning
  <1>5. ActiveAsks'
    BY <1>c, <1>d, <1>e DEF ActiveAsks
  <1>6. MessageStands'
    BY DEF MessageStands
  <1>7. ErrorOnView'
    BY <1>d, <1>f, <1>g DEF ErrorOnView, Views
  <1> QED
    BY <1>1, <1>2, <1>3, <1>4, <1>5, <1>6, <1>7 DEF OnView

\* A list is asked for again on its own view.
LEMMA ListKeeps ==
  ASSUME Phone, MiniAppTypeOK, OnView, NEW v \in {"library", "history"},
         NEW r \in Calls, NEW q \in Asks, Takes(r, q), q.view = v, q.token = token,
         view' = view, token' = token, timer' = timer, root' = "list",
         attached' # 0, body'[attached'].of = v,
         acting' \in {acting, Nothing}, expiredOnce' = expiredOnce, resumed' = resumed,
         ~strayed' => ~strayed /\ view = v /\ root # "fatal"
  PROVE  OnView'
  <1>a. token \in Nat
    BY DEF MiniAppTypeOK
  <1>b. ActingNow' => ActingNow /\ acting' = acting
    BY DEF ActingNow
  <1>c. \A s \in Calls : Cur(s)' => \/ s = r /\ request'[s].view = v
                                    \/ s # r /\ Cur(s) /\ request'[s] = request[s]
    BY DEF Cur, Takes
  <1>d. \A s \in Calls : request'[s] # Nothing => request'[s] = q \/ request'[s] = request[s]
    BY DEF Takes
  <1>1. Dated'
    BY <1>a, <1>d DEF OnView, Dated
  <1>2. ScreenOfView'
    BY <1>b, <1>c DEF OnView, ScreenOfView
  <1>3. MessageAlone'
    BY DEF MessageAlone
  <1>4. PollsRunning'
    BY DEF OnView, PollsRunning
  <1>5. ActiveAsks'
    BY DEF ActiveAsks
  <1>6. MessageStands'
    BY DEF OnView, MessageStands
  <1>7. ErrorOnView'
    BY <1>c, <1>d DEF OnView, ErrorOnView
  <1> QED
    BY <1>1, <1>2, <1>3, <1>4, <1>5, <1>6, <1>7 DEF OnView

\* The transfers are asked for again, quietly: something is running, or has been.
LEMMA QuietKeeps ==
  ASSUME Phone, MiniAppTypeOK, OnView,
         NEW r \in Calls, NEW q \in Asks, Takes(r, q), q.view = "active", q.token = token,
         q.quiet # "no",
         view' = view, token' = token, timer' = timer, root' = root, attached' = attached,
         body' = body, acting' \in {acting, Nothing}, expiredOnce' = expiredOnce, resumed' = resumed,
         ~strayed' => ~strayed /\ view = "active" /\ root \in {"running", "idle"}
  PROVE  OnView'
  <1>a. token \in Nat
    BY DEF MiniAppTypeOK
  <1>b. ActingNow' => ActingNow /\ acting' = acting
    BY DEF ActingNow
  <1>c. \A s \in Calls : Cur(s)' => \/ s = r /\ request'[s].view = "active" /\ request'[s].quiet # "no"
                                    \/ s # r /\ Cur(s) /\ request'[s] = request[s]
    BY DEF Cur, Takes
  <1>d. \A s \in Calls : request'[s] # Nothing => request'[s] = q \/ request'[s] = request[s]
    BY DEF Takes
  <1>1. Dated'
    BY <1>a, <1>d DEF OnView, Dated
  <1>2. ScreenOfView'
    BY <1>b, <1>c DEF OnView, ScreenOfView
  <1>3. MessageAlone'
    BY DEF MessageAlone
  <1>4. PollsRunning'
    BY DEF OnView, PollsRunning
  <1>5. ActiveAsks'
    BY <1>b, <1>c DEF OnView, ActiveAsks
  <1>6. MessageStands'
    BY DEF OnView, MessageStands
  <1>7. ErrorOnView'
    BY <1>c, <1>d DEF OnView, ErrorOnView
  <1> QED
    BY <1>1, <1>2, <1>3, <1>4, <1>5, <1>6, <1>7 DEF OnView

\* The answer of the one request the screen waits for, or of a refresh, is drawn.
LEMMA DrawnKeeps ==
  ASSUME Phone, MiniAppTypeOK, OnView, NEW r \in Calls, Cur(r), Drops(r),
         view' = view, token' = token, attached' = attached, body' = body, acting' = acting,
         expiredOnce' = expiredOnce, resumed' = resumed, strayed' = strayed,
         \/ request[r].view = "home" /\ root' = "done" /\ timer' = timer
         \/ request[r].view = "active" /\ root' \in {"running", "idle"} /\ (timer' <=> root' = "running")
         \/ /\ request[r].view \in {"home", "active"} /\ request[r].quiet = "no"
            /\ root' = "error" /\ timer' = timer
  PROVE  OnView'
  <1>a. token \in Nat
    BY DEF MiniAppTypeOK
  <1>b. ActingNow' => ActingNow /\ acting' = acting
    BY DEF ActingNow
  <1>c. \A s \in Calls : Cur(s)' => s # r /\ Cur(s) /\ request'[s] = request[s]
    BY DEF Cur, Drops
  <1>d. \A s \in Calls : request'[s] # Nothing => request'[s] = request[s]
    BY DEF Drops
  <1>e. root' \in {"done", "running", "idle", "error"}
    OBVIOUS
  <1>f. ~strayed => root # "fatal" /\ request[r].view = view
    BY DEF OnView, MessageAlone, ScreenOfView
  <1>1. Dated'
    BY <1>a, <1>d DEF OnView, Dated
  <1>2. ScreenOfView'
    BY <1>b, <1>c, <1>f DEF OnView, ScreenOfView
  <1>3. MessageAlone'
    BY <1>e DEF MessageAlone
  <1>4. PollsRunning'
    BY <1>f DEF OnView, PollsRunning, ActiveAsks
  <1>5. ActiveAsks'
    BY <1>b, <1>c, <1>f DEF OnView, ActiveAsks
  <1>6. MessageStands'
    BY <1>f DEF OnView, MessageStands
  <1>7. ErrorOnView'
    BY <1>c, <1>d DEF OnView, ErrorOnView
  <1> QED
    BY <1>1, <1>2, <1>3, <1>4, <1>5, <1>6, <1>7 DEF OnView

\* A row is acted on.
LEMMA CardKeeps ==
  ASSUME Phone, MiniAppTypeOK, OnView, NEW v \in {"history", "active"},
         acting' = [view |-> v, token |-> token],
         view' = view, token' = token, root' = root, timer' = timer, attached' = attached,
         body' = body, request' = request, expiredOnce' = expiredOnce, resumed' = resumed,
         strayed' = strayed,
         ~strayed => view = v /\ root # "fatal" /\ (v = "active" => root = "running")
  PROVE  OnView'
  <1>a. token \in Nat /\ acting'.view = v /\ acting'.token = token
    BY DEF MiniAppTypeOK
  <1>c. \A s \in Calls : Cur(s)' => Cur(s)
    BY DEF Cur
  <1>1. Dated'
    BY <1>a DEF OnView, Dated
  <1>2. ScreenOfView'
    BY <1>a, <1>c DEF OnView, ScreenOfView
  <1>3. MessageAlone'
    BY DEF OnView, MessageAlone
  <1>4. PollsRunning'
    BY DEF OnView, PollsRunning
  <1>5. ActiveAsks'
    BY <1>c DEF OnView, ActiveAsks
  <1>6. MessageStands'
    BY DEF OnView, MessageStands
  <1>7. ErrorOnView'
    BY <1>c DEF OnView, ErrorOnView
  <1> QED
    BY <1>1, <1>2, <1>3, <1>4, <1>5, <1>6, <1>7 DEF OnView

\* A list on screen is of its view, and the reader is not told to reopen the app.
LEMMA ListOnView ==
  ASSUME OnView, NEW v, OnScreen(v), v # "none"
  PROVE  attached # 0 /\ root = "list" /\ body[attached].of = v /\ (~strayed => view = v)
  <1>1. attached # 0
    BY DEF OnScreen, Shows, NoBody
  <1> QED
    BY <1>1 DEF OnScreen, Shows, OnView, ScreenOfView

LEMMA GrowsTo ==
  ASSUME MiniAppTypeOK, NEW v, Grows(v), body' \in Seq(Bodies)
  PROVE  /\ Len(body') = Len(body) + 1 /\ Len(body) + 1 # 0 /\ body'[Len(body) + 1].of = v
         /\ \A b \in 1..Len(body) : body'[b] = body[b]
  BY BodyTypes DEF Grows

\* The view in error is asked for again: nothing else is on its way to it.
LEMMA AgainKeeps ==
  ASSUME Phone, MiniAppTypeOK, OnView,
         NEW r \in Calls, NEW q \in Asks, Takes(r, q), q.view = view, q.token = token,
         q.quiet = "no", root = "error", root' = "loading",
         view' = view, token' = token, timer' = timer,
         acting' \in {acting, Nothing}, expiredOnce' = expiredOnce, resumed' = resumed,
         strayed' = strayed
  PROVE  OnView'
  <1>a. token \in Nat
    BY DEF MiniAppTypeOK
  <1>b. ActingNow' => ActingNow /\ acting' = acting
    BY DEF ActingNow
  <1>c. \A s \in Calls : Cur(s)' => \/ s = r /\ request'[s].view = view /\ request'[s].quiet = "no"
                                    \/ s # r /\ Cur(s) /\ request'[s] = request[s]
    BY DEF Cur, Takes
  <1>d. \A s \in Calls : request'[s] # Nothing => request'[s] = q \/ request'[s] = request[s]
    BY DEF Takes
  <1>e. view # "upload"
    BY DEF OnView, ErrorOnView
  <1>1. Dated'
    BY <1>a, <1>d DEF OnView, Dated
  <1>2. ScreenOfView'
    BY <1>b, <1>c, <1>e DEF OnView, ScreenOfView
  <1>3. MessageAlone'
    BY DEF MessageAlone
  <1>4. PollsRunning'
    BY DEF OnView, PollsRunning
  <1>5. ActiveAsks'
    BY <1>b, <1>c DEF OnView, ActiveAsks
  <1>6. MessageStands'
    BY DEF OnView, MessageStands
  <1>7. ErrorOnView'
    BY <1>c, <1>d, <1>e DEF OnView, ErrorOnView
  <1> QED
    BY <1>1, <1>2, <1>3, <1>4, <1>5, <1>6, <1>7 DEF OnView

LEMMA OnViewStep ==
  ASSUME Phone, MiniAppTypeOK, OnView, OwnBodies, [MiniAppNext]_miniAppVars
  PROVE  OnView'
  <1>0. CASE UNCHANGED miniAppVars
    <2>1. /\ view' = view /\ token' = token /\ root' = root /\ timer' = timer
          /\ expiredOnce' = expiredOnce /\ resumed' = resumed /\ strayed' = strayed
          /\ acting' = acting /\ attached' = attached /\ request' = request /\ body' = body
      BY <1>0 DEF miniAppVars, screen, lists, upload, server, notes
    <2> QED
      BY <2>1, FewerKeeps
  <1>1. ASSUME NEW r \in Calls, Answer(r)
        PROVE  OnView'
    <2>1. /\ view' = view /\ token' = token /\ root' = root /\ timer' = timer
          /\ expiredOnce' = expiredOnce /\ resumed' = resumed /\ strayed' = strayed
          /\ acting' \in {acting, Nothing} /\ attached' = attached
      BY <1>1 DEF Answer, screen, lists, upload, server, notes
    <2>2. \A s \in Calls : request'[s] # Nothing =>
            /\ request[s] # Nothing /\ request'[s].token = request[s].token
            /\ request'[s].view = request[s].view /\ request'[s].quiet = request[s].quiet
      <3>1. request' = [request EXCEPT ![r].status = valid, ![r].active = active] /\ request[r] # Nothing
        BY <1>1 DEF Answer
      <3>2. request[r] \in Asks
        BY <3>1, AskTypes
      <3>3. \A s \in Calls : s # r => request'[s] = request[s]
        BY <3>1, AskTypes
      <3>4. /\ request'[r].token = request[r].token /\ request'[r].view = request[r].view
            /\ request'[r].quiet = request[r].quiet
        BY <3>1, <3>2, AskTypes DEF Asks
      <3> QED
        BY <3>1, <3>3, <3>4
    <2>3. root = "list" /\ attached # 0 => body'[attached'].of = body[attached].of
      BY <1>1 DEF Answer, screen, lists, upload, server, notes
    <2> QED
      BY <2>1, <2>2, <2>3, FewerKeeps
  <1>2. ASSUME NEW r \in Calls, Discard(r)
        PROVE  OnView'
    <2>1. /\ view' = view /\ token' = token /\ root' = root /\ timer' = timer
          /\ expiredOnce' = expiredOnce /\ resumed' = resumed /\ strayed' = strayed
          /\ acting' \in {acting, Nothing} /\ attached' = attached
      BY <1>2 DEF Discard, screen, lists, upload, server, notes
    <2>2. \A s \in Calls : request'[s] # Nothing =>
            /\ request[s] # Nothing /\ request'[s].token = request[s].token
            /\ request'[s].view = request[s].view /\ request'[s].quiet = request[s].quiet
      <3>1. Forget(r)
        BY <1>2 DEF Discard
      <3>2. Drops(r)
        BY <3>1, ForgetIs
      <3> QED
        BY <3>2 DEF Drops
    <2>3. root = "list" /\ attached # 0 => body'[attached'].of = body[attached].of
      BY <1>2 DEF Discard, screen, lists, upload, server, notes
    <2> QED
      BY <2>1, <2>2, <2>3, FewerKeeps
  <1>3. ASSUME NEW r \in Calls, drawHome(r)
        PROVE  OnView'
    <2>1. Cur(r) /\ request[r].view = "home"
      BY <1>3 DEF drawHome, Arrived, Current, Cur
    <2>2. Drops(r)
      <3>1. Forget(r)
        BY <1>3 DEF drawHome
      <3> QED
        BY <3>1, ForgetIs
    <2>3. /\ view' = view /\ token' = token /\ attached' = attached /\ body' = body
          /\ acting' = acting /\ expiredOnce' = expiredOnce /\ resumed' = resumed
          /\ strayed' = strayed
      BY <1>3 DEF drawHome, screen, lists, upload, server, notes
    <2>4. root' = "done" /\ timer' = timer
      BY <1>3 DEF drawHome
    <2> QED
      BY <2>1, <2>2, <2>3, <2>4, DrawnKeeps
  <1>4. ASSUME NEW r \in Calls, drawLibrary(r)
        PROVE  OnView'
    <2>1. /\ view' = view /\ token' = token /\ root' = root /\ timer' = timer
          /\ expiredOnce' = expiredOnce /\ resumed' = resumed /\ strayed' = strayed
          /\ acting' \in {acting, Nothing} /\ attached' = attached
      BY <1>4 DEF drawLibrary, screen, lists, upload, server, notes
    <2>2. \A s \in Calls : request'[s] # Nothing =>
            /\ request[s] # Nothing /\ request'[s].token = request[s].token
            /\ request'[s].view = request[s].view /\ request'[s].quiet = request[s].quiet
      <3>1. Forget(r)
        BY <1>4 DEF drawLibrary
      <3>2. Drops(r)
        BY <3>1, ForgetIs
      <3> QED
        BY <3>2 DEF Drops
    <2>3. root = "list" /\ attached # 0 => body'[attached'].of = body[attached].of
      <3>1. PICK q \in Asks, items \in Seq(Selections), grid \in Nat : LibraryDrawn(q, items, grid)
        BY <1>4, drawLibraryIs
      <3>2. \A b \in 1..Len(body) : body'[b].of = body[b].of
        <4>1. CASE items = <<>>
          <5>1. \A b \in 1..Len(body) :
                  body'[b] = IF b = q.body
                               THEN [body[b] EXCEPT !.kind = "empty", !.items = <<>>, !.button = FALSE]
                               ELSE body[b]
            BY <3>1, <4>1 DEF LibraryDrawn
          <5> QED
            BY <5>1, BodyTypes DEF Bodies
        <4>2. CASE items # <<>>
          BY <3>1, <4>2 DEF LibraryDrawn
        <4> QED
          BY <4>1, <4>2
      <3> QED
        BY <2>1, <3>2 DEF MiniAppTypeOK
    <2> QED
      BY <2>1, <2>2, <2>3, FewerKeeps
  <1>5. ASSUME NEW r \in Calls, HistoryArrives(r)
        PROVE  OnView'
    <2>1. /\ view' = view /\ token' = token /\ root' = root /\ timer' = timer
          /\ expiredOnce' = expiredOnce /\ resumed' = resumed /\ strayed' = strayed
          /\ acting' \in {acting, Nothing} /\ attached' = attached
      BY <1>5 DEF HistoryArrives, screen, lists, upload, server, notes
    <2>2. \A s \in Calls : request'[s] # Nothing =>
            /\ request[s] # Nothing /\ request'[s].token = request[s].token
            /\ request'[s].view = request[s].view /\ request'[s].quiet = request[s].quiet
      <3>1. Forget(r)
        BY <1>5 DEF HistoryArrives
      <3>2. Drops(r)
        BY <3>1, ForgetIs
      <3> QED
        BY <3>2 DEF Drops
    <2>3. root = "list" /\ attached # 0 => body'[attached'].of = body[attached].of
      <3>1. PICK q \in Asks, w \in Bodies :
              /\ q = request[r] /\ q.view = "history" /\ w.of = "history" /\ Redraws(q.body, w)
        <4>1. PICK q \in Asks, w \in Bodies :
                /\ q = request[r] /\ q.view = "history" /\ q.token = token
                /\ w.of = "history"
                /\ Redraws(q.body, w) /\ body' \in Seq(Bodies)
          BY <1>5, HistoryArrivesIs
        <4> QED
          BY <4>1
      <3>2. request[r] # Nothing
        BY <1>5 DEF HistoryArrives, Arrived
      <3>3. q.body \in 1..Len(body) /\ body[q.body].of = "history"
        BY <3>1, <3>2 DEF OwnBodies
      <3>4. attached # 0 => attached \in 1..Len(body)
        BY DEF MiniAppTypeOK
      <3>5. attached # 0 => body'[attached] = IF attached = q.body THEN w ELSE body[attached]
        BY <3>1, <3>4 DEF Redraws
      <3> QED
        BY <2>1, <3>1, <3>3, <3>5
    <2> QED
      BY <2>1, <2>2, <2>3, FewerKeeps
  <1>6. ASSUME NEW r \in Calls, drawActive(r)
        PROVE  OnView'
    <2>1. Cur(r) /\ request[r].view = "active"
      BY <1>6 DEF drawActive, Arrived, Current, Cur
    <2>2. Drops(r)
      <3>1. Forget(r)
        BY <1>6 DEF drawActive
      <3> QED
        BY <3>1, ForgetIs
    <2>3. /\ view' = view /\ token' = token /\ attached' = attached /\ body' = body
          /\ acting' = acting /\ expiredOnce' = expiredOnce /\ resumed' = resumed
          /\ strayed' = strayed
      BY <1>6 DEF drawActive, screen, lists, upload, server, notes
    <2>4. root' \in {"running", "idle"} /\ (timer' <=> root' = "running")
      BY <1>6 DEF drawActive
    <2> QED
      BY <2>1, <2>2, <2>3, <2>4, DrawnKeeps
  <1>7. ASSUME NEW r \in Calls, ShowError(r)
        PROVE  OnView'
    <2>a. PICK q \in Asks :
          /\ q = request[r] /\ q.token = token /\ q.quiet = "no"
          /\ q.view \notin {"library", "history"} => root' = "error" /\ body' = body
          /\ q.view \in {"library", "history"} =>
               /\ root' = root /\ Len(body') = Len(body)
               /\ \A b \in 1..Len(body) :
                    body'[b] = IF b = q.body
                                 THEN [body[b] EXCEPT !.kind = "error", !.items = <<>>, !.button = FALSE]
                                 ELSE body[b]
      BY <1>7, ShowErrorIs
    <2>b. Drops(r)
      <3>1. Forget(r)
        BY <1>7 DEF ShowError
      <3> QED
        BY <3>1, ForgetIs
    <2>c. /\ view' = view /\ token' = token /\ timer' = timer
          /\ expiredOnce' = expiredOnce /\ resumed' = resumed /\ strayed' = strayed
          /\ acting' = acting /\ attached' = attached /\ request[r] # Nothing
      BY <1>7 DEF ShowError, screen, lists, upload, server, notes
    <2>d. CASE q.view \in {"library", "history"}
      <3>2. \A s \in Calls : request'[s] # Nothing =>
              /\ request[s] # Nothing /\ request'[s].token = request[s].token
              /\ request'[s].view = request[s].view /\ request'[s].quiet = request[s].quiet
        BY <2>b DEF Drops
      <3>3. root = "list" /\ attached # 0 => body'[attached'].of = body[attached].of
        <4>1. attached # 0 => attached \in 1..Len(body) /\ body[attached] \in Bodies
          BY BodyTypes DEF MiniAppTypeOK
        <4>2. attached # 0 => body'[attached] =
                IF attached = q.body
                  THEN [body[attached] EXCEPT !.kind = "error", !.items = <<>>, !.button = FALSE]
                  ELSE body[attached]
          BY <2>a, <2>d, <4>1
        <4> QED
          BY <2>c, <4>1, <4>2 DEF Bodies
      <3> QED
        BY <2>a, <2>c, <2>d, <3>2, <3>3, FewerKeeps
    <2>e. CASE q.view \notin {"library", "history"}
      <3>1. q.view \in Views
        BY DEF Asks
      <3>3. Cur(r)
        BY <2>a, <2>c DEF Cur
      <3>2. q.view \in {"home", "active"}
        BY <2>a, <2>c, <2>e, <3>1 DEF OnView, ErrorOnView, Views
      <3> QED
        BY <2>a, <2>b, <2>c, <2>e, <3>2, <3>3, DrawnKeeps
    <2> QED
      BY <2>d, <2>e
  <1>8. ASSUME NEW r \in Calls, KeepList(r)
        PROVE  OnView'
    <2>1. /\ view' = view /\ token' = token /\ root' = root /\ timer' = timer
          /\ expiredOnce' = expiredOnce /\ resumed' = resumed /\ strayed' = strayed
          /\ acting' \in {acting, Nothing} /\ attached' = attached
      BY <1>8 DEF KeepList, screen, lists, upload, server, notes
    <2>2. \A s \in Calls : request'[s] # Nothing =>
            /\ request[s] # Nothing /\ request'[s].token = request[s].token
            /\ request'[s].view = request[s].view /\ request'[s].quiet = request[s].quiet
      <3>1. Forget(r)
        BY <1>8 DEF KeepList
      <3>2. Drops(r)
        BY <3>1, ForgetIs
      <3> QED
        BY <3>2 DEF Drops
    <2>3. root = "list" /\ attached # 0 => body'[attached'].of = body[attached].of
      BY <1>8 DEF KeepList, screen, lists, upload, server, notes
    <2> QED
      BY <2>1, <2>2, <2>3, FewerKeeps
  <1>9. ASSUME NEW r \in Calls, expired(r)
        PROVE  OnView'
    <2>a. /\ timer' = FALSE /\ token' = token + 1 /\ root' = "fatal" /\ view' = view
          /\ strayed' = FALSE /\ acting' = acting
      BY <1>9 DEF expired, screen, lists, upload, server, notes
    <2>b. Drops(r)
      <3>1. Forget(r)
        BY <1>9 DEF expired
      <3> QED
        BY <3>1, ForgetIs
    <2>c. \A s \in Calls : request'[s] # Nothing =>
            /\ request'[s] = request[s] /\ request[s].token <= token /\ request[s].token \in Nat
      BY <2>b, AskTypes DEF Drops, OnView, Dated, Asks
    <2>d. token \in Nat /\ (acting # Nothing => acting.token <= token /\ acting.token \in Nat)
      BY DEF MiniAppTypeOK, OnView, Dated, Actings
    <2>e. token \in Nat
      BY DEF MiniAppTypeOK
    <2>f. \A s \in Calls : ~Cur(s)'
      BY <2>a, <2>c, <2>e DEF Cur
    <2>g. ~ActingNow'
      BY <2>a, <2>d, <2>e DEF ActingNow
    <2>1. Dated'
      BY <2>a, <2>c, <2>d, <2>e DEF Dated
    <2>2. ScreenOfView'
      BY <2>a, <2>f, <2>g DEF ScreenOfView
    <2>3. MessageAlone'
      BY <2>f, <2>g DEF MessageAlone
    <2>4. PollsRunning'
      BY <2>a DEF PollsRunning
    <2>5. ActiveAsks'
      BY <2>f, <2>g DEF ActiveAsks
    <2>6. MessageStands'
      BY <2>a DEF MessageStands
    <2>7. ErrorOnView'
      <3>1. \A s \in Calls : request'[s] # Nothing => request'[s].view # "upload"
        BY <2>c DEF OnView, ErrorOnView
      <3> QED
        BY <2>a, <2>f, <3>1 DEF ErrorOnView
    <2> QED
      BY <2>1, <2>2, <2>3, <2>4, <2>5, <2>6, <2>7 DEF OnView
  <1>10. ASSUME NEW r \in Calls, GoHome(r)
        PROVE  OnView'
    <2>1. /\ view' = "home" /\ token' = token + 1 /\ timer' = FALSE /\ root' = "loading"
          /\ acting' = acting /\ resumed' = expiredOnce /\ expiredOnce' = expiredOnce
      BY <1>10 DEF GoHome, screen, lists, upload, server, notes
    <2>2. /\ request' = [request EXCEPT ![r] = [@ EXCEPT !.view = "home", !.token = token + 1,
                                                     !.quiet = "no", !.status = "asked"]]
          /\ request[r] \in Asks
      BY <1>10, AskTypes DEF GoHome
    <2>3. /\ request'[r].token = token + 1 /\ request'[r].view = "home" /\ request'[r].quiet = "no"
          /\ \A s \in Calls : s # r => request'[s] = request[s]
      BY <2>2, AskTypes DEF Asks
    <2>4. "home" \in Views
      BY DEF Views
    <2> QED
      BY <2>1, <2>3, <2>4, OpenedKeeps
  <1>11. ASSUME NEW v \in Views, Switch(v)
        PROVE  OnView'
    <2>1. show(v)
      BY <1>11 DEF Switch
    <2>2. acting' = acting /\ expiredOnce' = expiredOnce
      BY <1>11 DEF Switch, upload
    <2>3. /\ view' = v /\ token' = token + 1 /\ timer' = FALSE /\ (resumed' <=> expiredOnce)
          /\ v = "upload" => request' = request /\ root' \in {"done", "disabled"}
          /\ v \in {"library", "history"} => root' = "list" /\ attached' = Len(body') /\ Grows(v)
          /\ v \in {"home", "active"} => root' = "loading"
          /\ body' \in Seq(Bodies)
      BY <2>1, showIs
    <2>4. v \in {"library", "history"} => attached' # 0 /\ body'[attached'].of = v
      BY <2>3, GrowsTo DEF Grows
    <2>5. resumed' = expiredOnce
      BY <2>1 DEF show
    <2>6. CASE v = "upload"
      BY <2>2, <2>3, <2>5, <2>6, OpenedKeeps
    <2>7. CASE v # "upload"
      <3>1. PICK r \in Calls, q \in Asks :
              Takes(r, q) /\ q.view = v /\ q.token = token + 1 /\ q.quiet = "no"
        BY <2>1, <2>7, showIs
      <3>2. /\ \A s \in Calls : s # r => request'[s] = request[s]
            /\ request'[r].token = token + 1 /\ request'[r].view = v /\ request'[r].quiet = "no"
        BY <3>1 DEF Takes
      <3> QED
        BY <2>2, <2>3, <2>4, <2>5, <2>7, <3>2, OpenedKeeps
    <2> QED
      BY <2>6, <2>7
  <1>12. ASSUME NEW t \in Types, setLibraryType(t)
        PROVE  OnView'
    <2>c. /\ view' = view /\ token' = token /\ timer' = timer /\ acting' \in {acting, Nothing}
          /\ expiredOnce' = expiredOnce /\ resumed' = resumed
      BY <1>12 DEF setLibraryType, screen, lists, upload, server, notes
    <2>1. PICK t1 \in Nat : t1 = token /\ FreshLibrary(t1, t)
      <3>1. PICK t1 \in Nat : t1 = token
        BY DEF MiniAppTypeOK
      <3> QED
        BY <1>12, <3>1 DEF setLibraryType
    <2>2. PICK r \in Calls, q \in Asks :
             /\ Takes(r, q) /\ latest' = r
             /\ q.view = "library" /\ q.token = t1 /\ q.quiet = "no" /\ q.status = "asked"
             /\ q.want = [type |-> t, offset |-> 0] /\ q.body = Len(body) + 1 /\ ~q.appending
      BY <2>1, FreshLibraryIs
    <2>3. Grows("library") /\ body' \in Seq(Bodies) /\ attached' = Len(body) + 1 /\ root' = "list"
      BY <2>1, FreshLibraryIs
    <2>4. attached' # 0 /\ body'[attached'].of = "library" /\ "library" \in {"library", "history"}
      BY <2>3, GrowsTo
    <2>5. ~strayed' => ~strayed /\ view = "library" /\ root # "fatal"
      BY <1>12, ListOnView DEF setLibraryType
    <2> QED
      BY <2>1, <2>2, <2>3, <2>4, <2>5, <2>c, ListKeeps
  <1>13. ASSUME NEW t \in Types, SelectHistory(t)
        PROVE  OnView'
    <2>c. /\ view' = view /\ token' = token /\ timer' = timer /\ acting' \in {acting, Nothing}
          /\ expiredOnce' = expiredOnce /\ resumed' = resumed
      BY <1>13 DEF SelectHistory, screen, lists, upload, server, notes
    <2>1. PICK t1 \in Nat, want \in Selections : t1 = token /\ drawHistory(t1, want)
      <3>1. PICK t1 \in Nat, want \in Selections : t1 = token /\ want = [type |-> t, offset |-> 0]
        <4>1. [type |-> t, offset |-> 0] \in Selections
          BY DEF Selections
        <4> QED
          BY <4>1 DEF MiniAppTypeOK
      <3> QED
        BY <1>13, <3>1 DEF SelectHistory
    <2>2. PICK r \in Calls, q \in Asks :
             /\ Takes(r, q)
             /\ q.view = "history" /\ q.token = t1 /\ q.quiet = "no" /\ q.status = "asked"
             /\ q.want = want /\ q.body = Len(body) + 1
      BY <2>1, drawHistoryIs
    <2>3. Grows("history") /\ body' \in Seq(Bodies) /\ attached' = Len(body) + 1 /\ root' = "list"
      BY <2>1, drawHistoryIs
    <2>4. attached' # 0 /\ body'[attached'].of = "history" /\ "history" \in {"library", "history"}
      BY <2>3, GrowsTo
    <2>5. ~strayed' => ~strayed /\ view = "history" /\ root # "fatal"
      BY <1>13, ListOnView DEF SelectHistory
    <2> QED
      BY <2>1, <2>2, <2>3, <2>4, <2>5, <2>c, ListKeeps
  <1>14. ASSUME LoadMore
        PROVE  OnView'
    <2>c. /\ view' = view /\ token' = token /\ timer' = timer /\ acting' \in {acting, Nothing}
          /\ expiredOnce' = expiredOnce /\ resumed' = resumed
      BY <1>14 DEF LoadMore, screen, lists, upload, server, notes
    <2>1. PICK off \in Nat : MoreLibrary(off)
      BY <1>14, LoadMoreIs
    <2>2. PICK r \in Calls, q \in Asks :
             /\ Takes(r, q) /\ latest' = r
             /\ q.view = "library" /\ q.token = token /\ q.quiet = "no" /\ q.status = "asked"
             /\ q.want = [type |-> library.type, offset |-> off]
             /\ q.body = (IF Appends THEN library.body ELSE Len(body) + 1) /\ (q.appending <=> Appends)
      BY <2>1, MoreLibraryIs
    <2>3. /\ body' \in Seq(Bodies)
          /\ Appends => /\ attached' = attached /\ root' = root
                        /\ Redraws(attached, [body[attached] EXCEPT !.button = FALSE])
          /\ ~Appends => Grows("library") /\ attached' = Len(body) + 1 /\ root' = "list"
      BY <2>1, MoreLibraryIs
    <2>a. attached # 0 /\ root = "list" /\ body[attached].of = "library" /\ (~strayed => view = "library")
      BY <1>14, ListOnView DEF LoadMore
    <2>4. attached' # 0 /\ body'[attached'].of = "library" /\ root' = "list"
      <3>1. CASE Appends
        <4>1. attached \in 1..Len(body) /\ attached' = attached
          BY <2>3, <2>a, <3>1 DEF MiniAppTypeOK
        <4>2. body'[attached] = [body[attached] EXCEPT !.button = FALSE]
          BY <2>3, <3>1, <4>1 DEF Redraws
        <4>3. body'[attached].of = body[attached].of
          BY <4>1, <4>2, BodyTypes DEF Bodies
        <4> QED
          BY <2>3, <2>a, <3>1, <4>1, <4>3
      <3>2. CASE ~Appends
        BY <2>3, <3>2, GrowsTo
      <3> QED
        BY <3>1, <3>2
    <2>5. ~strayed' => ~strayed /\ view = "library" /\ root # "fatal"
      BY <1>14, <2>a DEF LoadMore
    <2>6. "library" \in {"library", "history"}
      OBVIOUS
    <2> QED
      BY <2>2, <2>4, <2>5, <2>6, <2>c, ListKeeps
  <1>15. ASSUME pager
        PROVE  OnView'
    <2>c. /\ view' = view /\ token' = token /\ timer' = timer /\ acting' \in {acting, Nothing}
          /\ expiredOnce' = expiredOnce /\ resumed' = resumed
      BY <1>15 DEF pager, screen, lists, upload, server, notes
    <2>1. PICK t1 \in Nat, want \in Selections : t1 = token /\ drawHistory(t1, want)
      BY <1>15, PagerIs
    <2>2. PICK r \in Calls, q \in Asks :
             /\ Takes(r, q)
             /\ q.view = "history" /\ q.token = t1 /\ q.quiet = "no" /\ q.status = "asked"
             /\ q.want = want /\ q.body = Len(body) + 1
      BY <2>1, drawHistoryIs
    <2>3. Grows("history") /\ body' \in Seq(Bodies) /\ attached' = Len(body) + 1 /\ root' = "list"
      BY <2>1, drawHistoryIs
    <2>4. attached' # 0 /\ body'[attached'].of = "history" /\ "history" \in {"library", "history"}
      BY <2>3, GrowsTo
    <2>5. ~strayed' => ~strayed /\ view = "history" /\ root # "fatal"
      BY <1>15, ListOnView DEF pager
    <2> QED
      BY <2>1, <2>2, <2>3, <2>4, <2>5, <2>c, ListKeeps
  <1>16. ASSUME TryAgain
        PROVE  OnView'
    <2>c. /\ view' = view /\ token' = token /\ timer' = timer /\ acting' \in {acting, Nothing}
          /\ expiredOnce' = expiredOnce /\ resumed' = resumed
      BY <1>16 DEF TryAgain, screen, lists, upload, server, notes
    <2>s. strayed' = strayed
      BY <1>16 DEF TryAgain
    <2>h. CASE OnScreen("history") /\ drawHistory(token, history)
      <3>1. PICK t1 \in Nat, want \in Selections : t1 = token /\ drawHistory(t1, want)
        <4>1. PICK t1 \in Nat, want \in Selections : t1 = token /\ want = history
          BY DEF MiniAppTypeOK
        <4> QED
          BY <2>h, <4>1
      <3>2. PICK r \in Calls, q \in Asks :
               /\ Takes(r, q)
               /\ q.view = "history" /\ q.token = t1 /\ q.quiet = "no" /\ q.status = "asked"
               /\ q.want = want /\ q.body = Len(body) + 1
        BY <3>1, drawHistoryIs
      <3>3. Grows("history") /\ body' \in Seq(Bodies) /\ attached' = Len(body) + 1 /\ root' = "list"
        BY <3>1, drawHistoryIs
      <3>4. attached' # 0 /\ body'[attached'].of = "history" /\ "history" \in {"library", "history"}
        BY <3>3, GrowsTo
      <3>5. ~strayed' => ~strayed /\ view = "history" /\ root # "fatal"
        BY <1>16, <2>h, ListOnView DEF TryAgain
      <3> QED
        BY <3>1, <3>2, <3>3, <3>4, <3>5, <2>c, ListKeeps
    <2>k. CASE /\ root = "error" /\ root' = "loading" /\ Ask(view, token, "no", NoWant, 0, FALSE)
               /\ UNCHANGED <<attached, library, history, body, overtaken>>
      <3>1. view \in Views /\ "no" \in Quietness
        BY DEF MiniAppTypeOK, Quietness
      <3>v. PICK v \in Views : v = view
        BY <3>1
      <3>a. Ask(v, token, "no", NoWant, 0, FALSE)
        BY <2>k, <3>v
      <3>2. PICK r \in Calls, q \in Asks :
              /\ Takes(r, q) /\ q.view = v /\ q.token = token /\ q.quiet = "no"
        BY <3>1, <3>a, PlainAsk
      <3> QED
        BY <2>c, <2>k, <2>s, <3>v, <3>2, AgainKeeps
    <2> QED
      BY <1>16, <2>h, <2>k DEF TryAgain
  <1>17. ASSUME poll
        PROVE  OnView'
    <2>1. Ask("active", token, "poll", NoWant, 0, FALSE) /\ "active" \in Views /\ "poll" \in Quietness
      BY <1>17 DEF poll, Views, Quietness
    <2>2. PICK r \in Calls, q \in Asks :
            /\ Takes(r, q) /\ q.view = "active" /\ q.token = token /\ q.quiet = "poll"
      BY <2>1, PlainAsk
    <2>3. /\ view' = view /\ token' = token /\ timer' = timer /\ root' = root /\ attached' = attached
          /\ body' = body /\ acting' = acting /\ expiredOnce' = expiredOnce /\ resumed' = resumed
          /\ strayed' = strayed
      BY <1>17 DEF poll, screen, lists, upload, server, notes
    <2>4. ~strayed => view = "active" /\ root \in {"running", "idle"}
      BY <1>17 DEF poll, OnView, PollsRunning
    <2> QED
      BY <2>2, <2>3, <2>4, QuietKeeps
  <1>18. ASSUME refresh
        PROVE  OnView'
    <2>1. Ask("active", token, "once", NoWant, 0, FALSE) /\ "active" \in Views /\ "once" \in Quietness
      BY <1>18 DEF refresh, Views, Quietness
    <2>2. PICK r \in Calls, q \in Asks :
            /\ Takes(r, q) /\ q.view = "active" /\ q.token = token /\ q.quiet = "once"
      BY <2>1, PlainAsk
    <2>3. /\ view' = view /\ token' = token /\ timer' = timer /\ root' = root /\ attached' = attached
          /\ body' = body /\ acting' = acting /\ expiredOnce' = expiredOnce /\ resumed' = resumed
          /\ strayed' = strayed
      BY <1>18 DEF refresh, screen, lists, upload, server, notes
    <2>4. ~strayed => view = "active" /\ root \in {"running", "idle"}
      BY <1>18 DEF refresh, OnView, PollsRunning
    <2> QED
      BY <2>2, <2>3, <2>4, QuietKeeps
  <1>19. ASSUME historyCard
        PROVE  OnView'
    <2>1. /\ acting' = [view |-> "history", token |-> token] /\ "history" \in {"history", "active"}
          /\ view' = view /\ token' = token /\ root' = root /\ timer' = timer /\ attached' = attached
          /\ body' = body /\ request' = request /\ expiredOnce' = expiredOnce /\ resumed' = resumed
          /\ strayed' = strayed
      BY <1>19 DEF historyCard, screen, lists, upload, server, notes
    <2>2. ~strayed => view = "history" /\ root # "fatal" /\ ("history" = "active" => root = "running")
      BY <1>19, ListOnView DEF historyCard
    <2> QED
      BY <2>1, <2>2, CardKeeps
  <1>20. ASSUME transferCard
        PROVE  OnView'
    <2>1. /\ acting' = [view |-> "active", token |-> token] /\ "active" \in {"history", "active"}
          /\ view' = view /\ token' = token /\ root' = root /\ timer' = timer /\ attached' = attached
          /\ body' = body /\ request' = request /\ expiredOnce' = expiredOnce /\ resumed' = resumed
          /\ strayed' = strayed
      BY <1>20 DEF transferCard, screen, lists, upload, server, notes
    <2>2. ~strayed => view = "active" /\ root # "fatal" /\ ("active" = "active" => root = "running")
      BY <1>20 DEF transferCard, OnView, ScreenOfView
    <2> QED
      BY <2>1, <2>2, CardKeeps
  <1>21. ASSUME Acted
        PROVE  OnView'
    <2>c. /\ view' = view /\ token' = token /\ timer' = timer /\ acting' \in {acting, Nothing}
          /\ expiredOnce' = expiredOnce /\ resumed' = resumed
      BY <1>21 DEF Acted, screen, lists, upload, server, notes
    <2>h. CASE acting.view = "history"
      <3>1. PICK t1 \in Nat, want \in Selections : t1 = token /\ drawHistory(t1, want)
        <4>1. PICK t1 \in Nat, want \in Selections : t1 = token /\ want = history
          BY DEF MiniAppTypeOK
        <4> QED
          BY <1>21, <2>h, <4>1 DEF Acted
      <3>2. PICK r \in Calls, q \in Asks :
               /\ Takes(r, q)
               /\ q.view = "history" /\ q.token = t1 /\ q.quiet = "no" /\ q.status = "asked"
               /\ q.want = want /\ q.body = Len(body) + 1
        BY <3>1, drawHistoryIs
      <3>3. Grows("history") /\ body' \in Seq(Bodies) /\ attached' = Len(body) + 1 /\ root' = "list"
        BY <3>1, drawHistoryIs
      <3>4. attached' # 0 /\ body'[attached'].of = "history" /\ "history" \in {"library", "history"}
        BY <3>3, GrowsTo
      <3>5. ~strayed' => ~strayed /\ view = "history" /\ root # "fatal"
        BY <1>21, <2>h DEF Acted, OnView, ScreenOfView, MessageAlone, ActingNow
      <3> QED
        BY <3>1, <3>2, <3>3, <3>4, <3>5, <2>c, ListKeeps
    <2>k. CASE acting.view # "history"
      <3>1. Ask("active", token, "once", NoWant, 0, FALSE) /\ "active" \in Views /\ "once" \in Quietness
        BY <1>21, <2>k DEF Acted, Views, Quietness
      <3>2. PICK r \in Calls, q \in Asks :
              /\ Takes(r, q) /\ q.view = "active" /\ q.token = token /\ q.quiet = "once"
        BY <3>1, PlainAsk
      <3>3. root' = root /\ attached' = attached /\ body' = body
        BY <1>21, <2>k DEF Acted
      <3>4. ~strayed' => ~strayed /\ ActingNow
        BY <1>21 DEF Acted, ActingNow
      <3>5. acting # Nothing => acting.view = "active"
        BY <2>k DEF MiniAppTypeOK, Actings
      <3>6. ~strayed' => ~strayed /\ view = "active" /\ root \in {"running", "idle"}
        BY <1>21, <3>4, <3>5 DEF Acted, OnView, ScreenOfView, ActiveAsks
      <3> QED
        BY <2>c, <3>2, <3>3, <3>6, QuietKeeps
    <2> QED
      BY <2>h, <2>k
  <1>22. ASSUME ActingFails
        PROVE  OnView'
    <2>1. /\ view' = view /\ token' = token /\ root' = root /\ timer' = timer
          /\ expiredOnce' = expiredOnce /\ resumed' = resumed /\ strayed' = strayed
          /\ acting' \in {acting, Nothing} /\ attached' = attached
      BY <1>22 DEF ActingFails, screen, lists, upload, server, notes
    <2>2. \A s \in Calls : request'[s] # Nothing =>
            /\ request[s] # Nothing /\ request'[s].token = request[s].token
            /\ request'[s].view = request[s].view /\ request'[s].quiet = request[s].quiet
      BY <1>22 DEF ActingFails, screen, lists, upload, server, notes
    <2>3. root = "list" /\ attached # 0 => body'[attached'].of = body[attached].of
      BY <1>22 DEF ActingFails, screen, lists, upload, server, notes
    <2> QED
      BY <2>1, <2>2, <2>3, FewerKeeps
  <1>23. ASSUME NEW f \in Sends, startTransfer(f)
        PROVE  OnView'
    <2>1. /\ view' = view /\ token' = token /\ root' = root /\ timer' = timer
          /\ expiredOnce' = expiredOnce /\ resumed' = resumed /\ strayed' = strayed
          /\ acting' \in {acting, Nothing} /\ attached' = attached
      BY <1>23 DEF startTransfer, screen, lists, upload, server, notes
    <2>2. \A s \in Calls : request'[s] # Nothing =>
            /\ request[s] # Nothing /\ request'[s].token = request[s].token
            /\ request'[s].view = request[s].view /\ request'[s].quiet = request[s].quiet
      BY <1>23 DEF startTransfer, screen, lists, upload, server, notes
    <2>3. root = "list" /\ attached # 0 => body'[attached'].of = body[attached].of
      BY <1>23 DEF startTransfer, screen, lists, upload, server, notes
    <2> QED
      BY <2>1, <2>2, <2>3, FewerKeeps
  <1>24. ASSUME NEW f \in Sends, Sent(f)
        PROVE  OnView'
    <2>1. /\ view' = view /\ token' = token /\ root' = root /\ timer' = timer
          /\ expiredOnce' = expiredOnce /\ resumed' = resumed /\ strayed' = strayed
          /\ acting' \in {acting, Nothing} /\ attached' = attached
      BY <1>24 DEF Sent, screen, lists, upload, server, notes
    <2>2. \A s \in Calls : request'[s] # Nothing =>
            /\ request[s] # Nothing /\ request'[s].token = request[s].token
            /\ request'[s].view = request[s].view /\ request'[s].quiet = request[s].quiet
      BY <1>24 DEF Sent, screen, lists, upload, server, notes
    <2>3. root = "list" /\ attached # 0 => body'[attached'].of = body[attached].of
      BY <1>24 DEF Sent, screen, lists, upload, server, notes
    <2> QED
      BY <2>1, <2>2, <2>3, FewerKeeps
  <1>25. ASSUME NEW f \in Sends, SendFails(f)
        PROVE  OnView'
    <2>1. /\ view' = view /\ token' = token /\ root' = root /\ timer' = timer
          /\ expiredOnce' = expiredOnce /\ resumed' = resumed /\ strayed' = strayed
          /\ acting' \in {acting, Nothing} /\ attached' = attached
      BY <1>25 DEF SendFails, screen, lists, upload, server, notes
    <2>2. \A s \in Calls : request'[s] # Nothing =>
            /\ request[s] # Nothing /\ request'[s].token = request[s].token
            /\ request'[s].view = request[s].view /\ request'[s].quiet = request[s].quiet
      BY <1>25 DEF SendFails, screen, lists, upload, server, notes
    <2>3. root = "list" /\ attached # 0 => body'[attached'].of = body[attached].of
      BY <1>25 DEF SendFails, screen, lists, upload, server, notes
    <2> QED
      BY <2>1, <2>2, <2>3, FewerKeeps
  <1>26. ASSUME Dismiss
        PROVE  OnView'
    <2>1. /\ view' = view /\ token' = token /\ root' = root /\ timer' = timer
          /\ expiredOnce' = expiredOnce /\ resumed' = resumed /\ strayed' = strayed
          /\ acting' \in {acting, Nothing} /\ attached' = attached
      BY <1>26 DEF Dismiss, screen, lists, upload, server, notes
    <2>2. \A s \in Calls : request'[s] # Nothing =>
            /\ request[s] # Nothing /\ request'[s].token = request[s].token
            /\ request'[s].view = request[s].view /\ request'[s].quiet = request[s].quiet
      BY <1>26 DEF Dismiss, screen, lists, upload, server, notes
    <2>3. root = "list" /\ attached # 0 => body'[attached'].of = body[attached].of
      BY <1>26 DEF Dismiss, screen, lists, upload, server, notes
    <2> QED
      BY <2>1, <2>2, <2>3, FewerKeeps
  <1>27. ASSUME JumpToActive
        PROVE  OnView'
    <2>z. CASE view = "upload"
      <3>0. PICK v \in Views : v = "active"
        BY DEF Views
      <3>1. show(v)
        BY <1>27, <3>0, <2>z DEF JumpToActive
      <3>2. acting' = acting /\ expiredOnce' = expiredOnce
        BY <1>27 DEF JumpToActive
      <3>3. /\ view' = v /\ token' = token + 1 /\ timer' = FALSE /\ (resumed' <=> expiredOnce)
            /\ v = "upload" => request' = request /\ root' \in {"done", "disabled"}
            /\ v \in {"library", "history"} => root' = "list" /\ attached' = Len(body') /\ Grows(v)
            /\ v \in {"home", "active"} => root' = "loading"
            /\ body' \in Seq(Bodies)
        BY <3>1, showIs
      <3>4. v \in {"library", "history"} => attached' # 0 /\ body'[attached'].of = v
        BY <3>3, GrowsTo DEF Grows
      <3>5. resumed' = expiredOnce
        BY <3>1 DEF show
      <3>6. CASE v = "upload"
        BY <3>2, <3>3, <3>5, <3>6, OpenedKeeps
      <3>7. CASE v # "upload"
        <4>1. PICK r \in Calls, q \in Asks :
                Takes(r, q) /\ q.view = v /\ q.token = token + 1 /\ q.quiet = "no"
          BY <3>1, <3>7, showIs
        <4>2. /\ \A s \in Calls : s # r => request'[s] = request[s]
              /\ request'[r].token = token + 1 /\ request'[r].view = v /\ request'[r].quiet = "no"
          BY <4>1 DEF Takes
        <4> QED
          BY <3>2, <3>3, <3>4, <3>5, <3>7, <4>2, OpenedKeeps
      <3> QED
        BY <3>6, <3>7
    <2>y. CASE view # "upload"
      <3>1. /\ view' = view /\ token' = token /\ root' = root /\ timer' = timer
            /\ expiredOnce' = expiredOnce /\ resumed' = resumed /\ strayed' = strayed
            /\ acting' = acting /\ attached' = attached /\ request' = request /\ body' = body
        BY <1>27, <2>y DEF JumpToActive, screen, lists, upload, server, notes
      <3> QED
        BY <3>1, FewerKeeps
    <2> QED
      BY <2>y, <2>z
  <1>28. ASSUME ServerChanges
        PROVE  OnView'
    <2>1. /\ view' = view /\ token' = token /\ root' = root /\ timer' = timer
          /\ expiredOnce' = expiredOnce /\ resumed' = resumed /\ strayed' = strayed
          /\ acting' \in {acting, Nothing} /\ attached' = attached
      BY <1>28 DEF ServerChanges, screen, lists, upload, server, notes
    <2>2. \A s \in Calls : request'[s] # Nothing =>
            /\ request[s] # Nothing /\ request'[s].token = request[s].token
            /\ request'[s].view = request[s].view /\ request'[s].quiet = request[s].quiet
      BY <1>28 DEF ServerChanges, screen, lists, upload, server, notes
    <2>3. root = "list" /\ attached # 0 => body'[attached'].of = body[attached].of
      BY <1>28 DEF ServerChanges, screen, lists, upload, server, notes
    <2> QED
      BY <2>1, <2>2, <2>3, FewerKeeps
  <1> QED
    BY <1>0, <1>1, <1>2, <1>3, <1>4, <1>5, <1>6, <1>7, <1>8, <1>9, <1>10, <1>11,
       <1>12, <1>13, <1>14, <1>15, <1>16, <1>17, <1>18, <1>19, <1>20, <1>21, <1>22, <1>23,
       <1>24, <1>25, <1>26, <1>27, <1>28 DEF MiniAppNext

-----------------------------------------------------------------------------

OnList == OwnBodies /\ HistorySelected /\ LibrarySelected

\* The request is for a list, and was as good before the step.
Kept(s) == /\ request[s] # Nothing /\ request'[s].view = request[s].view
           /\ request'[s].token = request[s].token /\ request'[s].want = request[s].want
           /\ request'[s].body = request[s].body
           /\ (request'[s].appending <=> request[s].appending)
OfList(s) == request'[s] # Nothing /\ request'[s].view \in {"library", "history"}

\* The bodies keep their kind of list, and what is new refers to bodies of its own.
LEMMA BodiesKept ==
  ASSUME MiniAppTypeOK, OwnBodies, Len(body') \in Nat, Len(body') >= Len(body),
         \A b \in 1..Len(body) : body'[b].of = body[b].of,
         \A s \in Calls : OfList(s) =>
            \/ Kept(s)
            \/ request'[s].body \in 1..Len(body') /\ body'[request'[s].body].of = request'[s].view,
         \A b \in {library'.grid, library'.body, library'.more} :
            \/ b \in {library.grid, library.body, library.more, 0}
            \/ b \in 1..Len(body) /\ body[b].of = "library",
         library'.grid # 0 => library'.body # 0
  PROVE  OwnBodies'
  <1>0. Len(body) \in Nat
    BY BodyTypes
  <1>1. ASSUME NEW s \in Calls, request'[s] # Nothing, request'[s].view \in {"library", "history"}
        PROVE  request'[s].body \in 1..Len(body') /\ body'[request'[s].body].of = request'[s].view
    <2>1. CASE Kept(s)
      <3>1. request[s].body \in 1..Len(body) /\ body[request[s].body].of = request[s].view
        BY <1>1, <2>1 DEF OwnBodies, Kept
      <3> QED
        BY <1>0, <2>1, <3>1 DEF Kept
    <2> QED
      BY <1>1, <2>1 DEF OfList
  <1>2. ASSUME NEW b \in {library'.grid, library'.body, library'.more}, b # 0
        PROVE  b \in 1..Len(body') /\ body'[b].of = "library"
    <2>1. b \in 1..Len(body) /\ body[b].of = "library"
      <3>1. \/ b \in {library.grid, library.body, library.more}
            \/ b \in 1..Len(body) /\ body[b].of = "library"
        BY <1>2
      <3>2. CASE b \in {library.grid, library.body, library.more}
        BY <1>2, <3>2 DEF OwnBodies
      <3> QED
        BY <3>1, <3>2
    <2> QED
      BY <1>0, <2>1
  <1> QED
    BY <1>1, <1>2 DEF OwnBodies

\* A step that leaves the lists and what is asked for them alone.
LEMMA ListStays ==
  ASSUME MiniAppTypeOK, OnList,
         body' = body, attached' = attached, library' = library, history' = history,
         latest' = latest, token' = token, overtaken' = overtaken,
         \A s \in Calls : OfList(s) => Kept(s)
  PROVE  OnList'
  <1>0. library'.grid # 0 => library'.body # 0
    BY DEF OnList, OwnBodies
  <1>1. OwnBodies'
    BY <1>0, BodiesKept, BodyTypes DEF OnList
  <1>2. HistorySelected'
    BY DEF OnList, HistorySelected, OfList, Kept
  <1>3. LibrarySelected'
    <2>1. LibraryShown' => LibraryShown
      BY DEF LibraryShown
    <2>2. \A s \in Calls : AskedLibrary(s)' =>
            /\ AskedLibrary(s) /\ request'[s].token = request[s].token
            /\ request'[s].want = request[s].want /\ request'[s].body = request[s].body
            /\ (request'[s].appending <=> request[s].appending)
      BY DEF AskedLibrary, OfList, Kept
    <2>3. AllLoaded' <=> AllLoaded
      BY DEF AllLoaded, OneListing
    <2> QED
      BY <2>1, <2>2, <2>3 DEF OnList, LibrarySelected
  <1> QED
    BY <1>1, <1>2, <1>3 DEF OnList

\* A step that takes the list off the screen.
LEMMA ListLeft ==
  ASSUME MiniAppTypeOK, OnList, attached' = 0,
         body' = body, library' = library, history' = history,
         \A s \in Calls : OfList(s) => Kept(s)
  PROVE  OnList'
  <1>0. library'.grid # 0 => library'.body # 0
    BY DEF OnList, OwnBodies
  <1>1. OwnBodies'
    BY <1>0, BodiesKept, BodyTypes DEF OnList
  <1>2. HistorySelected'
    BY <1>1 DEF HistorySelected, OwnBodies
  <1>3. LibrarySelected'
    BY DEF LibrarySelected, LibraryShown
  <1> QED
    BY <1>1, <1>2, <1>3 DEF OnList

\* The history is asked for: its new body is its request's alone.
LEMMA HistoryAsked ==
  ASSUME Phone, MiniAppTypeOK, OnList, NEW t \in Nat, NEW want \in Selections, drawHistory(t, want)
  PROVE  OnList'
  <1>1. PICK r \in Calls, q \in Asks :
             /\ Takes(r, q)
             /\ q.view = "history" /\ q.token = t /\ q.quiet = "no" /\ q.status = "asked"
             /\ q.want = want /\ q.body = Len(body) + 1
    BY drawHistoryIs
  <1>2. /\ Grows("history") /\ body' \in Seq(Bodies) /\ attached' = Len(body) + 1
        /\ library' = library /\ history' = want
    BY drawHistoryIs
  <1>3. Len(body) \in Nat /\ Len(body') = Len(body) + 1 /\ body'[Len(body) + 1].of = "history"
        /\ body'[Len(body) + 1].kind = "loading" /\ \A b \in 1..Len(body) : body'[b] = body[b]
    BY <1>2, BodyTypes DEF Grows
  <1>4. \A s \in Calls : OfList(s) => (s # r /\ Kept(s)) \/ (s = r /\ request'[s] = q)
    BY <1>1 DEF OfList, Kept, Takes
  <1>5. OwnBodies'
    <2>1. \A s \in Calls : OfList(s) =>
            \/ Kept(s)
            \/ request'[s].body \in 1..Len(body') /\ body'[request'[s].body].of = request'[s].view
      BY <1>1, <1>3, <1>4
    <2>2. Len(body') \in Nat /\ Len(body') >= Len(body) /\ \A b \in 1..Len(body) : body'[b].of = body[b].of
      BY <1>3
    <2>3. \A b \in {library'.grid, library'.body, library'.more} :
            \/ b \in {library.grid, library.body, library.more, 0}
            \/ b \in 1..Len(body) /\ body[b].of = "library"
      BY <1>2
    <2>4. library'.grid # 0 => library'.body # 0
      BY <1>2 DEF OnList, OwnBodies
    <2> QED
      BY <2>1, <2>2, <2>3, <2>4, BodiesKept DEF OnList
  <1>6. HistorySelected'
    <2>1. ASSUME NEW s \in Calls, request'[s] # Nothing, request'[s].view = "history",
                 request'[s].body = attached'
          PROVE  request'[s].want = history'
      <3>1. CASE Kept(s)
        <4>1. request[s].body \in 1..Len(body)
          BY <2>1, <3>1 DEF OnList, OwnBodies, Kept
        <4> QED
          BY <1>2, <1>3, <2>1, <3>1, <4>1 DEF Kept
      <3> QED
        BY <1>1, <1>2, <1>4, <2>1, <3>1 DEF OfList
    <2> QED
      BY <1>2, <1>3, <2>1 DEF HistorySelected
  <1>7. LibrarySelected'
    BY <1>2, <1>3 DEF LibrarySelected, LibraryShown
  <1> QED
    BY <1>5, <1>6, <1>7 DEF OnList

\* The library is asked for from its first page.
LEMMA FreshAsked ==
  ASSUME Phone, MiniAppTypeOK, OnList, NEW t \in Nat, NEW type \in Types, FreshLibrary(t, type),
         token' = t
  PROVE  OnList'
  <1>1. PICK r \in Calls, q \in Asks :
             /\ Takes(r, q) /\ latest' = r
             /\ q.view = "library" /\ q.token = t /\ q.quiet = "no" /\ q.status = "asked"
             /\ q.want = [type |-> type, offset |-> 0] /\ q.body = Len(body) + 1 /\ ~q.appending
    BY FreshLibraryIs
  <1>2. /\ Grows("library") /\ body' \in Seq(Bodies) /\ attached' = Len(body) + 1
        /\ library'.type = type /\ library'.offset = 0 /\ library'.items = <<>>
        /\ library'.grid = library.grid /\ library'.body = library.body
        /\ library'.more = library.more
    BY FreshLibraryIs
  <1>3. Len(body) \in Nat /\ Len(body') = Len(body) + 1 /\ body'[Len(body) + 1].of = "library"
        /\ body'[Len(body) + 1].kind = "loading" /\ ~body'[Len(body) + 1].button
        /\ \A b \in 1..Len(body) : body'[b] = body[b]
    BY <1>2, BodyTypes DEF Grows
  <1>4. \A s \in Calls : OfList(s) => (s # r /\ Kept(s)) \/ (s = r /\ request'[s] = q)
    BY <1>1 DEF OfList, Kept, Takes
  <1>5. OwnBodies'
    <2>1. \A s \in Calls : OfList(s) =>
            \/ Kept(s)
            \/ request'[s].body \in 1..Len(body') /\ body'[request'[s].body].of = request'[s].view
      BY <1>1, <1>3, <1>4
    <2>2. Len(body') \in Nat /\ Len(body') >= Len(body) /\ \A b \in 1..Len(body) : body'[b].of = body[b].of
      BY <1>3
    <2>3. \A b \in {library'.grid, library'.body, library'.more} :
            \/ b \in {library.grid, library.body, library.more, 0}
            \/ b \in 1..Len(body) /\ body[b].of = "library"
      BY <1>2
    <2>4. library'.grid # 0 => library'.body # 0
      BY <1>2 DEF OnList, OwnBodies
    <2> QED
      BY <2>1, <2>2, <2>3, <2>4, BodiesKept DEF OnList
  <1>8. \A s \in Calls : OfList(s) /\ request'[s].body = attached' => s = r
    <2>1. ASSUME NEW s \in Calls, OfList(s), request'[s].body = attached', Kept(s)
          PROVE  FALSE
      <3>1. request[s].body \in 1..Len(body)
        BY <2>1 DEF OnList, OwnBodies, Kept, OfList
      <3> QED
        BY <1>2, <1>3, <2>1, <3>1 DEF Kept
    <2> QED
      BY <1>4, <2>1
  <1>6. HistorySelected'
    <2>1. \A s \in Calls : ~(request'[s] # Nothing /\ request'[s].view = "history"
                                /\ request'[s].body = attached')
      BY <1>1, <1>8 DEF OfList, Takes
    <2> QED
      BY <1>2, <1>3, <2>1 DEF HistorySelected
  <1>7. LibrarySelected'
    <2>1. AllLoaded'
      BY <1>2, EmptySeq DEF AllLoaded, OneListing
    <2>2. request'[r] = q
      BY <1>1 DEF Takes
    <2>3. ASSUME NEW s \in Calls, AskedLibrary(s)', request'[s].body = attached'
          PROVE  s = r
      BY <1>8, <2>3 DEF AskedLibrary, OfList
    <2>4. \A s \in Calls : AskedLibrary(s)' /\ request'[s].body = attached' =>
            /\ s = latest' /\ request'[s].token = token'
            /\ request'[s].want = [type |-> library'.type, offset |-> library'.offset] /\ AllLoaded'
            /\ body'[attached'].kind = (IF request'[s].appending THEN "grid" ELSE "loading")
            /\ ~body'[attached'].button
      BY <1>1, <1>2, <1>3, <2>1, <2>2, <2>3
    <2>5. \A s \in Calls : AskedLibrary(s)' /\ s = latest' => request'[s].body = attached'
      BY <1>1, <1>2, <2>2
    <2>6. body'[attached'].kind = "loading" /\ ~body'[attached'].button
      BY <1>2, <1>3
    <2> QED
      BY <2>4, <2>5, <2>6 DEF LibrarySelected
  <1> QED
    BY <1>5, <1>6, <1>7 DEF OnList

\* Answers that change what a body shows: the requests left are as good as before.
LEMMA Dropped ==
  ASSUME NEW r \in Calls, Drops(r)
  PROVE  \A s \in Calls : OfList(s) => s # r /\ Kept(s) /\ request'[s] = request[s]
  BY DEF Drops, OfList, Kept

\* The next page, or the failed one again.
LEMMA MoreAsked ==
  ASSUME Phone, MiniAppTypeOK, OnList, LoadMore
  PROVE  OnList'
  <1>a. PICK off \in Nat : /\ MoreLibrary(off)
                           /\ \/ off = library.offset + 1 /\ Shows(attached).button
                              \/ off = library.offset /\ Shows(attached).kind = "error"
    BY LoadMoreIs
  <1>b. attached # 0 /\ body[attached].of = "library" /\ Shows(attached) = body[attached]
    BY DEF LoadMore, OnScreen, Shows, NoBody
  <1>c. attached \in 1..Len(body) /\ body[attached] \in Bodies /\ Len(body) \in Nat
    BY <1>b, BodyTypes DEF MiniAppTypeOK
  <1>d. token' = token
    BY DEF LoadMore
  <1>1. PICK r \in Calls, q \in Asks :
             /\ Takes(r, q) /\ latest' = r
             /\ q.view = "library" /\ q.token = token /\ q.quiet = "no" /\ q.status = "asked"
             /\ q.want = [type |-> library.type, offset |-> off]
             /\ q.body = (IF Appends THEN library.body ELSE Len(body) + 1) /\ (q.appending <=> Appends)
    BY <1>a, MoreLibraryIs
  <1>2. /\ body' \in Seq(Bodies)
        /\ library' \in Libraries /\ library'.type = library.type /\ library'.offset = off
        /\ library'.items = library.items /\ library'.grid = library.grid
        /\ library'.body = library.body /\ library'.more = library.more
        /\ history' = history /\ overtaken' = overtaken
    BY <1>a, MoreLibraryIs
  <1>3. /\ Appends => /\ attached' = attached /\ Redraws(attached, [body[attached] EXCEPT !.button = FALSE])
        /\ ~Appends => Grows("library") /\ attached' = Len(body) + 1
    BY <1>a, MoreLibraryIs
  <1>4. \A s \in Calls : OfList(s) => (s # r /\ Kept(s)) \/ (s = r /\ request'[s] = q)
    BY <1>1 DEF OfList, Kept, Takes
  <1>5. request'[r] = q
    BY <1>1 DEF Takes
  <1>6. CASE Appends
    <2>1. /\ library.grid = attached /\ attached' = attached /\ Len(body') = Len(body)
          /\ body[attached].kind = "grid" /\ q.appending /\ q.body = library.body
      BY <1>b, <1>1, <1>3, <1>6 DEF Appends, Redraws
    <2>2. /\ body'[attached].of = "library" /\ body'[attached].kind = "grid"
          /\ body'[attached].items = body[attached].items /\ ~body'[attached].button
          /\ \A b \in 1..Len(body) : b # attached => body'[b] = body[b]
      <3>1. \A b \in 1..Len(body) : body'[b] = IF b = attached THEN [body[attached] EXCEPT !.button = FALSE]
                                                             ELSE body[b]
        BY <1>3, <1>6 DEF Redraws
      <3>2. body'[attached] = [body[attached] EXCEPT !.button = FALSE]
        BY <1>c, <3>1
      <3> QED
        BY <1>b, <1>c, <2>1, <3>1, <3>2 DEF Bodies
    <2>3. off = library.offset + 1 /\ body[attached].button
      BY <1>a, <1>b, <2>1
    <2>4. library.body \in 1..Len(body) /\ body[library.body].of = "library"
      BY <1>b, <2>1 DEF OnList, OwnBodies
    <2>5. OwnBodies'
      <3>1. \A s \in Calls : OfList(s) =>
              \/ Kept(s)
              \/ request'[s].body \in 1..Len(body') /\ body'[request'[s].body].of = request'[s].view
        BY <1>1, <1>4, <2>1, <2>2, <2>4
      <3>2. /\ Len(body') \in Nat /\ Len(body') >= Len(body)
            /\ \A b \in 1..Len(body) : body'[b].of = body[b].of
        BY <1>b, <1>c, <2>1, <2>2
      <3>3. \A b \in {library'.grid, library'.body, library'.more} :
              \/ b \in {library.grid, library.body, library.more, 0}
              \/ b \in 1..Len(body) /\ body[b].of = "library"
        BY <1>2
      <3>4. library'.grid # 0 => library'.body # 0
        BY <1>2 DEF OnList, OwnBodies
      <3> QED
        BY <3>1, <3>2, <3>3, <3>4, BodiesKept DEF OnList
    <2>6. HistorySelected'
      <3>1. \A s \in Calls : request'[s] # Nothing /\ request'[s].view = "history"
              /\ request'[s].body = attached' => request'[s].want = history'
        <4>1. \A s \in Calls : request'[s] # Nothing /\ request'[s].view = "history" => Kept(s)
          BY <1>1, <1>4 DEF OfList
        <4> QED
          BY <1>2, <2>1, <4>1 DEF OnList, HistorySelected, Kept
      <3> QED
        BY <2>1, <2>2, <3>1 DEF HistorySelected
    <2>7. LibrarySelected'
      <3> SUFFICES ASSUME LibraryShown' PROVE LibrarySelected'
        BY DEF LibrarySelected
      <3>1. LibraryShown
        BY <1>2, <1>b DEF LibraryShown
      <3>2. /\ library.body = attached /\ library.items # <<>>
            /\ body[attached].items = library.items /\ OneListing(library.type, library.items)
            /\ Len(library.items) = library.offset + 1
        BY <2>1, <2>3, <3>1 DEF OnList, LibrarySelected
      <3>3. AllLoaded'
        BY <1>2, <2>3, <3>2 DEF AllLoaded, OneListing
      <3>4. \A s \in Calls : ~(AskedLibrary(s) /\ request[s].body = attached)
        BY <2>3, <3>1 DEF OnList, LibrarySelected
      <3>5. \A s \in Calls : AskedLibrary(s)' /\ request'[s].body = attached' => s = r
        <4>1. \A s \in Calls : AskedLibrary(s)' => OfList(s)
          BY DEF AskedLibrary, OfList
        <4> QED
          BY <1>4, <2>1, <3>4, <4>1 DEF AskedLibrary, Kept
      <3>6. \A s \in Calls : AskedLibrary(s)' /\ request'[s].body = attached' =>
              /\ s = latest' /\ request'[s].token = token'
              /\ request'[s].want = [type |-> library'.type, offset |-> library'.offset] /\ AllLoaded'
              /\ body'[attached'].kind = (IF request'[s].appending THEN "grid" ELSE "loading")
              /\ ~body'[attached'].button
        BY <1>1, <1>2, <1>5, <1>d, <2>1, <2>2, <3>3, <3>5
      <3>7. \A s \in Calls : AskedLibrary(s)' /\ s = latest' => request'[s].body = attached'
        BY <1>1, <1>5, <2>1, <3>2
      <3>8. /\ library'.grid = attached' /\ library'.body = attached' /\ library'.items # <<>>
            /\ body'[attached'].items = library'.items /\ OneListing(library'.type, library'.items)
        BY <1>2, <2>1, <2>2, <3>2
      <3>9. body'[attached'].kind = "grid" /\ ~body'[attached'].button
        BY <2>1, <2>2
      <3> QED
        BY <3>6, <3>7, <3>8, <3>9 DEF LibrarySelected, OneListing
    <2> QED
      BY <2>5, <2>6, <2>7 DEF OnList
  <1>7. CASE ~Appends
    <2>1. /\ attached' = Len(body) + 1 /\ Len(body') = Len(body) + 1
          /\ body'[Len(body) + 1].of = "library"
          /\ body'[Len(body) + 1].kind = "loading" /\ ~body'[Len(body) + 1].button
          /\ \A b \in 1..Len(body) : body'[b] = body[b]
      BY <1>3, <1>7 DEF Grows
    <2>2. q.body = Len(body) + 1 /\ ~q.appending
      BY <1>1, <1>7
    <2>3. OwnBodies'
      <3>1. \A s \in Calls : OfList(s) =>
              \/ Kept(s)
              \/ request'[s].body \in 1..Len(body') /\ body'[request'[s].body].of = request'[s].view
        BY <1>c, <1>1, <1>4, <2>1, <2>2
      <3>2. /\ Len(body') \in Nat /\ Len(body') >= Len(body)
            /\ \A b \in 1..Len(body) : body'[b].of = body[b].of
        BY <1>c, <2>1
      <3>3. \A b \in {library'.grid, library'.body, library'.more} :
              \/ b \in {library.grid, library.body, library.more, 0}
              \/ b \in 1..Len(body) /\ body[b].of = "library"
        BY <1>2
      <3>4. library'.grid # 0 => library'.body # 0
        BY <1>2 DEF OnList, OwnBodies
      <3> QED
        BY <3>1, <3>2, <3>3, <3>4, BodiesKept DEF OnList
    <2>4. \A s \in Calls : OfList(s) /\ request'[s].body = attached' => s = r
      <3>1. ASSUME NEW s \in Calls, OfList(s), request'[s].body = attached', Kept(s)
            PROVE  FALSE
        <4>1. request[s].body \in 1..Len(body)
          BY <3>1 DEF OnList, OwnBodies, Kept, OfList
        <4> QED
          BY <1>c, <2>1, <3>1, <4>1 DEF Kept
      <3> QED
        BY <1>4, <3>1
    <2>5. HistorySelected'
      <3>1. \A s \in Calls : ~(request'[s] # Nothing /\ request'[s].view = "history"
                                  /\ request'[s].body = attached')
        BY <1>1, <1>5, <2>4 DEF OfList
      <3> QED
        BY <2>1, <3>1 DEF HistorySelected
    <2>6. LibrarySelected'
      <3> SUFFICES ASSUME LibraryShown' PROVE LibrarySelected'
        BY DEF LibrarySelected
      <3>1. LibraryShown
        BY <1>2, <1>b DEF LibraryShown
      <3>2. off = library.offset /\ body[attached].kind = "error"
        <4>1. Shows(attached).button => Appends
          BY <1>b, <3>1 DEF OnList, LibrarySelected, Appends
        <4> QED
          BY <1>a, <1>b, <1>7, <4>1
      <3>3. AllLoaded'
        <4>1. AllLoaded
          BY <3>1, <3>2 DEF OnList, LibrarySelected
        <4> QED
          BY <1>2, <3>2, <4>1 DEF AllLoaded, OneListing
      <3>5. \A s \in Calls : AskedLibrary(s)' /\ request'[s].body = attached' => s = r
        <4>1. \A s \in Calls : AskedLibrary(s)' => OfList(s)
          BY DEF AskedLibrary, OfList
        <4> QED
          BY <2>4, <4>1
      <3>9. body'[attached'].kind = "loading" /\ ~body'[attached'].button
        BY <2>1
      <3>6. \A s \in Calls : AskedLibrary(s)' /\ request'[s].body = attached' =>
              /\ s = latest' /\ request'[s].token = token'
              /\ request'[s].want = [type |-> library'.type, offset |-> library'.offset] /\ AllLoaded'
              /\ body'[attached'].kind = (IF request'[s].appending THEN "grid" ELSE "loading")
              /\ ~body'[attached'].button
        BY <1>1, <1>2, <1>5, <1>d, <2>2, <3>3, <3>5, <3>9
      <3>7. \A s \in Calls : AskedLibrary(s)' /\ s = latest' => request'[s].body = attached'
        BY <1>1, <1>5, <2>1, <2>2
      <3> QED
        BY <3>6, <3>7, <3>9 DEF LibrarySelected
    <2> QED
      BY <2>3, <2>5, <2>6 DEF OnList
  <1> QED
    BY <1>6, <1>7

\* The body b0 of the history is drawn or fails: nothing but the history sees it.
LEMMA HistoryRedrawn ==
  ASSUME Phone, MiniAppTypeOK, OnList, NEW r \in Calls, Drops(r), request[r] # Nothing,
         request[r].view = "history", NEW w \in Bodies, w.of = "history",
         \A b \in 1..Len(body) : body'[b] = IF b = request[r].body THEN w ELSE body[b],
         Len(body') = Len(body),
         w.kind = "grid" => w.items = <<request[r].want>>,
         attached' = attached, library' = library, history' = history, latest' = latest,
         token' = token, overtaken' = overtaken
  PROVE  OnList'
  <1>1. \A s \in Calls : OfList(s) => s # r /\ Kept(s) /\ request'[s] = request[s]
    BY Dropped
  <1>2. request[r].body \in 1..Len(body) /\ body[request[r].body].of = "history" /\ Len(body) \in Nat
    BY BodyTypes DEF OnList, OwnBodies
  <1>3. attached # 0 => attached \in 1..Len(body)
    BY DEF MiniAppTypeOK
  <1>4. OwnBodies'
    <2>1. \A b \in 1..Len(body) : body'[b].of = body[b].of
      BY <1>2
    <2>2. library'.grid # 0 => library'.body # 0
      BY DEF OnList, OwnBodies
    <2> QED
      BY <1>1, <1>2, <2>1, <2>2, BodiesKept DEF OnList
  <1>5. HistorySelected'
    <2>1. \A s \in Calls : request'[s] # Nothing /\ request'[s].view = "history"
            /\ request'[s].body = attached' => request'[s].want = history'
      BY <1>1 DEF OnList, HistorySelected, OfList
    <2>2. attached' # 0 /\ body'[attached'].of = "history" /\ body'[attached'].kind = "grid"
            => body'[attached'].items = <<history'>>
      <3>1. CASE attached = request[r].body
        <4>1. request[r].want = history
          BY <3>1 DEF OnList, HistorySelected
        <4> QED
          BY <1>2, <3>1, <4>1
      <3>2. CASE attached # request[r].body
        BY <1>3, <3>2 DEF OnList, HistorySelected
      <3> QED
        BY <3>1, <3>2
    <2> QED
      BY <2>1, <2>2 DEF HistorySelected
  <1>6. LibrarySelected'
    <2> SUFFICES ASSUME LibraryShown' PROVE LibrarySelected'
      BY DEF LibrarySelected
    <2>1. attached # request[r].body /\ body'[attached] = body[attached]
      BY <1>2, <1>3 DEF LibraryShown
    <2>2. LibraryShown
      BY <2>1 DEF LibraryShown
    <2>3. \A s \in Calls : AskedLibrary(s)' => AskedLibrary(s) /\ request'[s] = request[s]
      BY <1>1 DEF AskedLibrary, OfList
    <2>4. AllLoaded' <=> AllLoaded
      BY DEF AllLoaded, OneListing
    <2>5. attached' = attached /\ body'[attached'] = body[attached]
      BY <2>1
    <2> QED
      BY <2>2, <2>3, <2>4, <2>5 DEF OnList, LibrarySelected
  <1> QED
    BY <1>4, <1>5, <1>6 DEF OnList

\* An answer of the library changes bodies of the library: the history does not see it.
LEMMA HistoryUnseen ==
  ASSUME Phone, MiniAppTypeOK, OnList, NEW r \in Calls, Drops(r),
         attached' = attached, history' = history,
         \A b \in 1..Len(body) : /\ body'[b].of = body[b].of
                                 /\ body[b].of = "history" =>
                                      body'[b].kind = body[b].kind /\ body'[b].items = body[b].items
  PROVE  HistorySelected'
  <1>1. \A s \in Calls : OfList(s) => s # r /\ Kept(s) /\ request'[s] = request[s]
    BY Dropped
  <1>2. attached # 0 => attached \in 1..Len(body)
    BY DEF MiniAppTypeOK
  <1>3. \A s \in Calls : request'[s] # Nothing /\ request'[s].view = "history"
          /\ request'[s].body = attached' => request'[s].want = history'
    BY <1>1 DEF OnList, HistorySelected, OfList
  <1>4. attached' # 0 /\ body'[attached'].of = "history" /\ body'[attached'].kind = "grid"
          => body'[attached'].items = <<history'>>
    BY <1>2 DEF OnList, HistorySelected
  <1> QED
    BY <1>3, <1>4 DEF HistorySelected

LEMMA AtLeastItself == \A n \in Nat : n >= n
  OBVIOUS

\* A request of the library fails: an error in place of what it was to draw.
LEMMA LibraryFails ==
  ASSUME Phone, MiniAppTypeOK, OnList, NEW r \in Calls, Drops(r), request[r] # Nothing,
         request[r].view = "library",
         \A b \in 1..Len(body) :
            body'[b] = IF b = request[r].body
                         THEN [body[b] EXCEPT !.kind = "error", !.items = <<>>, !.button = FALSE]
                         ELSE body[b],
         Len(body') = Len(body),
         attached' = attached, library' = library, history' = history, latest' = latest,
         token' = token, overtaken' = overtaken
  PROVE  OnList'
  <1>1. \A s \in Calls : OfList(s) => s # r /\ Kept(s) /\ request'[s] = request[s]
    BY Dropped
  <1>2. request[r].body \in 1..Len(body) /\ body[request[r].body].of = "library" /\ Len(body) \in Nat
    BY BodyTypes DEF OnList, OwnBodies
  <1>3. attached # 0 => attached \in 1..Len(body)
    BY AttachedIn
  <1>a. /\ \A b \in 1..Len(body) : body'[b].of = body[b].of
        /\ body'[request[r].body].kind = "error" /\ ~body'[request[r].body].button
    BY <1>2, BodyTypes DEF Bodies
  <1>4. OwnBodies'
    <2>1. \A b \in {library'.grid, library'.body, library'.more} :
            \/ b \in {library.grid, library.body, library.more, 0}
            \/ b \in 1..Len(body) /\ body[b].of = "library"
      OBVIOUS
    <2>2. OwnBodies /\ (library'.grid # 0 => library'.body # 0)
      BY DEF OnList, OwnBodies
    <2>3. Len(body') \in Nat /\ Len(body') >= Len(body) /\ \A b \in 1..Len(body) : body'[b].of = body[b].of
      <3>1. Len(body') \in Nat
        BY <1>2, Zenon
      <3>2. Len(body') >= Len(body)
        BY <1>2, AtLeastItself, Zenon
      <3> QED
        BY <1>a, <3>1, <3>2, Zenon
    <2>4. \A s \in Calls : OfList(s) => Kept(s)
      BY <1>1
    <2> QED
      BY <2>1, <2>2, <2>3, <2>4, BodiesKept, Zenon
  <1>5. HistorySelected'
    BY <1>2, <1>a, HistoryUnseen
  <1>6. LibrarySelected'
    <2> SUFFICES ASSUME LibraryShown' PROVE LibrarySelected'
      BY DEF LibrarySelected
    <2>1. LibraryShown
      BY <1>3, <1>a DEF LibraryShown
    <2>3. \A s \in Calls : AskedLibrary(s)' =>
            s # r /\ AskedLibrary(s) /\ request'[s] = request[s]
      BY <1>1 DEF AskedLibrary, OfList
    <2>4. AllLoaded' <=> AllLoaded
      BY DEF AllLoaded, OneListing
    <2>5. CASE attached # request[r].body
      <3>1. body'[attached] = body[attached]
        BY <1>3, <2>1, <2>5 DEF LibraryShown
      <3>2. attached' = attached /\ body'[attached'] = body[attached]
        BY <3>1
      <3> QED
        BY <2>1, <2>3, <2>4, <3>2 DEF OnList, LibrarySelected
    <2>6. CASE attached = request[r].body
      <3>1. AskedLibrary(r)
        BY DEF AskedLibrary
      <3>2. r = latest /\ AllLoaded
        BY <2>1, <2>6, <3>1 DEF OnList, LibrarySelected
      <3>3. \A s \in Calls : AskedLibrary(s) /\ request[s].body = attached => s = r
        BY <2>1, <3>2 DEF OnList, LibrarySelected
      <3>4. \A s \in Calls : ~(AskedLibrary(s)' /\ request'[s].body = attached')
        BY <2>3, <3>3
      <3>5. \A s \in Calls : ~(AskedLibrary(s)' /\ s = latest')
        BY <2>3, <3>2
      <3>6. body'[attached'].kind = "error" /\ ~body'[attached'].button
        BY <1>a, <2>6
      <3> QED
        BY <2>4, <3>2, <3>4, <3>5, <3>6 DEF LibrarySelected
    <2> QED
      BY <2>5, <2>6
  <1> QED
    BY <1>4, <1>5, <1>6 DEF OnList

\* The page at an offset, if there is one.
PageAt(type, off) == IF off < Pages[type] THEN <<[type |-> type, offset |-> off]>> ELSE <<>>

Continues(type, off, items) ==
  /\ items \in Seq(Selections) /\ OneListing(type, items)
  /\ Len(items) < Pages[type] => Len(items) = off + 1

\* A page of the library is added to what is loaded.
LEMMA Listed ==
  ASSUME Phone, NEW type \in Types, NEW off \in Nat, NEW items \in Seq(Selections),
         NEW page \in Seq(Selections), Len(items) = off, OneListing(type, items),
         page = PageAt(type, off)
  PROVE  Continues(type, off, items \o page) /\ (off = 0 => items \o page = page)
  <1>0. Pages[type] \in Nat
    BY DEF Phone
  <1>1. /\ items \o page \in Seq(Selections) /\ Len(items \o page) = Len(items) + Len(page)
        /\ \A i \in 1..Len(items) + Len(page) :
             (items \o page)[i] = IF i <= Len(items) THEN items[i] ELSE page[i - Len(items)]
    BY ConcatProperties
  <1>2. DOMAIN (items \o page) = 1..(Len(items) + Len(page)) /\ DOMAIN items = 1..Len(items)
    BY <1>1, LenProperties
  <1>4. off = 0 => items \o page = page
    <2>1. off = 0 => items = <<>>
      BY EmptySeq
    <2> QED
      BY <2>1, ConcatEmptySeq
  <1>5. CASE off < Pages[type]
    <2>1. Len(page) = 1 /\ page[1] = [type |-> type, offset |-> off]
      BY <1>5 DEF PageAt
    <2>2. ASSUME NEW i \in DOMAIN (items \o page)
          PROVE  (items \o page)[i] = [type |-> type, offset |-> i - 1]
      <3>1. CASE i <= off
        BY <1>1, <1>2, <2>1, <3>1 DEF OneListing
      <3>2. CASE i > off
        <4>1. i = off + 1
          BY <1>2, <2>1, <3>2
        <4>2. (items \o page)[i] = page[1]
          BY <1>1, <2>1, <4>1
        <4> QED
          BY <2>1, <4>1, <4>2
      <3> QED
        BY <1>2, <3>1, <3>2
    <2>3. OneListing(type, items \o page)
      BY <2>2 DEF OneListing
    <2> QED
      BY <1>0, <1>1, <1>4, <2>1, <2>3 DEF Continues
  <1>6. CASE ~(off < Pages[type])
    <2>1. page = <<>>
      BY <1>6 DEF PageAt
    <2>2. items \o page = items
      BY <2>1, ConcatEmptySeq
    <2> QED
      BY <1>0, <1>4, <1>6, <2>2 DEF Continues
  <1> QED
    BY <1>5, <1>6

\* A page of the library arrives: it completes what is on screen, or comes too late for it.
LEMMA LibraryArrives ==
  ASSUME Phone, MiniAppTypeOK, OnList, NEW r \in Calls, drawLibrary(r)
  PROVE  OnList'
  <1>a. PICK q \in Asks, items \in Seq(Selections), grid \in Nat :
          q = request[r] /\ q.view = "library" /\ q.token = token /\ LibraryDrawn(q, items, grid)
    BY drawLibraryIs
  <1>b. /\ attached' = attached /\ history' = history /\ latest' = latest /\ token' = token
        /\ (overtaken' <=> overtaken \/ latest # r)
    BY DEF drawLibrary, screen, MiniAppTypeOK
  <1>c. Drops(r) /\ request[r] # Nothing
    <2>1. Forget(r) /\ request[r] # Nothing
      BY DEF drawLibrary, Arrived
    <2> QED
      BY <2>1, ForgetIs
  <1>1. \A s \in Calls : OfList(s) => s # r /\ Kept(s) /\ request'[s] = request[s]
    BY <1>c, Dropped
  <1>2. q.body \in 1..Len(body) /\ body[q.body].of = "library" /\ Len(body) \in Nat
    BY <1>a, <1>c, BodyTypes DEF OnList, OwnBodies
  <1>3. attached # 0 => attached \in 1..Len(body)
    BY AttachedIn
  <1>4. library.grid # 0 => body[library.grid].of = "library"
    BY DEF OnList, OwnBodies
  <1>5. /\ Len(body') = Len(body)
        /\ \A b \in 1..Len(body) :
             /\ body'[b].of = body[b].of
             /\ body[b].of = "history" =>
                  body'[b].kind = body[b].kind /\ body'[b].items = body[b].items
    <2>1. CASE items = <<>>
      BY <1>a, <1>2, <2>1, BodyTypes DEF LibraryDrawn, Bodies
    <2>2. CASE items # <<>>
      <3>1. \A b \in 1..Len(body) : body[b].of = "history" => b # grid /\ b # q.body
        <4>1. grid = q.body \/ grid = library.grid
          BY <1>a DEF LibraryDrawn
        <4> QED
          BY <1>2, <1>4, <4>1
      <3>2. /\ Len(body') = Len(body)
            /\ \A b \in 1..Len(body) :
                 /\ body'[b].of = body[b].of
                 /\ body'[b].kind = IF b = grid /\ ~q.appending THEN "grid" ELSE body[b].kind
                 /\ b # grid => body'[b].items = body[b].items
        BY <1>a, <2>2 DEF LibraryDrawn
      <3> QED
        BY <3>1, <3>2
    <2> QED
      BY <2>1, <2>2
  <1>6. OwnBodies'
    <2>1. /\ \A b \in {library'.grid, library'.body, library'.more} :
               \/ b \in {library.grid, library.body, library.more, 0}
               \/ b \in 1..Len(body) /\ body[b].of = "library"
          /\ library'.grid # 0 => library'.body # 0
      <3>1. CASE items = <<>>
        BY <1>a, <3>1 DEF LibraryDrawn, OnList, OwnBodies
      <3>2. CASE items # <<>>
        <4>1. /\ library'.grid = (IF q.appending THEN library.grid ELSE q.body)
              /\ library'.body = q.body /\ library'.more \in {q.body, 0}
          BY <1>a, <3>2 DEF LibraryDrawn
        <4> QED
          BY <1>2, <4>1
      <3> QED
        BY <3>1, <3>2
    <2>2. Len(body') \in Nat /\ Len(body') >= Len(body)
          /\ \A b \in 1..Len(body) : body'[b].of = body[b].of
      BY <1>2, <1>5, AtLeastItself, Zenon
    <2>3. OwnBodies /\ \A s \in Calls : OfList(s) => Kept(s)
      BY <1>1 DEF OnList
    <2> QED
      BY <2>1, <2>2, <2>3, BodiesKept, Zenon
  <1>7. HistorySelected'
    BY <1>b, <1>c, <1>5, HistoryUnseen
  <1>8. LibrarySelected'
    <2> SUFFICES ASSUME LibraryShown' PROVE LibrarySelected'
      BY DEF LibrarySelected
    <2>1. LibraryShown /\ latest = r
      BY <1>b, <1>3, <1>5 DEF LibraryShown
    <2>2. AskedLibrary(r)
      BY <1>a, <1>c DEF AskedLibrary
    <2>3. q.body = attached
      BY <1>a, <2>1, <2>2 DEF OnList, LibrarySelected
    <2>4. /\ q.want = [type |-> library.type, offset |-> library.offset] /\ AllLoaded
          /\ body[attached].kind = (IF q.appending THEN "grid" ELSE "loading")
      BY <1>a, <2>1, <2>2, <2>3 DEF OnList, LibrarySelected
    <2>5. \A s \in Calls : AskedLibrary(s)' =>
            AskedLibrary(s) /\ s # r /\ request'[s] = request[s]
      BY <1>1 DEF AskedLibrary, OfList
    <2>6. \A s \in Calls : ~(AskedLibrary(s)' /\ request'[s].body = attached')
      BY <1>b, <2>1, <2>5 DEF OnList, LibrarySelected
    <2>7. \A s \in Calls : ~(AskedLibrary(s)' /\ s = latest')
      BY <1>b, <2>1, <2>5
    <2>8. PICK type \in Types, off \in Nat, had \in Seq(Selections), page \in Seq(Selections) :
            type = library.type /\ off = library.offset /\ had = library.items /\ page = Page(q)
      BY <1>a DEF MiniAppTypeOK, LibraryDrawn
    <2>9. /\ OneListing(type, had \o page)
          /\ Len(had \o page) < Pages[type] => Len(had \o page) = off + 1
          /\ off = 0 => had \o page = page
      <3>1. Len(had) = off /\ OneListing(type, had)
        BY <2>4, <2>8 DEF AllLoaded
      <3>2. page = PageAt(type, off)
        BY <2>4, <2>8 DEF Page, PageAt
      <3>3. Continues(type, off, had \o page) /\ (off = 0 => had \o page = page)
        BY <3>1, <3>2, Listed
      <3> QED
        BY <3>3 DEF Continues
    <2>a. /\ items = library.items \o Page(q)
          /\ library'.type = library.type /\ library'.offset = library.offset
          /\ library'.items = items
      BY <1>a, <2>8, <2>9 DEF LibraryDrawn
    <2>b. /\ OneListing(library'.type, library'.items)
          /\ Len(items) < Pages[q.want.type] => Len(library'.items) = library'.offset + 1
      BY <2>4, <2>8, <2>9, <2>a
    <2>c. attached' = attached /\ attached \in 1..Len(body)
      BY <1>b, <1>2, <2>3
    <2>d. CASE items = <<>>
      <3>1. body'[attached'].kind = "empty" /\ ~body'[attached'].button
        <4>1. body'[attached] = [body[attached] EXCEPT !.kind = "empty", !.items = <<>>,
                                                       !.button = FALSE]
          BY <1>a, <2>3, <2>c, <2>d DEF LibraryDrawn
        <4> QED
          BY <2>c, <4>1, BodyTypes DEF Bodies
      <3> QED
        BY <2>6, <2>7, <3>1 DEF LibrarySelected
    <2>e. CASE items # <<>>
      <3>1. /\ library'.grid = grid /\ library'.body = q.body
            /\ grid = (IF q.appending THEN library.grid ELSE q.body)
            /\ body'[attached].kind = (IF attached = grid /\ ~q.appending THEN "grid"
                                                                          ELSE body[attached].kind)
            /\ body'[attached].items = (IF attached # grid THEN body[attached].items
                                        ELSE IF q.appending THEN body[attached].items \o Page(q)
                                                            ELSE items)
            /\ body'[attached].button => Len(items) < Pages[q.want.type]
        BY <1>a, <2>3, <2>c, <2>e DEF LibraryDrawn
      <3>2. q.appending => library.grid = attached /\ body[attached].items = library.items
        BY <2>1, <2>4 DEF OnList, LibrarySelected
      <3>3. body'[attached].kind = "grid" /\ grid = attached /\ body'[attached].items = items
        BY <2>3, <2>4, <2>a, <3>1, <3>2
      <3>4. /\ library'.grid = attached' /\ library'.body = attached' /\ library'.items # <<>>
            /\ body'[attached'].items = library'.items
        BY <2>3, <2>a, <2>c, <2>e, <3>1, <3>3
      <3>5. body'[attached'].kind = "grid"
        BY <2>c, <3>3
      <3>6. body'[attached'].button => Len(library'.items) = library'.offset + 1
        BY <2>b, <2>c, <3>1
      <3> QED
        BY <2>6, <2>7, <2>b, <3>4, <3>5, <3>6 DEF LibrarySelected
    <2> QED
      BY <2>d, <2>e
  <1> QED
    BY <1>6, <1>7, <1>8 DEF OnList

\* A request that is not for a list leaves the lists' requests alone.
LEMMA OtherAsked ==
  ASSUME NEW r \in Calls, NEW q \in Asks, Takes(r, q), q.view \notin {"library", "history"}
  PROVE  \A s \in Calls : OfList(s) => Kept(s)
  BY DEF Takes, OfList, Kept

\* A view is opened.
LEMMA ShowList ==
  ASSUME Phone, MiniAppTypeOK, OnList, NEW v \in Views, show(v)
  PROVE  OnList'
  <1>1. PICK t \in Nat : t = token + 1
    BY DEF MiniAppTypeOK
  <1>2. token' = token + 1
    BY showIs
  <1>3. CASE v = "library"
    <2>1. PICK type \in Types : type = library.type
      BY DEF MiniAppTypeOK
    <2>2. FreshLibrary(t, type)
      BY <1>1, <1>3, <2>1 DEF show
    <2> QED
      BY <1>1, <1>2, <2>2, FreshAsked
  <1>4. CASE v = "history"
    <2>1. PICK want \in Selections : want = history
      BY DEF MiniAppTypeOK
    <2>2. drawHistory(t, want)
      BY <1>1, <1>4, <2>1 DEF show
    <2> QED
      BY <2>2, HistoryAsked
  <1>5. CASE v \notin {"library", "history"}
    <2>1. attached' = 0 /\ body' = body /\ library' = library /\ history' = history
      BY <1>5 DEF show, lists
    <2>2. \A s \in Calls : OfList(s) => Kept(s)
      <3>1. CASE v = "upload"
        <4>1. request' = request
          BY <3>1 DEF show
        <4> QED
          BY <4>1 DEF OfList, Kept
      <3>2. CASE v # "upload"
        <4>1. PICK r \in Calls, q \in Asks : Takes(r, q) /\ q.view = v
          BY <3>2, showIs
        <4> QED
          BY <1>5, <4>1, OtherAsked
      <3> QED
        BY <3>1, <3>2
    <2> QED
      BY <2>1, <2>2, ListLeft
  <1> QED
    BY <1>3, <1>4, <1>5

LEMMA OnListStep ==
  ASSUME Phone, MiniAppTypeOK, OnView, OnList, [MiniAppNext]_miniAppVars
  PROVE  OnList'
  <1>0. CASE UNCHANGED miniAppVars
    <2>1. /\ body' = body /\ attached' = attached /\ library' = library /\ history' = history
          /\ latest' = latest /\ token' = token /\ overtaken' = overtaken
      BY <1>0 DEF miniAppVars, screen, lists, upload, server, notes
    <2>2. \A s \in Calls : OfList(s) => Kept(s)
      <3>1. request' = request
        BY <1>0 DEF miniAppVars, screen, lists, upload, server, notes
      <3> QED
        BY <3>1 DEF OfList, Kept
    <2> QED
      BY <2>1, <2>2, ListStays
  <1>1. ASSUME NEW r \in Calls, Answer(r)
        PROVE  OnList'
    <2>1. /\ body' = body /\ attached' = attached /\ library' = library /\ history' = history
          /\ latest' = latest /\ token' = token /\ overtaken' = overtaken
      BY <1>1 DEF Answer, screen, lists, upload, server, notes
    <2>2. \A s \in Calls : OfList(s) => Kept(s)
      <3>1. request' = [request EXCEPT ![r].status = valid, ![r].active = active] /\ request[r] # Nothing
        BY <1>1 DEF Answer
      <3>2. PICK q \in Asks : q = request[r]
        BY <3>1, AskTypes
      <3>3. request'[r] = [q EXCEPT !.status = valid, !.active = active]
            /\ \A s \in Calls : s # r => request'[s] = request[s]
        BY <3>1, <3>2, AskTypes
      <3>a. /\ request'[r].view = q.view /\ request'[r].token = q.token /\ request'[r].want = q.want
            /\ request'[r].body = q.body /\ request'[r].appending = q.appending
        BY <3>3 DEF Asks
      <3>4. Kept(r)
        BY <3>1, <3>2, <3>a DEF Kept
      <3> QED
        BY <3>3, <3>4 DEF OfList, Kept
    <2> QED
      BY <2>1, <2>2, ListStays

  <1>2. ASSUME NEW r \in Calls, Discard(r)
        PROVE  OnList'
    <2>1. /\ body' = body /\ attached' = attached /\ library' = library /\ history' = history
          /\ latest' = latest /\ token' = token /\ overtaken' = overtaken
      BY <1>2 DEF Discard, screen, lists, upload, server, notes
    <2>2. \A s \in Calls : OfList(s) => Kept(s)
      <3>1. Forget(r)
        BY <1>2 DEF Discard
      <3> QED
        BY <3>1, ForgetIs, Dropped
    <2> QED
      BY <2>1, <2>2, ListStays

  <1>3. ASSUME NEW r \in Calls, drawHome(r)
        PROVE  OnList'
    <2>1. /\ body' = body /\ attached' = attached /\ library' = library /\ history' = history
          /\ latest' = latest /\ token' = token /\ overtaken' = overtaken
      BY <1>3 DEF drawHome, screen, lists, upload, server, notes
    <2>2. \A s \in Calls : OfList(s) => Kept(s)
      <3>1. Forget(r)
        BY <1>3 DEF drawHome
      <3> QED
        BY <3>1, ForgetIs, Dropped
    <2> QED
      BY <2>1, <2>2, ListStays

  <1>4. ASSUME NEW r \in Calls, drawLibrary(r)
        PROVE  OnList'
    BY <1>4, LibraryArrives

  <1>5. ASSUME NEW r \in Calls, HistoryArrives(r)
        PROVE  OnList'
    <2>1. PICK q \in Asks, w \in Bodies :
            /\ q = request[r] /\ q.view = "history"
            /\ w.of = "history" /\ (w.kind = "grid" => w.items = <<q.want>>)
            /\ Redraws(q.body, w)
      BY <1>5, HistoryArrivesIs
    <2>2. Drops(r) /\ request[r] # Nothing
      <3>1. Forget(r) /\ request[r] # Nothing
        BY <1>5 DEF HistoryArrives, Arrived
      <3> QED
        BY <3>1, ForgetIs
    <2>3. /\ attached' = attached /\ library' = library /\ history' = history
          /\ latest' = latest /\ token' = token /\ overtaken' = overtaken
      BY <1>5 DEF HistoryArrives, screen, lists, upload, server, notes
    <2>4. /\ w.of = "history" /\ request[r].view = "history"
          /\ w.kind = "grid" => w.items = <<request[r].want>>
      BY <2>1
    <2>5. /\ \A b \in 1..Len(body) : body'[b] = IF b = request[r].body THEN w ELSE body[b]
          /\ Len(body') = Len(body)
      BY <2>1 DEF Redraws
    <2> QED
      BY <2>2, <2>3, <2>4, <2>5, HistoryRedrawn

  <1>6. ASSUME NEW r \in Calls, drawActive(r)
        PROVE  OnList'
    <2>1. /\ body' = body /\ attached' = attached /\ library' = library /\ history' = history
          /\ latest' = latest /\ token' = token /\ overtaken' = overtaken
      BY <1>6 DEF drawActive, screen, lists, upload, server, notes
    <2>2. \A s \in Calls : OfList(s) => Kept(s)
      <3>1. Forget(r)
        BY <1>6 DEF drawActive
      <3> QED
        BY <3>1, ForgetIs, Dropped
    <2> QED
      BY <2>1, <2>2, ListStays

  <1>7. ASSUME NEW r \in Calls, ShowError(r)
        PROVE  OnList'
    <2>1. PICK q \in Asks :
            /\ q = request[r]
            /\ q.view \notin {"library", "history"} => body' = body
            /\ q.view \in {"library", "history"} =>
                 /\ Len(body') = Len(body)
                 /\ \A b \in 1..Len(body) :
                      body'[b] = IF b = q.body
                                   THEN [body[b] EXCEPT !.kind = "error", !.items = <<>>, !.button = FALSE]
                                   ELSE body[b]
      BY <1>7, ShowErrorIs
    <2>2. Drops(r) /\ request[r] # Nothing
      <3>1. Forget(r) /\ request[r] # Nothing
        BY <1>7 DEF ShowError
      <3> QED
        BY <3>1, ForgetIs
    <2>3. /\ attached' = attached /\ library' = library /\ history' = history
          /\ latest' = latest /\ token' = token /\ overtaken' = overtaken
      BY <1>7 DEF ShowError, screen, lists, upload, server, notes
    <2>4. CASE q.view = "library"
      BY <2>1, <2>2, <2>3, <2>4, LibraryFails
    <2>5. CASE q.view = "history"
      <3>1. request[r].view = "history"
        BY <2>1, <2>5
      <3>2. q.body \in 1..Len(body) /\ body[q.body].of = "history"
        BY <2>1, <2>2, <2>5 DEF OnList, OwnBodies
      <3>3. <<>> \in Seq(Selections) /\ body[q.body] \in Bodies
        BY <3>2, EmptySeq, BodyTypes
      <3>4. PICK w \in Bodies :
              w = [body[q.body] EXCEPT !.kind = "error", !.items = <<>>, !.button = FALSE]
        BY <3>3 DEF Bodies
      <3>5. w.of = "history" /\ w.kind = "error"
        BY <3>2, <3>3, <3>4 DEF Bodies
      <3>6. /\ Len(body') = Len(body)
            /\ \A b \in 1..Len(body) : body'[b] = IF b = request[r].body THEN w ELSE body[b]
        BY <2>1, <2>5, <3>4
      <3> QED
        BY <2>2, <2>3, <3>1, <3>5, <3>6, HistoryRedrawn
    <2>6. CASE q.view \notin {"library", "history"}
      <3>1. \A s \in Calls : OfList(s) => Kept(s)
        BY <2>2, Dropped
      <3>2. body' = body
        BY <2>1, <2>6
      <3> QED
        BY <2>3, <3>1, <3>2, ListStays
    <2> QED
      BY <2>4, <2>5, <2>6

  <1>8. ASSUME NEW r \in Calls, KeepList(r)
        PROVE  OnList'
    <2>1. /\ body' = body /\ attached' = attached /\ library' = library /\ history' = history
          /\ latest' = latest /\ token' = token /\ overtaken' = overtaken
      BY <1>8 DEF KeepList, screen, lists, upload, server, notes
    <2>2. \A s \in Calls : OfList(s) => Kept(s)
      <3>1. Forget(r)
        BY <1>8 DEF KeepList
      <3> QED
        BY <3>1, ForgetIs, Dropped
    <2> QED
      BY <2>1, <2>2, ListStays

  <1>9. ASSUME NEW r \in Calls, expired(r)
        PROVE  OnList'
    <2>1. attached' = 0 /\ body' = body /\ library' = library /\ history' = history
      BY <1>9 DEF expired, screen, lists, upload, server, notes
    <2>2. \A s \in Calls : OfList(s) => Kept(s)
      <3>1. Forget(r)
        BY <1>9 DEF expired
      <3> QED
        BY <3>1, ForgetIs, Dropped
    <2> QED
      BY <2>1, <2>2, ListLeft

  <1>10. ASSUME NEW r \in Calls, GoHome(r)
        PROVE  OnList'
    <2>1. attached' = 0 /\ body' = body /\ library' = library /\ history' = history
      BY <1>10 DEF GoHome, screen, lists, upload, server, notes
    <2>2. \A s \in Calls : OfList(s) => Kept(s)
      <3>1. /\ request' = [request EXCEPT ![r] = [@ EXCEPT !.view = "home", !.token = token + 1,
                                                        !.quiet = "no", !.status = "asked"]]
            /\ request[r] # Nothing
        BY <1>10 DEF GoHome
      <3>2. request[r] \in Asks
        BY <3>1, AskTypes
      <3>3. /\ request'[r] = [request[r] EXCEPT !.view = "home", !.token = token + 1,
                                                !.quiet = "no", !.status = "asked"]
            /\ \A s \in Calls : s # r => request'[s] = request[s]
        BY <3>1, AskTypes
      <3>4. request'[r].view = "home"
        BY <3>2, <3>3 DEF Asks
      <3> QED
        BY <3>3, <3>4 DEF OfList, Kept
    <2> QED
      BY <2>1, <2>2, ListLeft

  <1>11. ASSUME NEW v \in Views, Switch(v)
        PROVE  OnList'
    <2>1. show(v)
      BY <1>11 DEF Switch
    <2> QED
      BY <2>1, ShowList

  <1>12. ASSUME NEW t \in Types, setLibraryType(t)
        PROVE  OnList'
    <2>1. FreshLibrary(token, t) /\ token' = token
      BY <1>12 DEF setLibraryType
    <2>2. PICK k \in Nat : k = token
      BY DEF MiniAppTypeOK
    <2>3. FreshLibrary(k, t)
      BY <2>1, <2>2 DEF FreshLibrary, Ask
    <2> QED
      BY <2>1, <2>2, <2>3, FreshAsked

  <1>13. ASSUME NEW t \in Types, SelectHistory(t)
        PROVE  OnList'
    <2>1. drawHistory(token, [type |-> t, offset |-> 0])
      BY <1>13 DEF SelectHistory
    <2>2. PICK k \in Nat, want \in Selections : k = token /\ want = [type |-> t, offset |-> 0]
      BY DEF MiniAppTypeOK, Selections
    <2>3. drawHistory(k, want)
      BY <2>1, <2>2 DEF drawHistory, Ask
    <2> QED
      BY <2>3, HistoryAsked

  <1>14. ASSUME LoadMore
        PROVE  OnList'
    BY <1>14, MoreAsked

  <1>15. ASSUME pager
        PROVE  OnList'
    <2>1. PICK t \in Nat, want \in Selections : drawHistory(t, want)
      BY <1>15, PagerIs
    <2> QED
      BY <2>1, HistoryAsked

  <1>16. ASSUME TryAgain
        PROVE  OnList'
    <2>1. CASE root = "error" /\ Ask(view, token, "no", NoWant, 0, FALSE)
                 /\ UNCHANGED <<attached, library, history, body, overtaken>>
      <3>1. PICK v \in Views, quiet \in Quietness : v = view /\ quiet = "no"
        BY DEF MiniAppTypeOK, Quietness
      <3>2. Ask(v, token, quiet, NoWant, 0, FALSE)
        BY <2>1, <3>1 DEF Ask
      <3>3. v \in {"home", "active"}
        BY <2>1, <3>1 DEF OnView, ErrorOnView
      <3>4. PICK r \in Calls, q \in Asks : Takes(r, q) /\ q.view = v
        BY <3>2, PlainAsk
      <3>5. \A s \in Calls : OfList(s) => Kept(s)
        BY <3>3, <3>4, OtherAsked
      <3>6. latest' = latest
        BY <3>2, <3>3, PlainAsk
      <3>7. /\ body' = body /\ attached' = attached /\ library' = library /\ history' = history
            /\ token' = token /\ overtaken' = overtaken
        BY <1>16, <2>1 DEF TryAgain
      <3> QED
        BY <3>5, <3>6, <3>7, ListStays
    <2>2. CASE drawHistory(token, history)
      <3>1. drawHistory(token, history)
        BY <2>2
      <3>2. PICK k \in Nat, want \in Selections : k = token /\ want = history
        BY DEF MiniAppTypeOK
      <3>3. drawHistory(k, want)
        BY <3>1, <3>2 DEF drawHistory, Ask
      <3> QED
        BY <3>3, HistoryAsked
    <2> QED
      BY <1>16, <2>1, <2>2 DEF TryAgain

  <1>17. ASSUME poll
        PROVE  OnList'
    <2>1. Ask("active", token, "poll", NoWant, 0, FALSE) /\ "active" \in Views /\ "poll" \in Quietness
      BY <1>17 DEF poll, Views, Quietness
    <2>2. PICK r \in Calls, q \in Asks : Takes(r, q) /\ q.view = "active"
      BY <2>1, PlainAsk
    <2>3. latest' = latest
      BY <2>1, PlainAsk
    <2>4. /\ body' = body /\ attached' = attached /\ library' = library /\ history' = history
          /\ token' = token /\ overtaken' = overtaken
      BY <1>17 DEF poll, screen, lists, upload, server, notes
    <2>5. \A s \in Calls : OfList(s) => Kept(s)
      BY <2>2, OtherAsked
    <2> QED
      BY <2>3, <2>4, <2>5, ListStays

  <1>18. ASSUME refresh
        PROVE  OnList'
    <2>1. Ask("active", token, "once", NoWant, 0, FALSE) /\ "active" \in Views /\ "once" \in Quietness
      BY <1>18 DEF refresh, Views, Quietness
    <2>2. PICK r \in Calls, q \in Asks : Takes(r, q) /\ q.view = "active"
      BY <2>1, PlainAsk
    <2>3. latest' = latest
      BY <2>1, PlainAsk
    <2>4. /\ body' = body /\ attached' = attached /\ library' = library /\ history' = history
          /\ token' = token /\ overtaken' = overtaken
      BY <1>18 DEF refresh, screen, lists, upload, server, notes
    <2>5. \A s \in Calls : OfList(s) => Kept(s)
      BY <2>2, OtherAsked
    <2> QED
      BY <2>3, <2>4, <2>5, ListStays

  <1>19. ASSUME historyCard
        PROVE  OnList'
    <2>1. /\ body' = body /\ attached' = attached /\ library' = library /\ history' = history
          /\ latest' = latest /\ token' = token /\ overtaken' = overtaken
      BY <1>19 DEF historyCard, screen, lists, upload, server, notes
    <2>2. \A s \in Calls : OfList(s) => Kept(s)
      <3>1. request' = request
        BY <1>19 DEF historyCard, screen, lists, upload, server, notes
      <3> QED
        BY <3>1 DEF OfList, Kept
    <2> QED
      BY <2>1, <2>2, ListStays

  <1>20. ASSUME transferCard
        PROVE  OnList'
    <2>1. /\ body' = body /\ attached' = attached /\ library' = library /\ history' = history
          /\ latest' = latest /\ token' = token /\ overtaken' = overtaken
      BY <1>20 DEF transferCard, screen, lists, upload, server, notes
    <2>2. \A s \in Calls : OfList(s) => Kept(s)
      <3>1. request' = request
        BY <1>20 DEF transferCard, screen, lists, upload, server, notes
      <3> QED
        BY <3>1 DEF OfList, Kept
    <2> QED
      BY <2>1, <2>2, ListStays

  <1>21. ASSUME Acted
        PROVE  OnList'
    <2>1. CASE acting.view = "history"
      <3>1. drawHistory(token, history)
        BY <1>21, <2>1 DEF Acted
      <3>2. PICK k \in Nat, want \in Selections : k = token /\ want = history
        BY DEF MiniAppTypeOK
      <3>3. drawHistory(k, want)
        BY <3>1, <3>2 DEF drawHistory, Ask
      <3> QED
        BY <3>3, HistoryAsked
    <2>2. CASE acting.view # "history"
      <3>1. Ask("active", token, "once", NoWant, 0, FALSE) /\ "active" \in Views /\ "once" \in Quietness
        BY <1>21, <2>2 DEF Acted, Views, Quietness
      <3>2. PICK r \in Calls, q \in Asks : Takes(r, q) /\ q.view = "active"
        BY <3>1, PlainAsk
      <3>3. latest' = latest
        BY <3>1, PlainAsk
      <3>4. /\ body' = body /\ attached' = attached /\ library' = library /\ history' = history
            /\ token' = token /\ overtaken' = overtaken
        BY <1>21, <2>2 DEF Acted, screen, lists, upload, server, notes
      <3>5. \A s \in Calls : OfList(s) => Kept(s)
        BY <3>2, OtherAsked
      <3> QED
        BY <3>3, <3>4, <3>5, ListStays
    <2> QED
      BY <2>1, <2>2

  <1>22. ASSUME ActingFails
        PROVE  OnList'
    <2>1. /\ body' = body /\ attached' = attached /\ library' = library /\ history' = history
          /\ latest' = latest /\ token' = token /\ overtaken' = overtaken
      BY <1>22 DEF ActingFails, screen, lists, upload, server, notes
    <2>2. \A s \in Calls : OfList(s) => Kept(s)
      <3>1. request' = request
        BY <1>22 DEF ActingFails, screen, lists, upload, server, notes
      <3> QED
        BY <3>1 DEF OfList, Kept
    <2> QED
      BY <2>1, <2>2, ListStays

  <1>23. ASSUME NEW f \in Sends, startTransfer(f)
        PROVE  OnList'
    <2>1. /\ body' = body /\ attached' = attached /\ library' = library /\ history' = history
          /\ latest' = latest /\ token' = token /\ overtaken' = overtaken
      BY <1>23 DEF startTransfer, screen, lists, upload, server, notes
    <2>2. \A s \in Calls : OfList(s) => Kept(s)
      <3>1. request' = request
        BY <1>23 DEF startTransfer, screen, lists, upload, server, notes
      <3> QED
        BY <3>1 DEF OfList, Kept
    <2> QED
      BY <2>1, <2>2, ListStays

  <1>24. ASSUME NEW f \in Sends, Sent(f)
        PROVE  OnList'
    <2>1. /\ body' = body /\ attached' = attached /\ library' = library /\ history' = history
          /\ latest' = latest /\ token' = token /\ overtaken' = overtaken
      BY <1>24 DEF Sent, screen, lists, upload, server, notes
    <2>2. \A s \in Calls : OfList(s) => Kept(s)
      <3>1. request' = request
        BY <1>24 DEF Sent, screen, lists, upload, server, notes
      <3> QED
        BY <3>1 DEF OfList, Kept
    <2> QED
      BY <2>1, <2>2, ListStays

  <1>25. ASSUME NEW f \in Sends, SendFails(f)
        PROVE  OnList'
    <2>1. /\ body' = body /\ attached' = attached /\ library' = library /\ history' = history
          /\ latest' = latest /\ token' = token /\ overtaken' = overtaken
      BY <1>25 DEF SendFails, screen, lists, upload, server, notes
    <2>2. \A s \in Calls : OfList(s) => Kept(s)
      <3>1. request' = request
        BY <1>25 DEF SendFails, screen, lists, upload, server, notes
      <3> QED
        BY <3>1 DEF OfList, Kept
    <2> QED
      BY <2>1, <2>2, ListStays

  <1>26. ASSUME Dismiss
        PROVE  OnList'
    <2>1. /\ body' = body /\ attached' = attached /\ library' = library /\ history' = history
          /\ latest' = latest /\ token' = token /\ overtaken' = overtaken
      BY <1>26 DEF Dismiss, screen, lists, upload, server, notes
    <2>2. \A s \in Calls : OfList(s) => Kept(s)
      <3>1. request' = request
        BY <1>26 DEF Dismiss, screen, lists, upload, server, notes
      <3> QED
        BY <3>1 DEF OfList, Kept
    <2> QED
      BY <2>1, <2>2, ListStays

  <1>27. ASSUME JumpToActive
        PROVE  OnList'
    <2>1. CASE view = "upload"
      <3>1. show("active") /\ "active" \in Views
        BY <1>27, <2>1 DEF JumpToActive, Views
      <3>2. PICK v \in Views : v = "active" /\ show(v)
        BY <3>1
      <3> QED
        BY <3>2, ShowList
    <2>2. CASE view # "upload"
      <3>1. /\ body' = body /\ attached' = attached /\ library' = library /\ history' = history
            /\ latest' = latest /\ token' = token /\ overtaken' = overtaken /\ request' = request
        BY <1>27, <2>2 DEF JumpToActive, screen, lists, upload, server, notes
      <3>2. \A s \in Calls : OfList(s) => Kept(s)
        BY <3>1 DEF OfList, Kept
      <3> QED
        BY <3>1, <3>2, ListStays
    <2> QED
      BY <2>1, <2>2

  <1>28. ASSUME ServerChanges
        PROVE  OnList'
    <2>1. /\ body' = body /\ attached' = attached /\ library' = library /\ history' = history
          /\ latest' = latest /\ token' = token /\ overtaken' = overtaken
      BY <1>28 DEF ServerChanges, screen, lists, upload, server, notes
    <2>2. \A s \in Calls : OfList(s) => Kept(s)
      <3>1. request' = request
        BY <1>28 DEF ServerChanges, screen, lists, upload, server, notes
      <3> QED
        BY <3>1 DEF OfList, Kept
    <2> QED
      BY <2>1, <2>2, ListStays

  <1> QED
    BY <1>0, <1>1, <1>2, <1>3, <1>4, <1>5, <1>6, <1>7, <1>8, <1>9, <1>10, <1>11,
       <1>12, <1>13, <1>14, <1>15, <1>16, <1>17, <1>18, <1>19, <1>20, <1>21, <1>22, <1>23,
       <1>24, <1>25, <1>26, <1>27, <1>28 DEF MiniAppNext

-----------------------------------------------------------------------------

\* A file under way is the card's, whatever becomes of the view.
LEMMA SendStep ==
  ASSUME Phone, MiniAppTypeOK, SendHasItsCancel, [MiniAppNext]_miniAppVars
  PROVE  SendHasItsCancel'
  <1>0. CASE UNCHANGED miniAppVars
    <2>1. sending' = sending /\ transfer' = transfer
      BY <1>0 DEF miniAppVars, screen, lists, upload, server, notes
    <2> QED
      BY <2>1 DEF SendHasItsCancel
  <1>1. ASSUME NEW r \in Calls, Answer(r)
        PROVE  SendHasItsCancel'
    <2>1. sending' = sending /\ transfer' = transfer
      BY <1>1 DEF Answer, screen, lists, upload, server, notes
    <2> QED
      BY <2>1 DEF SendHasItsCancel

  <1>2. ASSUME NEW r \in Calls, Discard(r)
        PROVE  SendHasItsCancel'
    <2>1. sending' = sending /\ transfer' = transfer
      BY <1>2 DEF Discard, screen, lists, upload, server, notes
    <2> QED
      BY <2>1 DEF SendHasItsCancel

  <1>3. ASSUME NEW r \in Calls, drawHome(r)
        PROVE  SendHasItsCancel'
    <2>1. sending' = sending /\ transfer' = transfer
      BY <1>3 DEF drawHome, screen, lists, upload, server, notes
    <2> QED
      BY <2>1 DEF SendHasItsCancel

  <1>4. ASSUME NEW r \in Calls, drawLibrary(r)
        PROVE  SendHasItsCancel'
    <2>1. sending' = sending /\ transfer' = transfer
      BY <1>4 DEF drawLibrary, screen, lists, upload, server, notes
    <2> QED
      BY <2>1 DEF SendHasItsCancel

  <1>5. ASSUME NEW r \in Calls, HistoryArrives(r)
        PROVE  SendHasItsCancel'
    <2>1. sending' = sending /\ transfer' = transfer
      BY <1>5 DEF HistoryArrives, screen, lists, upload, server, notes
    <2> QED
      BY <2>1 DEF SendHasItsCancel

  <1>6. ASSUME NEW r \in Calls, drawActive(r)
        PROVE  SendHasItsCancel'
    <2>1. sending' = sending /\ transfer' = transfer
      BY <1>6 DEF drawActive, screen, lists, upload, server, notes
    <2> QED
      BY <2>1 DEF SendHasItsCancel

  <1>7. ASSUME NEW r \in Calls, ShowError(r)
        PROVE  SendHasItsCancel'
    <2>1. sending' = sending /\ transfer' = transfer
      BY <1>7 DEF ShowError, screen, lists, upload, server, notes
    <2> QED
      BY <2>1 DEF SendHasItsCancel

  <1>8. ASSUME NEW r \in Calls, KeepList(r)
        PROVE  SendHasItsCancel'
    <2>1. sending' = sending /\ transfer' = transfer
      BY <1>8 DEF KeepList, screen, lists, upload, server, notes
    <2> QED
      BY <2>1 DEF SendHasItsCancel

  <1>9. ASSUME NEW r \in Calls, expired(r)
        PROVE  SendHasItsCancel'
    <2>1. sending' = sending /\ transfer' = transfer
      BY <1>9 DEF expired, screen, lists, upload, server, notes
    <2> QED
      BY <2>1 DEF SendHasItsCancel

  <1>10. ASSUME NEW r \in Calls, GoHome(r)
        PROVE  SendHasItsCancel'
    <2>1. sending' = sending /\ transfer' = transfer
      BY <1>10 DEF GoHome, screen, lists, upload, server, notes
    <2> QED
      BY <2>1 DEF SendHasItsCancel

  <1>11. ASSUME NEW v \in Views, Switch(v)
        PROVE  SendHasItsCancel'
    <2>1. sending' = sending /\ transfer' = transfer
      BY <1>11 DEF Switch, screen, lists, upload, server, notes
    <2> QED
      BY <2>1 DEF SendHasItsCancel

  <1>12. ASSUME NEW t \in Types, setLibraryType(t)
        PROVE  SendHasItsCancel'
    <2>1. sending' = sending /\ transfer' = transfer
      BY <1>12 DEF setLibraryType, screen, lists, upload, server, notes
    <2> QED
      BY <2>1 DEF SendHasItsCancel

  <1>13. ASSUME NEW t \in Types, SelectHistory(t)
        PROVE  SendHasItsCancel'
    <2>1. sending' = sending /\ transfer' = transfer
      BY <1>13 DEF SelectHistory, screen, lists, upload, server, notes
    <2> QED
      BY <2>1 DEF SendHasItsCancel

  <1>14. ASSUME LoadMore
        PROVE  SendHasItsCancel'
    <2>1. sending' = sending /\ transfer' = transfer
      BY <1>14 DEF LoadMore, screen, lists, upload, server, notes
    <2> QED
      BY <2>1 DEF SendHasItsCancel

  <1>15. ASSUME pager
        PROVE  SendHasItsCancel'
    <2>1. sending' = sending /\ transfer' = transfer
      BY <1>15 DEF pager, screen, lists, upload, server, notes
    <2> QED
      BY <2>1 DEF SendHasItsCancel

  <1>16. ASSUME TryAgain
        PROVE  SendHasItsCancel'
    <2>1. sending' = sending /\ transfer' = transfer
      BY <1>16 DEF TryAgain, screen, lists, upload, server, notes
    <2> QED
      BY <2>1 DEF SendHasItsCancel

  <1>17. ASSUME poll
        PROVE  SendHasItsCancel'
    <2>1. sending' = sending /\ transfer' = transfer
      BY <1>17 DEF poll, screen, lists, upload, server, notes
    <2> QED
      BY <2>1 DEF SendHasItsCancel

  <1>18. ASSUME refresh
        PROVE  SendHasItsCancel'
    <2>1. sending' = sending /\ transfer' = transfer
      BY <1>18 DEF refresh, screen, lists, upload, server, notes
    <2> QED
      BY <2>1 DEF SendHasItsCancel

  <1>19. ASSUME historyCard
        PROVE  SendHasItsCancel'
    <2>1. sending' = sending /\ transfer' = transfer
      BY <1>19 DEF historyCard, screen, lists, upload, server, notes
    <2> QED
      BY <2>1 DEF SendHasItsCancel

  <1>20. ASSUME transferCard
        PROVE  SendHasItsCancel'
    <2>1. sending' = sending /\ transfer' = transfer
      BY <1>20 DEF transferCard, screen, lists, upload, server, notes
    <2> QED
      BY <2>1 DEF SendHasItsCancel

  <1>21. ASSUME Acted
        PROVE  SendHasItsCancel'
    <2>1. sending' = sending /\ transfer' = transfer
      BY <1>21 DEF Acted, screen, lists, upload, server, notes
    <2> QED
      BY <2>1 DEF SendHasItsCancel

  <1>22. ASSUME ActingFails
        PROVE  SendHasItsCancel'
    <2>1. sending' = sending /\ transfer' = transfer
      BY <1>22 DEF ActingFails, screen, lists, upload, server, notes
    <2> QED
      BY <2>1 DEF SendHasItsCancel

  <1>23. ASSUME NEW f \in Sends, startTransfer(f)
        PROVE  SendHasItsCancel'
    <2>1. /\ sending' = [sending EXCEPT ![f] = "going"]
          /\ transfer' = [send |-> f, done |-> FALSE] /\ (transfer # Nothing => transfer.done)
      BY <1>23 DEF startTransfer
    <2>2. \A s \in Sends : sending[s] # "going"
      <3>1. ASSUME NEW s \in Sends, sending[s] = "going" PROVE FALSE
        <4>1. transfer = [send |-> s, done |-> FALSE]
          BY <3>1 DEF SendHasItsCancel
        <4>2. PICK card \in Transfers : card = [send |-> s, done |-> FALSE]
          BY DEF Transfers
        <4>3. transfer # Nothing /\ ~transfer.done
          BY <4>1, <4>2 DEF Phone
        <4> QED
          BY <2>1, <4>3
      <3> QED
        BY <3>1
    <2>3. \A s \in Sends : sending'[s] = "going" => s = f
      BY <2>1, <2>2 DEF MiniAppTypeOK
    <2> QED
      BY <2>1, <2>3 DEF SendHasItsCancel

  <1>24. ASSUME NEW f \in Sends, Sent(f)
        PROVE  SendHasItsCancel'
    <2>1. sending[f] = "going" /\ sending' = [sending EXCEPT ![f] = "gone"]
      BY <1>24 DEF Sent
    <2>2. \A s \in Sends : sending[s] = "going" => s = f
      BY <2>1 DEF SendHasItsCancel
    <2>3. \A s \in Sends : sending'[s] # "going"
      BY <2>1, <2>2 DEF MiniAppTypeOK
    <2> QED
      BY <2>3 DEF SendHasItsCancel

  <1>25. ASSUME NEW f \in Sends, SendFails(f)
        PROVE  SendHasItsCancel'
    <2>1. sending[f] = "going" /\ sending' = [sending EXCEPT ![f] = "gone"]
      BY <1>25 DEF SendFails
    <2>2. \A s \in Sends : sending[s] = "going" => s = f
      BY <2>1 DEF SendHasItsCancel
    <2>3. \A s \in Sends : sending'[s] # "going"
      BY <2>1, <2>2 DEF MiniAppTypeOK
    <2> QED
      BY <2>3 DEF SendHasItsCancel

  <1>26. ASSUME Dismiss
        PROVE  SendHasItsCancel'
    <2>1. transfer.done /\ sending' = sending
      BY <1>26 DEF Dismiss
    <2>2. \A s \in Sends : sending[s] # "going"
      BY <2>1 DEF SendHasItsCancel
    <2> QED
      BY <2>1, <2>2 DEF SendHasItsCancel

  <1>27. ASSUME JumpToActive
        PROVE  SendHasItsCancel'
    <2>1. sending' = sending /\ transfer' = transfer
      BY <1>27 DEF JumpToActive, screen, lists, upload, server, notes
    <2> QED
      BY <2>1 DEF SendHasItsCancel

  <1>28. ASSUME ServerChanges
        PROVE  SendHasItsCancel'
    <2>1. sending' = sending /\ transfer' = transfer
      BY <1>28 DEF ServerChanges, screen, lists, upload, server, notes
    <2> QED
      BY <2>1 DEF SendHasItsCancel

  <1> QED
    BY <1>0, <1>1, <1>2, <1>3, <1>4, <1>5, <1>6, <1>7, <1>8, <1>9, <1>10, <1>11,
       <1>12, <1>13, <1>14, <1>15, <1>16, <1>17, <1>18, <1>19, <1>20, <1>21, <1>22, <1>23,
       <1>24, <1>25, <1>26, <1>27, <1>28 DEF MiniAppNext

MiniAppInv == MiniAppTypeOK /\ OnView /\ OnList /\ SendHasItsCancel

\* The invariant of the Mini App: what is in flight, acted on and drawn belongs to the view and
\* its token, every list to the requests it was built for, and state.library to the last of them.
THEOREM MiniAppInvariant ==
  MiniAppSpec => []MiniAppInv
  <1>0. Phone
    BY PagesType, NothingIsNothing DEF Phone
  <1>1. ASSUME MiniAppInit PROVE MiniAppInv
    <2>1. PICK t \in Types :
            /\ library = [type |-> t, offset |-> 0, items |-> <<>>, grid |-> 0, body |-> 0, more |-> 0]
            /\ history = [type |-> t, offset |-> 0]
      BY <1>1 DEF MiniAppInit
    <2>2. /\ library.grid = 0 /\ library.body = 0 /\ library.more = 0
          /\ history \in Selections /\ attached = 0 /\ Len(body) = 0 /\ body = <<>>
      BY <1>1, <2>1 DEF MiniAppInit, Selections
    <2>3. library \in [type : Types, offset : Nat, items : Seq(Selections),
                       grid : Nat, body : Nat, more : Nat]
      <3>1. <<>> \in Seq(Selections)
        BY EmptySeq
      <3> QED
        BY <2>1, <3>1
    <2>4. \A r \in Calls : request[r] = Nothing
      BY <1>1 DEF MiniAppInit
    <2>5. MiniAppTypeOK
      <3>1. /\ view \in Views /\ token \in Nat /\ root \in Roots /\ timer \in BOOLEAN
            /\ transfer = Nothing /\ jump \in Nat
            /\ active \in BOOLEAN /\ valid \in {"ok", "expired", "forbidden"}
        BY <1>1, <2>2 DEF MiniAppInit, Views, Roots
      <3>a. attached \in 0..Len(body)
        BY <2>2
      <3>2. /\ expiredOnce \in BOOLEAN /\ resumed \in BOOLEAN /\ latest \in Calls \cup {Nothing}
            /\ overtaken \in BOOLEAN /\ acting = Nothing /\ strayed \in BOOLEAN
        BY <1>1 DEF MiniAppInit
      <3>3. request \in [Calls -> {Nothing} \cup Asks]
        BY <1>1 DEF MiniAppInit
      <3>4. sending \in [Sends -> {"new", "going", "gone"}]
        BY <1>1 DEF MiniAppInit
      <3>5. body \in Seq(Bodies)
        BY <2>2, EmptySeq
      <3> QED
        BY <2>2, <2>3, <3>1, <3>a, <3>2, <3>3, <3>4, <3>5 DEF MiniAppTypeOK, Asks, Bodies
    <2>6. OnView
      <3>1. ~ActingNow /\ \A r \in Calls : ~Cur(r)
        BY <1>1, <2>4 DEF MiniAppInit, ActingNow, Cur
      <3>2. /\ view = "home" /\ root = "done" /\ timer = FALSE /\ expiredOnce = FALSE
            /\ acting = Nothing
        BY <1>1 DEF MiniAppInit
      <3> QED
        BY <2>4, <3>1, <3>2
        DEF OnView, Dated, ScreenOfView, MessageAlone, PollsRunning, ActiveAsks, MessageStands,
            ErrorOnView
    <2>7. OwnBodies
      BY <2>2, <2>4 DEF OwnBodies
    <2>8. HistorySelected /\ LibrarySelected
      BY <2>2, <2>4 DEF HistorySelected, LibrarySelected, LibraryShown
    <2>9. SendHasItsCancel
      <3>1. \A s \in Sends : sending[s] = "new"
        BY <1>1 DEF MiniAppInit
      <3> QED
        BY <3>1 DEF SendHasItsCancel
    <2> QED
      BY <2>5, <2>6, <2>7, <2>8, <2>9 DEF MiniAppInv, OnList
  <1>2. ASSUME MiniAppInv, [MiniAppNext]_miniAppVars PROVE MiniAppInv'
    <2>1. MiniAppTypeOK'
      BY <1>0, <1>2, TypesStep DEF MiniAppInv
    <2>2. OnView'
      BY <1>0, <1>2, OnViewStep DEF MiniAppInv, OnList
    <2>3. OnList'
      BY <1>0, <1>2, OnListStep DEF MiniAppInv
    <2>4. SendHasItsCancel'
      BY <1>0, <1>2, SendStep DEF MiniAppInv
    <2> QED
      BY <2>1, <2>2, <2>3, <2>4 DEF MiniAppInv
  <1> QED
    BY <1>1, <1>2, PTL DEF MiniAppSpec

\* The transfers are polled exactly while that view shows something running, and the message to
\* reopen the app stands until a view is opened: app.js drawActive, expired and show.
THEOREM MiniAppPolls ==
  MiniAppSpec => []PollServesView
  <1>1. MiniAppInv => PollServesView
    BY DEF MiniAppInv, OnView, PollsRunning, MessageStands, PollServesView
  <1> QED
    BY <1>1, MiniAppInvariant, PTL

\* However late and in whatever order the answers arrive, a list shows one listing of what its
\* controls select, on its own view: app.js drawLibrary and drawHistory.
THEOREM MiniAppLists ==
  MiniAppSpec => []ListsAreAsSelected
  <1>1. ASSUME MiniAppInv PROVE ListsAreAsSelected
    <2> SUFFICES ASSUME root = "list", Shows(attached).kind = "grid"
                 PROVE  /\ body[attached].of = view \/ strayed
                        /\ body[attached].of = "library" =>
                             OneListing(library.type, body[attached].items) \/ overtaken
                        /\ body[attached].of = "history" => body[attached].items = <<history>>
      BY DEF ListsAreAsSelected
    <2>1. attached # 0 /\ body[attached].kind = "grid"
      BY DEF Shows, NoBody
    <2>2. body[attached].of = view \/ strayed
      BY <1>1 DEF MiniAppInv, OnView, ScreenOfView
    <2>3. body[attached].of = "library" => OneListing(library.type, body[attached].items) \/ overtaken
      BY <1>1, <2>1 DEF MiniAppInv, OnList, LibrarySelected, LibraryShown
    <2>4. body[attached].of = "history" => body[attached].items = <<history>>
      BY <1>1, <2>1 DEF MiniAppInv, OnList, HistorySelected
    <2> QED
      BY <2>2, <2>3, <2>4
  <1> QED
    BY <1>1, MiniAppInvariant, PTL

\* Every upload under way is the one the card can cancel: app.js startTransfer.
THEOREM MiniAppSends ==
  MiniAppSpec => []SendHasItsCancel
  <1>1. MiniAppInv => SendHasItsCancel
    BY DEF MiniAppInv
  <1> QED
    BY <1>1, MiniAppInvariant, PTL

=============================================================================
