--------------------------- MODULE UploaderProofs ---------------------------
(***************************************************************************)
(* What Uploader guarantees for any number of clients, files, sessions and *)
(* uploads, any plan of parts and any quota.                               *)
(***************************************************************************)
EXTENDS Uploader, FiniteSetTheorems, TLAPS

-----------------------------------------------------------------------------
(* The inductive invariant *)

Clean(s) == s \notin raced \cup twins

\* A session keeps the plan of the file it was opened for; complete is complete for good; and
\* unless somebody else was let in, its parts and its upload are that file's.
SessionOK(s) ==
  LET f == creator[s]
      q == sessions[s]
  IN  /\ f \in Files /\ q.bytes = Size[f] /\ q.parts = PartCount(Size[f])
      /\ q.status \in {"READY", "ASSEMBLING"} => NoneMissing(s)
      /\ Clean(s) => \A n \in Numbers : q.got[n] \in {None, f}
      /\ q.upload # None <=> q.status = "COMPLETED"
      /\ q.upload # None => /\ uploads[q.upload] # None
                            /\ Clean(s) => uploads[q.upload].of = {f}
SessionsOK == \A s \in Sids : sessions[s] # None => SessionOK(s)

\* A request that outlives its client is about a session of its file.
LateOK ==
  \A l \in late : sessions[l[1]] # None /\ (Clean(l[1]) => l[3] = creator[l[1]])

\* What a client holds is its file's: the sessions it found, the one it fills, its upload.
Fills(c) ==
  LET s == client[c].sid IN s \in Sids /\ sessions[s] # None /\ (Clean(s) => creator[s] = FileOf(c))
Sent(c) ==
  LET u == client[c].upload IN u \in Uids /\ uploads[u] # None /\ uploads[u].of = {FileOf(c)}
ClientOK(c) ==
  /\ ~At(c, "idle") => FileOf(c) \in Files
  /\ At(c, "finding") \/ At(c, "creating") => Mode(SizeOf(c)) = "multipart"
  /\ At(c, "creating") => \A s \in client[c].found : sessions[s] # None /\ SameFile(s, c)
  /\ At(c, "finding") \/ At(c, "creating") \/ At(c, "part") => client[c].upload = None
  /\ At(c, "part") => Fills(c)
  /\ At(c, "waiting") => IF client[c].upload # None THEN Sent(c) ELSE Fills(c)
  /\ outcome[c] = "done" => At(c, "idle") /\ FileOf(c) \in Files
                            /\ IF client[c].upload # None THEN Sent(c)
                               ELSE Fills(c) /\ sessions[client[c].sid].upload # None
ClientsOK == \A c \in Clients : ClientOK(c)

\* Who was let through the quota and has not been overtaken is within it still.
Asking(c) == At(c, "finding") \/ At(c, "creating") \/ At(c, "streaming")
Fresh(c) == Asking(c) /\ ~client[c].overtaken
WithinQuota ==
  /\ ~overbooked
  /\ \A c \in Clients : Fresh(c) => Charged + SizeOf(c) <= Quota

IInv == TypeOK /\ SessionsOK /\ LateOK /\ ClientsOK /\ WithinQuota

-----------------------------------------------------------------------------
(* Ids and plans *)

LEMMA FreeId == FreeUpload # {} => NewUpload \in Uids /\ uploads[NewUpload] = None
BY DEF FreeUpload, NewUpload

\* A file that goes in parts goes in one at least, and in no more than there may be.
LEMMA Plan ==
  ASSUME NEW f \in Files, Mode(Size[f]) = "multipart"
  PROVE  Size[f] \in Nat \ {0} /\ PartCount(Size[f]) \in Numbers
<1>1. Size[f] \in Nat /\ PartSize \in Nat \ {0} /\ AssembledMax \in Nat /\ SingleMax \in Nat
      /\ MaxParts \in Nat
    BY UploaderAssumption
<1>2. Size[f] \in 1..AssembledMax /\ ~(PartCount(Size[f]) > MaxParts)
    BY <1>1 DEF Mode
<1>3. PartCount(Size[f]) \in Nat \ {0}
  <2> DEFINE n == Size[f] + PartSize - 1
  <2>1. n \in Nat /\ n >= PartSize
      BY <1>1, <1>2
  <2>2. n \div PartSize \in Nat \ {0}
      BY <1>1, <2>1
  <2> QED
      BY <2>2 DEF PartCount
<1> QED
    BY <1>1, <1>2, <1>3 DEF Numbers

-----------------------------------------------------------------------------
(* Types *)

\* A row that is there is one; a client is a record.
LEMMA Records ==
  ASSUME TypeOK
  PROVE  /\ \A c \in Clients : client[c] \in ClientState
         /\ \A s \in Sids : sessions[s] # None => sessions[s] \in SessionRow
         /\ \A u \in Uids : uploads[u] # None => uploads[u] \in UploadRow
BY DEF TypeOK

LEMMA RestingType ==
  /\ Resting \in ClientState
  /\ \A f \in Files : [Resting EXCEPT !.file = f] \in ClientState
<1>1. Resting \in ClientState
    BY UploaderAssumption DEF Resting, ClientState
<1> QED
    BY <1>1 DEF ClientState, Resting

\* The session that FindOrCreate takes is an open one of the name, or else a new one.
TheOpen(c) == OpenOf(Name[FileOf(c)])
Given(c) ==
  CHOOSE t \in Sids : t \in IF TheOpen(c) # {} THEN TheOpen(c) ELSE FreeSession
LEMMA GivenType ==
  ASSUME NEW c \in Clients, TheOpen(c) # {} \/ FreeSession # {}
  PROVE  /\ Given(c) \in Sids
         /\ TheOpen(c) # {} => Given(c) \in TheOpen(c)
         /\ TheOpen(c) = {} => sessions[Given(c)] = None
BY DEF Given, TheOpen, FreeSession, OpenOf, Live

LEMMA FindOrCreateIs ==
  ASSUME NEW c \in Clients, NEW b \in BOOLEAN, FindOrCreate(c, b)
  PROVE  LET s == Given(c)
             given == [client EXCEPT ![c].pc = "part", ![c].sid = s,
                         ![c].have = IF TheOpen(c) # {} THEN ReadyNumbers(s) ELSE {}]
             failed == [client EXCEPT ![c] = Resting]
             next == IF b THEN given ELSE failed
         IN  /\ At(c, "creating") /\ (TheOpen(c) # {} \/ FreeSession # {})
             /\ TheOpen(c) = {} => client' = Overtaking(next, c) /\ Admit(c, SizeOf(c))
             /\ TheOpen(c) # {} => client' = next /\ UNCHANGED <<sessions, creator, overbooked>>
             /\ outcome' = IF b THEN outcome ELSE [outcome EXCEPT ![c] = "failed"]
             /\ UNCHANGED <<uploads, late, runs>>
<1> DEFINE s == Given(c)
           given == [client EXCEPT ![c].pc = "part", ![c].sid = s,
                       ![c].have = IF TheOpen(c) # {} THEN ReadyNumbers(s) ELSE {}]
           failed == [client EXCEPT ![c] = Resting]
           next == IF b THEN given ELSE failed
<1>1. /\ At(c, "creating")
      /\ TheOpen(c) # {} \/ FreeSession # {}
      /\ IF TheOpen(c) = {}
         THEN /\ sessions' = [sessions EXCEPT ![s] =
                      [name |-> Name[FileOf(c)], bytes |-> SizeOf(c),
                       parts |-> PartCount(SizeOf(c)), status |-> "COLLECTING",
                       got |-> [n \in Numbers |-> None], upload |-> None]]
              /\ creator' = [creator EXCEPT ![s] = FileOf(c)]
              /\ Admit(c, SizeOf(c))
              /\ client' = Overtaking(next, c)
              /\ UNCHANGED <<raced, twins>>
         ELSE /\ client' = next
              /\ raced' = IF s \in client[c].found THEN raced ELSE raced \cup {s}
              /\ twins' = IF creator[s] # FileOf(c) /\ SameFile(s, c) THEN twins \cup {s} ELSE twins
              /\ UNCHANGED <<sessions, creator, overbooked>>
      /\ IF b THEN UNCHANGED <<outcome, losses>>
         ELSE Loss /\ outcome' = [outcome EXCEPT ![c] = "failed"]
      /\ UNCHANGED <<uploads, late, runs>>
    BY DEF FindOrCreate, TheOpen, Given
<1> HIDE DEF given, failed, s
<1> QED
    BY <1>1 DEF s, given, failed

LEMMA EndsType ==
  ASSUME TypeOK, NEW c \in Clients
  PROVE  /\ \A how \in {"none", "queued", "done", "failed"} : EndsWell(c, how) =>
              client' \in [Clients -> ClientState]
              /\ outcome' \in [Clients -> {"none", "queued", "done", "failed"}]
         /\ Fails(c) => client' \in [Clients -> ClientState]
              /\ outcome' \in [Clients -> {"none", "queued", "done", "failed"}]
<1>1. [Resting EXCEPT !.file = FileOf(c), !.sid = client[c].sid, !.upload = client[c].upload]
        \in ClientState
    BY Records, RestingType DEF ClientState, FileOf
<1> QED
    BY <1>1, RestingType DEF EndsWell, Fails, TypeOK

LEMMA OvertakingType ==
  ASSUME NEW cs \in [Clients -> ClientState], NEW c \in Clients
  PROVE  Overtaking(cs, c) \in [Clients -> ClientState]
<1>1. \A d \in Clients : [cs[d] EXCEPT !.overtaken = TRUE] \in ClientState
    BY DEF ClientState
<1> QED
    BY <1>1 DEF Overtaking

ClientTyped ==
  /\ client \in [Clients -> ClientState]
  /\ outcome \in [Clients -> {"none", "queued", "done", "failed"}]

LEMMA NextClientTyped == IInv /\ [Next]_vars => ClientTyped'
<1> SUFFICES ASSUME IInv, [Next]_vars PROVE ClientTyped'
    OBVIOUS
<1>a. TypeOK /\ ClientTyped
    BY DEF IInv, TypeOK, ClientTyped
<1>b. \A c \in Clients : client[c] \in ClientState
    BY <1>a DEF ClientTyped
<1>1. ASSUME NEW c \in Clients, NEW f \in Files, Begin(c, f) PROVE ClientTyped'
  <2>1. \A pc \in {"single", "finding"} : [[Resting EXCEPT !.file = f] EXCEPT !.pc = pc] \in ClientState
      BY RestingType DEF ClientState
  <2>2. CASE Fails(c)
      BY <1>a, <2>2, EndsType DEF ClientTyped
  <2>3. CASE ~Fails(c)
      BY <1>1, <1>a, <2>1, <2>3 DEF Begin, ClientTyped
  <2> QED
      BY <2>2, <2>3
<1>2. ASSUME NEW c \in Clients, PutSingle(c) PROVE ClientTyped'
  <2>1. [client[c] EXCEPT !.pc = "streaming", !.overtaken = FALSE] \in ClientState
      BY <1>b DEF ClientState
  <2>2. CASE Fails(c)
      BY <1>a, <2>2, EndsType DEF ClientTyped
  <2>3. CASE ~Fails(c)
      BY <1>2, <1>a, <2>1, <2>3 DEF PutSingle, ClientTyped
  <2> QED
      BY <2>2, <2>3
<1>3. ASSUME NEW c \in Clients, SingleBreaks(c) \/ Stop(c) \/ PartRefused(c) PROVE ClientTyped'
    BY <1>3, <1>a, EndsType DEF SingleBreaks, Stop, PartRefused, ClientTyped
<1>4. ASSUME NEW c \in Clients, FindOpen(c) PROVE ClientTyped'
  <2>1. \A found \in SUBSET Sids :
          [client[c] EXCEPT !.pc = "creating", !.found = found] \in ClientState
      BY <1>b DEF ClientState
  <2>2. OpenOf(Name[FileOf(c)]) \in SUBSET Sids /\ {} \in SUBSET Sids
      BY DEF OpenOf, Live
  <2>3. CASE Fails(c)
      BY <1>a, <2>3, EndsType DEF ClientTyped
  <2>4. CASE ~Fails(c)
    <3>1. \E found \in SUBSET Sids :
            client' = [client EXCEPT ![c].pc = "creating", ![c].found = found] /\ UNCHANGED outcome
        BY <1>4, <2>2, <2>4 DEF FindOpen
    <3> QED
        BY <3>1, <2>1, <1>a DEF ClientTyped
  <2> QED
      BY <2>3, <2>4
<1>5. ASSUME NEW c \in Clients, NEW b \in BOOLEAN, CreateDirect(c, b) PROVE ClientTyped'
  <2>1. [client[c] EXCEPT !.pc = "waiting", !.upload = NewUpload] \in ClientState
      BY <1>5, <1>b, FreeId DEF ClientState, CreateDirect
  <2>2. [client EXCEPT ![c].pc = "waiting", ![c].upload = NewUpload] \in [Clients -> ClientState]
      BY <2>1, <1>a DEF ClientTyped
  <2>3. [client EXCEPT ![c] = Resting] \in [Clients -> ClientState]
      BY RestingType, <1>a DEF ClientTyped
  <2>4. client' \in [Clients -> ClientState]
    <3> DEFINE told == [client EXCEPT ![c].pc = "waiting", ![c].upload = NewUpload]
               lost == [client EXCEPT ![c] = Resting]
    <3>1. client' = Overtaking(told, c) \/ client' = Overtaking(lost, c)
        BY <1>5 DEF CreateDirect
    <3>2. told \in [Clients -> ClientState] /\ lost \in [Clients -> ClientState]
        BY <2>2, <2>3
    <3> HIDE DEF told, lost
    <3> QED
        BY <3>1, <3>2, OvertakingType
  <2>5. outcome' = outcome \/ outcome' = [outcome EXCEPT ![c] = "failed"]
      BY <1>5 DEF CreateDirect
  <2> QED
      BY <1>a, <2>4, <2>5 DEF ClientTyped
<1>6. ASSUME NEW c \in Clients, NEW b \in BOOLEAN, FindOrCreate(c, b) PROVE ClientTyped'
  <2>1. Given(c) \in Sids /\ ReadyNumbers(Given(c)) \in SUBSET Numbers /\ {} \in SUBSET Numbers
      BY <1>6, GivenType DEF FindOrCreate, TheOpen, ReadyNumbers
  <2>2. \A have \in SUBSET Numbers :
          [client[c] EXCEPT !.pc = "part", !.sid = Given(c), !.have = have] \in ClientState
      BY <1>b, <2>1 DEF ClientState
  <2>3. \A have \in SUBSET Numbers :
          [client EXCEPT ![c].pc = "part", ![c].sid = Given(c), ![c].have = have]
            \in [Clients -> ClientState]
      BY <2>2, <1>a DEF ClientTyped
  <2>4. [client EXCEPT ![c] = Resting] \in [Clients -> ClientState]
      BY RestingType, <1>a DEF ClientTyped
  <2>5. \E cs \in [Clients -> ClientState] : client' = cs \/ client' = Overtaking(cs, c)
    <3> DEFINE have == IF TheOpen(c) # {} THEN ReadyNumbers(Given(c)) ELSE {}
               given == [client EXCEPT ![c].pc = "part", ![c].sid = Given(c), ![c].have = have]
               next == IF b THEN given ELSE [client EXCEPT ![c] = Resting]
    <3>1. client' = next \/ client' = Overtaking(next, c)
        BY <1>6 DEF FindOrCreate, Given, TheOpen
    <3>2. have \in SUBSET Numbers
        BY <2>1
    <3>3. next \in [Clients -> ClientState]
        BY <2>3, <2>4, <3>2
    <3> QED
        BY <3>1, <3>3
  <2>6. outcome' \in [Clients -> {"none", "queued", "done", "failed"}]
      BY <1>6, <1>a DEF FindOrCreate, ClientTyped
  <2> QED
      BY <2>5, <2>6, OvertakingType DEF ClientTyped
<1>7. ASSUME NEW c \in Clients, NEW b \in BOOLEAN, Complete(c, b) PROVE ClientTyped'
  <2>1. [client[c] EXCEPT !.pc = "waiting"] \in ClientState
      BY <1>b DEF ClientState
  <2>2. Step(c, "waiting") => ClientTyped'
      BY <2>1, <1>a DEF Step, ClientTyped
  <2> QED
      BY <1>7, <1>a, <2>2, EndsType DEF Complete, ClientTyped
<1>8. ASSUME NEW c \in Clients, SkipPart(c) \/ PutPart(c) PROVE ClientTyped'
  <2>1. 1 \in 1..MaxPartAttempts /\ client[c].n + 1 \in Nat \ {0}
      BY <1>b, UploaderAssumption DEF ClientState
  <2>2. [client[c] EXCEPT !.n = client[c].n + 1, !.attempt = 1] \in ClientState
      BY <1>b, <2>1 DEF ClientState
  <2> QED
      BY <1>8, <1>a, <2>2 DEF SkipPart, PutPart, NextNumber, ClientTyped
<1>9. ASSUME NEW c \in Clients, PartBreaks(c) PROVE ClientTyped'
  <2>1. client[c].attempt < MaxPartAttempts =>
          [client[c] EXCEPT !.attempt = client[c].attempt + 1] \in ClientState
      BY <1>b, UploaderAssumption DEF ClientState
  <2>2. CASE Fails(c)
      BY <1>a, <2>2, EndsType DEF ClientTyped
  <2>3. CASE ~Fails(c)
      BY <1>9, <1>a, <2>1, <2>3 DEF PartBreaks, ClientTyped
  <2> QED
      BY <2>2, <2>3
<1>10. ASSUME NEW c \in Clients, Waits(c) PROVE ClientTyped'
    BY <1>10, <1>a, EndsType DEF Waits, ClientTyped
<1>11. ASSUME NEW u \in Uids, RetryUpload(u) PROVE ClientTyped'
  <2>1. \A c \in Clients : [client[c] EXCEPT !.overtaken = TRUE] \in ClientState
      BY <1>b DEF ClientState
  <2> QED
      BY <1>11, <1>a, <2>1 DEF RetryUpload, UploadStatus, ClientTyped
<1>12. CASE UNCHANGED <<client, outcome>>
    BY <1>12, <1>a DEF ClientTyped
<1>13. ASSUME NEW l \in late, NEW b \in BOOLEAN, LatePart(l, b) PROVE UNCHANGED <<client, outcome>>
    BY <1>13 DEF LatePart
<1>14. ASSUME NEW s \in Sids, Claim(s) \/ HandOff(s) \/ Close(s) PROVE UNCHANGED <<client, outcome>>
    BY <1>14 DEF Claim, HandOff, Close
<1>15. ASSUME NEW u \in Uids, Reserve(u) \/ Filed(u) \/ Broken(u) PROVE UNCHANGED <<client, outcome>>
    BY <1>15 DEF Reserve, Filed, Broken, UploadStatus
<1> QED
    BY <1>1, <1>2, <1>3, <1>4, <1>5, <1>6, <1>7, <1>8, <1>9, <1>10, <1>11, <1>12, <1>13, <1>14,
       <1>15 DEF Next, vars

-----------------------------------------------------------------------------
(* What a step does to the tables *)

NewSession(c) ==
  [name |-> Name[FileOf(c)], bytes |-> SizeOf(c), parts |-> PartCount(SizeOf(c)),
   status |-> "COLLECTING", got |-> [n \in Numbers |-> None], upload |-> None]
Opens(c, s) ==
  /\ At(c, "creating") /\ sessions[s] = None
  /\ sessions' = [sessions EXCEPT ![s] = NewSession(c)]
  /\ creator' = [creator EXCEPT ![s] = FileOf(c)]
  /\ UNCHANGED uploads
Empties(s) ==
  /\ s \in Live /\ sessions[s].status # "ASSEMBLING"
  /\ sessions' = [sessions EXCEPT ![s].status = "CANCELLED", ![s].got = [n \in Numbers |-> None]]
  /\ UNCHANGED <<uploads, creator>>
Stores(s, n, f) ==
  /\ s \in Live /\ sessions[s].status = "COLLECTING"
  /\ f # None /\ Clean(s) => f = creator[s]
  /\ sessions' = [sessions EXCEPT ![s].got[n] = f]
  /\ UNCHANGED <<uploads, creator>>
Turns(s, from, to) ==
  /\ s \in Live /\ sessions[s].status = from
  /\ to = "READY" => NoneMissing(s)
  /\ sessions' = [sessions EXCEPT ![s].status = to]
  /\ UNCHANGED <<uploads, creator>>
Hands(s) ==
  /\ s \in Live /\ sessions[s].status = "ASSEMBLING"
  /\ FreeUpload # {}
  /\ uploads' = [uploads EXCEPT ![NewUpload] =
       [bytes |-> sessions[s].bytes, status |-> "active",
        of |-> IF NoneMissing(s) THEN {sessions[s].got[n] : n \in ReadyNumbers(s)} ELSE {None}]]
  /\ sessions' = [sessions EXCEPT ![s].status = "COMPLETED", ![s].upload = NewUpload]
  /\ UNCHANGED creator
Adds(c) ==
  /\ At(c, "streaming") /\ FreeUpload # {}
  /\ uploads' = [uploads EXCEPT ![NewUpload] =
       [bytes |-> SizeOf(c), of |-> {FileOf(c)}, status |-> "active"]]
  /\ UNCHANGED <<sessions, creator>>
Sets(u, from, to) ==
  /\ u \in UploadsIn({from})
  /\ uploads' = [uploads EXCEPT ![u].status = to]
  /\ UNCHANGED <<sessions, creator>>

OpensOne(s) == \E c \in Clients : Opens(c, s)
StoresOne(s) == \E n \in Numbers, f \in Files \cup {None} : Stores(s, n, f)
TurnsOne(s) ==
  Turns(s, "COLLECTING", "READY") \/ Turns(s, "READY", "ASSEMBLING") \/ Turns(s, "ASSEMBLING", "FAILED")
SetsOne(u) ==
  \/ Sets(u, "active", "filing") \/ Sets(u, "filing", "filed")
  \/ Sets(u, "active", "failed") \/ Sets(u, "failed", "active")
TableStep ==
  \/ UNCHANGED <<sessions, uploads, creator>>
  \/ \E s \in Sids : OpensOne(s) \/ Empties(s) \/ StoresOne(s) \/ TurnsOne(s) \/ Hands(s)
  \/ \E c \in Clients : Adds(c)
  \/ \E u \in Uids : SetsOne(u)

\* A session that is collecting, or found among the open ones, is there.
LEMMA LiveOnes ==
  ASSUME TypeOK, NEW s \in Sids, sessions[s] # None, sessions[s].status \in OpenStatuses
  PROVE  s \in Live
BY DEF Live

LEMMA NextTableStep == IInv /\ [Next]_vars => TableStep
<1> SUFFICES ASSUME IInv, [Next]_vars PROVE TableStep
    OBVIOUS
<1>a. TypeOK /\ ClientsOK /\ LateOK
    BY DEF IInv
<1>b. Live \subseteq Sids /\ \A c \in Clients : client[c] \in ClientState
    BY <1>a, Records DEF Live
<1>1. ASSUME NEW c \in Clients, FindOpen(c) PROVE TableStep
  <2>1. CASE UNCHANGED sessions
      BY <1>1, <2>1 DEF FindOpen, History, TableStep
  <2>2. CASE sessions' # sessions
    <3>1. PICK s \in OpenOf(Name[FileOf(c)]) :
            /\ sessions[s].status # "ASSEMBLING"
            /\ sessions' = [sessions EXCEPT ![s].status = "CANCELLED",
                                            ![s].got = [n \in Numbers |-> None]]
        BY <1>1, <2>2 DEF FindOpen
    <3>2. s \in Live /\ s \in Sids
        BY <3>1, <1>b DEF OpenOf
    <3> QED
        BY <1>1, <3>1, <3>2 DEF FindOpen, History, TableStep, Empties
  <2> QED
      BY <2>1, <2>2
<1>2. ASSUME NEW c \in Clients, NEW b \in BOOLEAN, FindOrCreate(c, b) PROVE TableStep
  <2>1. CASE TheOpen(c) # {}
      BY <1>2, <2>1 DEF FindOrCreate, TheOpen, TableStep
  <2>2. CASE TheOpen(c) = {}
    <3>1. /\ sessions' = [sessions EXCEPT ![Given(c)] = NewSession(c)]
          /\ creator' = [creator EXCEPT ![Given(c)] = FileOf(c)]
        BY <1>2, <2>2 DEF FindOrCreate, TheOpen, Given, NewSession
    <3>2. Given(c) \in Sids /\ sessions[Given(c)] = None /\ UNCHANGED uploads /\ At(c, "creating")
        BY <1>2, <2>2, GivenType DEF FindOrCreate, TheOpen
    <3>3. Opens(c, Given(c))
        BY <3>1, <3>2 DEF Opens
    <3> QED
        BY <3>2, <3>3 DEF TableStep, OpensOne
  <2> QED
      BY <2>1, <2>2
<1>3. ASSUME NEW c \in Clients, NEW b \in BOOLEAN, CreateDirect(c, b) PROVE TableStep
  <2>1. Adds(c)
      BY <1>3 DEF CreateDirect, Adds
  <2> QED
      BY <2>1 DEF TableStep
<1>4. ASSUME NEW c \in Clients, PutPart(c) PROVE TableStep
  <2> DEFINE s == client[c].sid
  <2>1. /\ Fills(c) /\ ~At(c, "idle") /\ Accepting(s, client[c].n)
        /\ client[c].n \in Nat \ {0}
      BY <1>4, <1>a, <1>b DEF PutPart, Sending, ClientsOK, ClientOK, At, ClientState
  <2>2. s \in Sids /\ sessions[s] \in SessionRow /\ FileOf(c) \in Files
      BY <2>1, <1>a, Records DEF Fills, ClientsOK, ClientOK
  <2>a. s \in Live /\ sessions[s].status = "COLLECTING" /\ client[c].n <= sessions[s].parts
      BY <2>1, <2>2, LiveOnes, <1>a DEF Accepting, Fills, OpenStatuses
  <2>b. sessions[s].parts \in 1..MaxParts /\ MaxParts \in Nat
      BY <2>2, UploaderAssumption DEF SessionRow, Numbers
  <2>3. client[c].n \in Numbers /\ s \in Live /\ sessions[s].status = "COLLECTING"
      BY <2>1, <2>a, <2>b DEF Numbers
  <2>4. CASE sessions' = sessions
      BY <1>4, <2>4 DEF PutPart, History, TableStep
  <2>5. CASE sessions' # sessions
    <3>1. Stores(s, client[c].n, FileOf(c))
        BY <1>4, <2>1, <2>3, <2>5 DEF PutPart, History, Stores, Fills
    <3> QED
        BY <3>1, <2>2, <2>3 DEF TableStep, StoresOne
  <2> QED
      BY <2>4, <2>5
<1>5. ASSUME NEW l \in late, NEW b \in BOOLEAN, LatePart(l, b) PROVE TableStep
  <2>1. l[1] \in Sids /\ l[2] \in Numbers /\ l[3] \in Files
      BY <1>a DEF TypeOK
  <2>2. CASE sessions' = sessions
      BY <1>5, <2>2 DEF LatePart, History, TableStep
  <2>3. CASE sessions' # sessions
    <3> DEFINE f == IF b THEN l[3] ELSE None
    <3>1. /\ sessions[l[1]].status = "COLLECTING"
          /\ sessions' = [sessions EXCEPT ![l[1]].got[l[2]] = f]
          /\ UNCHANGED <<uploads, creator>>
        BY <1>5, <2>3 DEF LatePart, History
    <3>2. l[1] \in Live /\ (Clean(l[1]) => l[3] = creator[l[1]])
        BY <2>1, <3>1, <1>a DEF LateOK, Live, OpenStatuses
    <3>3. f \in Files \cup {None} /\ (f # None /\ Clean(l[1]) => f = creator[l[1]])
        BY <2>1, <3>2
    <3> HIDE DEF f
    <3>4. Stores(l[1], l[2], f)
        BY <3>1, <3>2, <3>3 DEF Stores
    <3> QED
        BY <3>3, <3>4, <2>1 DEF TableStep, StoresOne
  <2> QED
      BY <2>2, <2>3
<1>6. ASSUME NEW c \in Clients, NEW b \in BOOLEAN, Complete(c, b) PROVE TableStep
  <2> DEFINE s == client[c].sid
  <2>1. Fills(c) /\ s \in Sids /\ sessions[s] # None
      BY <1>6, <1>a DEF Complete, ClientsOK, ClientOK, Fills
  <2>2. CASE sessions' = sessions
      BY <1>6, <2>2 DEF Complete, History, TableStep
  <2>3. CASE sessions' # sessions
    <3>1. Turns(s, "COLLECTING", "READY")
        BY <1>6, <2>1, <2>3 DEF Complete, History, Turns, Live, OpenStatuses
    <3> QED
        BY <3>1, <2>1 DEF TableStep, TurnsOne
  <2> QED
      BY <2>2, <2>3
<1>7. ASSUME NEW s \in Sids, Claim(s) PROVE TableStep
  <2>1. Turns(s, "READY", "ASSEMBLING")
      BY <1>7 DEF Claim, History, Turns
  <2> QED
      BY <2>1 DEF TableStep, TurnsOne
<1>8. ASSUME NEW s \in Sids, HandOff(s) PROVE TableStep
  <2>1. Hands(s)
      BY <1>8 DEF HandOff, History, Hands
  <2> QED
      BY <2>1 DEF TableStep
<1>9. ASSUME NEW s \in Sids, Close(s) PROVE TableStep
  <2>1. Empties(s) \/ Turns(s, "ASSEMBLING", "FAILED")
      BY <1>9 DEF Close, History, Empties, Turns
  <2> QED
      BY <2>1 DEF TableStep, TurnsOne
<1>10. ASSUME NEW u \in Uids, Reserve(u) \/ Filed(u) \/ Broken(u) \/ RetryUpload(u) PROVE TableStep
  <2>1. SetsOne(u)
      BY <1>10 DEF Reserve, Filed, Broken, RetryUpload, UploadStatus, SetsOne, Sets, History
  <2> QED
      BY <2>1 DEF TableStep
<1>11. CASE UNCHANGED <<sessions, uploads, creator>>
    BY <1>11 DEF TableStep
<1>12. ASSUME NEW c \in Clients, \/ \E f \in Files : Begin(c, f)
                                 \/ PutSingle(c) \/ SingleBreaks(c) \/ SkipPart(c)
                                 \/ PartRefused(c) \/ PartBreaks(c) \/ Waits(c) \/ Stop(c)
       PROVE  UNCHANGED <<sessions, uploads, creator>>
    BY <1>12 DEF Begin, PutSingle, SingleBreaks, SkipPart, PartRefused, PartBreaks, Waits, Stop,
                 Rows, History
<1> QED
    BY <1>1, <1>2, <1>3, <1>4, <1>5, <1>6, <1>7, <1>8, <1>9, <1>10, <1>11, <1>12 DEF Next, vars

\* Rows stay typed.
TablesTyped ==
  /\ sessions \in [Sids -> SessionRow \cup {None}]
  /\ uploads \in [Uids -> UploadRow \cup {None}]
  /\ creator \in [Sids -> Files \cup {None}]

LEMMA NewSessionType ==
  ASSUME TypeOK, NEW c \in Clients, FileOf(c) \in Files, Mode(SizeOf(c)) = "multipart"
  PROVE  NewSession(c) \in SessionRow /\ SizeOf(c) \in Nat /\ PartCount(SizeOf(c)) \in Numbers
<1>1. /\ SizeOf(c) \in Nat /\ PartCount(SizeOf(c)) \in Numbers
      /\ Name[FileOf(c)] \in {Name[f] : f \in Files}
      /\ [n \in Numbers |-> None] \in [Numbers -> Files \cup {None}]
    BY Plan DEF SizeOf, FileOf
<1> QED
    BY <1>1 DEF NewSession, SessionRow, OpenStatuses

\* A row that is there stays.
RowsStay ==
  /\ \A s \in Sids : sessions[s] # None => sessions'[s] # None
  /\ \A u \in Uids : uploads[u] # None => uploads'[u] # None

LEMMA NextTablesTyped == IInv /\ TableStep => TablesTyped' /\ RowsStay
<1> DEFINE Goal == TablesTyped' /\ RowsStay
<1> SUFFICES ASSUME IInv, TableStep PROVE Goal
    OBVIOUS
<1> USE DEF RowsStay
<1>n. None \notin SessionRow /\ None \notin UploadRow
    BY UploaderAssumption
<1>a. TypeOK /\ ClientsOK /\ TablesTyped
    BY DEF IInv, TypeOK, TablesTyped
<1>b. \A s \in Live : s \in Sids /\ sessions[s] \in SessionRow
    BY <1>a, Records DEF Live
<1>1. ASSUME NEW s \in Sids, NEW c \in Clients, Opens(c, s) PROVE Goal
  <2>1. NewSession(c) \in SessionRow /\ FileOf(c) \in Files
      BY <1>1, <1>n, <1>a, NewSessionType DEF Opens, ClientsOK, ClientOK, At
  <2> QED
      BY <1>1, <1>n, <1>a, <2>1 DEF Opens, TablesTyped
<1>2. ASSUME NEW s \in Sids, Empties(s) PROVE Goal
  <2>1. [sessions[s] EXCEPT !.status = "CANCELLED", !.got = [n \in Numbers |-> None]] \in SessionRow
      BY <1>2, <1>b DEF Empties, SessionRow
  <2> QED
      BY <1>2, <1>n, <1>a, <2>1 DEF Empties, TablesTyped
<1>3. ASSUME NEW s \in Sids, StoresOne(s) PROVE Goal
  <2>1. PICK n \in Numbers, f \in Files \cup {None} : Stores(s, n, f)
      BY <1>3 DEF StoresOne
  <2>2. [sessions[s] EXCEPT !.got = [sessions[s].got EXCEPT ![n] = f]] \in SessionRow
      BY <2>1, <1>b DEF Stores, SessionRow
  <2> QED
      BY <1>a, <1>n, <2>1, <2>2 DEF Stores, TablesTyped
<1>4. ASSUME NEW s \in Sids, TurnsOne(s) PROVE Goal
  <2>1. \A to \in {"READY", "ASSEMBLING", "FAILED"} : s \in Live =>
          [sessions[s] EXCEPT !.status = to] \in SessionRow
      BY <1>b DEF SessionRow, OpenStatuses
  <2> QED
      BY <1>4, <1>n, <1>a, <2>1 DEF TurnsOne, Turns, TablesTyped
<1>5. ASSUME NEW s \in Sids, Hands(s) PROVE Goal
  <2>1. NewUpload \in Uids
      BY <1>5, FreeId DEF Hands
  <2>2. [sessions[s] EXCEPT !.status = "COMPLETED", !.upload = NewUpload] \in SessionRow
      BY <1>5, <1>b, <2>1 DEF Hands, SessionRow
  <2>3. sessions[s].bytes \in Nat /\ \A n \in ReadyNumbers(s) : sessions[s].got[n] \in Files \cup {None}
      BY <1>5, <1>b DEF Hands, SessionRow, ReadyNumbers
  <2> DEFINE of == IF NoneMissing(s) THEN {sessions[s].got[n] : n \in ReadyNumbers(s)} ELSE {None}
  <2>4. of \in SUBSET (Files \cup {None})
      BY <2>3
  <2>5. [bytes |-> sessions[s].bytes, status |-> "active", of |-> of] \in UploadRow
      BY <2>3, <2>4 DEF UploadRow
  <2> QED
      BY <1>5, <1>n, <1>a, <2>1, <2>2, <2>5 DEF Hands, TablesTyped
<1>6. ASSUME NEW c \in Clients, Adds(c) PROVE Goal
  <2>1. FileOf(c) \in Files /\ SizeOf(c) \in Nat
      BY <1>6, <1>a, UploaderAssumption DEF Adds, ClientsOK, ClientOK, At, SizeOf, FileOf
  <2>2. [bytes |-> SizeOf(c), of |-> {FileOf(c)}, status |-> "active"] \in UploadRow
      BY <2>1 DEF UploadRow
  <2> QED
      BY <1>6, <1>a, <1>n, FreeId, <2>2 DEF Adds, TablesTyped
<1>7. ASSUME NEW u \in Uids, SetsOne(u) PROVE Goal
  <2>1. \A to \in {"active", "filing", "filed", "failed"} : uploads[u] # None =>
          [uploads[u] EXCEPT !.status = to] \in UploadRow
      BY <1>a, Records DEF UploadRow
  <2> QED
      BY <1>7, <1>n, <1>a, <2>1 DEF SetsOne, Sets, UploadsIn, TablesTyped
<1> QED
    BY <1>a, <1>1, <1>2, <1>3, <1>4, <1>5, <1>6, <1>7 DEF TableStep, OpensOne, TablesTyped

\* A part a client may send is a part of its session.
LEMMA SendsPart ==
  ASSUME IInv, NEW c \in Clients, Sending(c), Accepting(client[c].sid, client[c].n)
  PROVE  /\ client[c].sid \in Live /\ client[c].sid \in Sids /\ client[c].n \in Numbers
         /\ FileOf(c) \in Files /\ Fills(c)
<1> DEFINE s == client[c].sid
<1>a. TypeOK /\ ClientsOK /\ client[c] \in ClientState
    BY Records DEF IInv
<1>1. /\ Fills(c) /\ ~At(c, "idle") /\ Accepting(s, client[c].n) /\ client[c].n \in Nat \ {0}
    BY <1>a DEF Sending, ClientsOK, ClientOK, At, ClientState
<1>2. s \in Sids /\ sessions[s] \in SessionRow /\ FileOf(c) \in Files
    BY <1>1, <1>a, Records DEF Fills, ClientsOK, ClientOK
<1>3. s \in Live /\ client[c].n <= sessions[s].parts
    BY <1>1, <1>2, LiveOnes, <1>a DEF Accepting, Fills, OpenStatuses
<1>4. sessions[s].parts \in 1..MaxParts /\ MaxParts \in Nat
    BY <1>2, UploaderAssumption DEF SessionRow, Numbers
<1>5. client[c].n \in Numbers
    BY <1>1, <1>3, <1>4 DEF Numbers
<1> QED
    BY <1>1, <1>2, <1>3, <1>5

RestTyped ==
  /\ late \subseteq Sids \X Numbers \X Files
  /\ runs \in 0..MaxRuns /\ losses \in 0..MaxLosses
  /\ raced \subseteq Sids /\ twins \subseteq Sids /\ overbooked \in BOOLEAN

\* Late requests are those of parts that could be sent; what raced stays raced.
LEMMA NextRest ==
  IInv /\ [Next]_vars =>
    /\ late' \subseteq Sids \X Numbers \X Files
    /\ runs' \in 0..MaxRuns /\ losses' \in 0..MaxLosses
    /\ raced' \subseteq Sids /\ twins' \subseteq Sids
    /\ raced \subseteq raced' /\ twins \subseteq twins'
    /\ overbooked' \in BOOLEAN
<1> DEFINE Goal == /\ late' \subseteq Sids \X Numbers \X Files
                   /\ runs' \in 0..MaxRuns /\ losses' \in 0..MaxLosses
                   /\ raced' \subseteq Sids /\ twins' \subseteq Sids
                   /\ raced \subseteq raced' /\ twins \subseteq twins'
                   /\ overbooked' \in BOOLEAN
<1> SUFFICES ASSUME IInv, [Next]_vars PROVE Goal
    OBVIOUS
<1>a. /\ late \subseteq Sids \X Numbers \X Files
      /\ runs \in 0..MaxRuns /\ losses \in 0..MaxLosses
      /\ raced \subseteq Sids /\ twins \subseteq Sids /\ overbooked \in BOOLEAN
      /\ MaxRuns \in Nat /\ MaxLosses \in Nat
    BY UploaderAssumption DEF IInv, TypeOK
<1>b. ASSUME Loss PROVE losses' \in 0..MaxLosses
    BY <1>a, <1>b DEF Loss
<1>1. ASSUME NEW c \in Clients, NEW f \in Files, Begin(c, f) PROVE Goal
    BY <1>1, <1>a DEF Begin, Rows, History
<1>2. ASSUME NEW c \in Clients, NEW b \in BOOLEAN, CreateDirect(c, b) PROVE Goal
    BY <1>2, <1>a, <1>b DEF CreateDirect, Admit
<1>3. ASSUME NEW c \in Clients, NEW b \in BOOLEAN, FindOrCreate(c, b) PROVE Goal
  <2>1. Given(c) \in Sids
      BY <1>3, GivenType DEF FindOrCreate, TheOpen
  <2>2. /\ raced' = raced \/ raced' = raced \cup {Given(c)}
        /\ twins' = twins \/ twins' = twins \cup {Given(c)}
        /\ losses' = losses \/ Loss
        /\ late' = late /\ runs' = runs
      BY <1>3 DEF FindOrCreate, TheOpen, Given
  <2>3. overbooked' \in BOOLEAN
      BY <1>3, <1>a DEF FindOrCreate, Admit
  <2> QED
      BY <1>a, <1>b, <2>1, <2>2, <2>3
<1>4. ASSUME NEW c \in Clients, PartBreaks(c) PROVE Goal
  <2>1. /\ late' = late \/ /\ Sending(c) /\ Accepting(client[c].sid, client[c].n)
                           /\ late' = late \cup {<<client[c].sid, client[c].n, client[c].file>>}
        /\ Loss /\ UNCHANGED <<runs, History>>
      BY <1>4 DEF PartBreaks
  <2>2. late' \subseteq Sids \X Numbers \X Files
      BY <1>a, <2>1, SendsPart DEF FileOf
  <2> QED
      BY <1>a, <1>b, <2>1, <2>2 DEF History
<1>5. ASSUME NEW l \in late, NEW b \in BOOLEAN, LatePart(l, b) PROVE Goal
    BY <1>5, <1>a DEF LatePart, History
<1>6. ASSUME NEW c \in Clients, NEW b \in BOOLEAN, Complete(c, b) PROVE Goal
    BY <1>6, <1>a, <1>b DEF Complete, History
<1>7. ASSUME NEW c \in Clients, \/ PutSingle(c) \/ SingleBreaks(c) \/ FindOpen(c) \/ SkipPart(c)
                                \/ PartRefused(c) \/ PutPart(c) \/ Waits(c) \/ Stop(c)
      PROVE  Goal
    BY <1>7, <1>a, <1>b DEF PutSingle, SingleBreaks, FindOpen, SkipPart, PartRefused, PutPart, Waits,
                            Stop, Rows, History
<1>8. ASSUME NEW s \in Sids, Claim(s) \/ HandOff(s) \/ Close(s) PROVE Goal
    BY <1>8, <1>a, <1>b DEF Claim, HandOff, Close, History
<1>9. ASSUME NEW u \in Uids, Reserve(u) \/ Filed(u) \/ Broken(u) \/ RetryUpload(u) PROVE Goal
    BY <1>9, <1>a, <1>b DEF Reserve, Filed, Broken, RetryUpload, UploadStatus, History
<1>10. CASE UNCHANGED vars
    BY <1>10, <1>a DEF vars
<1> QED
    BY <1>1, <1>2, <1>3, <1>4, <1>5, <1>6, <1>7, <1>8, <1>9, <1>10 DEF Next

LEMMA NextTypeOK == IInv /\ [Next]_vars => TypeOK'
BY NextClientTyped, NextTableStep, NextTablesTyped, NextRest DEF TypeOK, ClientTyped, TablesTyped

-----------------------------------------------------------------------------
(* Sessions and uploads keep whose they are *)

\* What is known of a row once it is there.
Persists ==
  /\ \A s \in Sids : sessions[s] # None =>
       /\ sessions'[s] # None /\ creator'[s] = creator[s]
       /\ sessions'[s].bytes = sessions[s].bytes /\ sessions'[s].parts = sessions[s].parts
       /\ sessions[s].upload # None => sessions'[s].upload = sessions[s].upload
       /\ Clean(s)' => Clean(s)
  /\ \A u \in Uids : uploads[u] # None =>
       /\ uploads'[u] # None
       /\ uploads'[u].of = uploads[u].of /\ uploads'[u].bytes = uploads[u].bytes

LEMMA NextPersists == IInv /\ [Next]_vars => Persists
<1> SUFFICES ASSUME IInv, [Next]_vars PROVE Persists
    OBVIOUS
<1>a. TypeOK /\ SessionsOK /\ TableStep /\ RowsStay
    BY NextTableStep, NextTablesTyped DEF IInv
<1>b. \A s \in Sids : Clean(s)' => Clean(s)
    BY NextRest DEF Clean
<1>c. /\ \A s \in Sids : sessions[s] # None => sessions[s] \in SessionRow
      /\ \A u \in Uids : uploads[u] # None => uploads[u] \in UploadRow
      /\ None \notin SessionRow /\ None \notin UploadRow
    BY <1>a, Records, UploaderAssumption
<1>d. sessions \in [Sids -> SessionRow \cup {None}] /\ uploads \in [Uids -> UploadRow \cup {None}]
    BY <1>a DEF TypeOK
<1> DEFINE SessionsStay ==
             \A s \in Sids : sessions[s] # None =>
               /\ creator'[s] = creator[s]
               /\ sessions'[s].bytes = sessions[s].bytes /\ sessions'[s].parts = sessions[s].parts
               /\ sessions[s].upload # None => sessions'[s].upload = sessions[s].upload
           UploadsStay ==
             \A u \in Uids : uploads[u] # None =>
               uploads'[u].of = uploads[u].of /\ uploads'[u].bytes = uploads[u].bytes
<1>1. ASSUME NEW s \in Sids, NEW c \in Clients, Opens(c, s) PROVE SessionsStay /\ UploadsStay
    BY <1>1, <1>a DEF Opens, TypeOK
<1>2. ASSUME NEW s \in Sids, Empties(s) PROVE SessionsStay /\ UploadsStay
    BY <1>2, <1>c, <1>d DEF Empties, SessionRow
<1>3. ASSUME NEW s \in Sids, StoresOne(s) PROVE SessionsStay /\ UploadsStay
    BY <1>3, <1>c, <1>d DEF StoresOne, Stores, SessionRow
<1>4. ASSUME NEW s \in Sids, TurnsOne(s) PROVE SessionsStay /\ UploadsStay
    BY <1>4, <1>c, <1>d DEF TurnsOne, Turns, SessionRow
<1>5. ASSUME NEW s \in Sids, Hands(s) PROVE SessionsStay /\ UploadsStay
  <2>1. sessions[s] # None /\ sessions[s].upload = None
      BY <1>5, <1>a DEF Hands, Live, SessionsOK, SessionOK
  <2>2. NewUpload \in Uids /\ uploads[NewUpload] = None
      BY <1>5, FreeId DEF Hands
  <2> QED
      BY <1>5, <1>c, <1>d, <2>1, <2>2 DEF Hands, SessionRow
<1>6. ASSUME NEW c \in Clients, Adds(c) PROVE SessionsStay /\ UploadsStay
    BY <1>6, <1>d, FreeId DEF Adds
<1>7. ASSUME NEW u \in Uids, SetsOne(u) PROVE SessionsStay /\ UploadsStay
    BY <1>7, <1>c, <1>d DEF SetsOne, Sets, UploadRow
<1>8. SessionsStay /\ UploadsStay
    BY <1>a, <1>1, <1>2, <1>3, <1>4, <1>5, <1>6, <1>7 DEF TableStep, OpensOne
<1> QED
    BY <1>a, <1>b, <1>8 DEF Persists, RowsStay

\* Another session's row, and its upload, are as they were.
LEMMA SessionKept ==
  ASSUME TypeOK, Persists, NEW s \in Sids, sessions[s] # None, SessionOK(s),
         sessions'[s] = sessions[s]
  PROVE  SessionOK(s)'
<1>1. /\ creator'[s] = creator[s] /\ (Clean(s)' => Clean(s))
      /\ NoneMissing(s)' = NoneMissing(s)
    BY DEF Persists, NoneMissing, ReadyNumbers
<1>2. sessions[s].upload \in Uids \cup {None}
    BY Records DEF SessionRow
<1> QED
    BY <1>1, <1>2 DEF Persists, SessionOK

\* A complete session of one file is that file.
LEMMA Assembled ==
  ASSUME TypeOK, NEW s \in Sids, sessions[s] # None, SessionOK(s), NoneMissing(s), Clean(s)
  PROVE  {sessions[s].got[n] : n \in ReadyNumbers(s)} = {creator[s]}
<1>1. sessions[s].parts \in 1..MaxParts /\ MaxParts \in Nat
    BY Records, UploaderAssumption DEF SessionRow, Numbers
<1>2. 1 \in ReadyNumbers(s)
    BY <1>1 DEF NoneMissing
<1>3. \A n \in ReadyNumbers(s) : sessions[s].got[n] = creator[s]
    BY DEF ReadyNumbers, SessionOK
<1> QED
    BY <1>2, <1>3

LEMMA NextSessionsOK == IInv /\ [Next]_vars => SessionsOK'
<1> SUFFICES ASSUME IInv, [Next]_vars, NEW s \in Sids, sessions'[s] # None
             PROVE  SessionOK(s)'
    BY DEF SessionsOK
<1>a. TypeOK /\ ClientsOK /\ TableStep /\ Persists /\ TypeOK'
    BY NextTableStep, NextPersists, NextTypeOK DEF IInv
<1>b. /\ sessions \in [Sids -> SessionRow \cup {None}] /\ uploads \in [Uids -> UploadRow \cup {None}]
      /\ creator \in [Sids -> Files \cup {None}]
    BY <1>a DEF TypeOK
<1>c. sessions[s] # None => SessionOK(s) /\ sessions[s] \in SessionRow
    BY <1>a, Records DEF IInv, SessionsOK
<1>d. Clean(s)' => Clean(s)
    BY NextRest DEF Clean
<1>1. CASE sessions'[s] = sessions[s]
    BY <1>1, <1>a, <1>c, SessionKept
<1>2. ASSUME NEW c \in Clients, Opens(c, s) PROVE SessionOK(s)'
  <2>1. FileOf(c) \in Files /\ creator'[s] = FileOf(c) /\ sessions'[s] = NewSession(c)
      BY <1>2, <1>a, <1>b DEF Opens, ClientsOK, ClientOK, At
  <2> QED
      BY <2>1 DEF SessionOK, NewSession, SizeOf, FileOf
<1>3. CASE Empties(s)
  <2>1. /\ sessions'[s] = [sessions[s] EXCEPT !.status = "CANCELLED", !.got = [n \in Numbers |-> None]]
        /\ sessions[s] # None /\ sessions[s].status \in OpenStatuses
      BY <1>3, <1>b DEF Empties, Live
  <2>2. sessions[s].upload = None
      BY <2>1, <1>c DEF SessionOK, OpenStatuses
  <2> QED
      BY <1>a, <1>c, <2>1, <2>2 DEF SessionOK, SessionRow, Persists
<1>4. CASE StoresOne(s)
  <2>1. PICK n \in Numbers, f \in Files \cup {None} : Stores(s, n, f)
      BY <1>4 DEF StoresOne
  <2>2. /\ sessions'[s] = [sessions[s] EXCEPT !.got = [sessions[s].got EXCEPT ![n] = f]]
        /\ sessions[s] # None /\ sessions[s].status = "COLLECTING"
        /\ f # None /\ Clean(s) => f = creator[s]
      BY <2>1, <1>b DEF Stores, Live
  <2>3. sessions[s].upload = None
      BY <2>2, <1>c DEF SessionOK
  <2>4. /\ sessions'[s].status = "COLLECTING" /\ sessions'[s].upload = None
        /\ \A m \in Numbers : sessions'[s].got[m] = IF m = n THEN f ELSE sessions[s].got[m]
      BY <2>2, <2>3, <1>c DEF SessionRow
  <2>5. /\ creator'[s] = creator[s]
        /\ sessions'[s].bytes = sessions[s].bytes /\ sessions'[s].parts = sessions[s].parts
      BY <1>a, <2>2 DEF Persists
  <2> QED
      BY <1>c, <1>d, <2>2, <2>4, <2>5 DEF SessionOK
<1>5. CASE TurnsOne(s)
  <2>1. PICK to \in {"READY", "ASSEMBLING", "FAILED"} :
          /\ sessions'[s] = [sessions[s] EXCEPT !.status = to]
          /\ sessions[s] # None /\ sessions[s].status \in OpenStatuses
          /\ to = "READY" => NoneMissing(s)
          /\ to = "ASSEMBLING" => sessions[s].status = "READY"
      BY <1>5, <1>b DEF TurnsOne, Turns, Live
  <2>2. sessions[s].upload = None
      BY <2>1, <1>c DEF SessionOK, OpenStatuses
  <2>3. /\ sessions'[s].status = to /\ sessions'[s].upload = None
        /\ sessions'[s].got = sessions[s].got
      BY <2>1, <2>2, <1>c DEF SessionRow
  <2>4. /\ creator'[s] = creator[s]
        /\ sessions'[s].bytes = sessions[s].bytes /\ sessions'[s].parts = sessions[s].parts
      BY <1>a, <2>1 DEF Persists
  <2>5. to # "FAILED" => NoneMissing(s)
      BY <1>c, <2>1 DEF SessionOK
  <2>6. NoneMissing(s)' = NoneMissing(s)
      BY <2>3, <2>4 DEF NoneMissing, ReadyNumbers
  <2> QED
      BY <1>c, <1>d, <2>1, <2>3, <2>4, <2>5, <2>6 DEF SessionOK
<1>6. CASE Hands(s)
  <2>1. NewUpload \in Uids /\ uploads[NewUpload] = None
      BY <1>6, FreeId DEF Hands
  <2>2. /\ sessions'[s] = [sessions[s] EXCEPT !.status = "COMPLETED", !.upload = NewUpload]
        /\ sessions[s] # None /\ sessions[s].status = "ASSEMBLING"
      BY <1>6, <1>b DEF Hands, Live
  <2>3. /\ sessions'[s].status = "COMPLETED" /\ sessions'[s].upload = NewUpload
        /\ sessions'[s].got = sessions[s].got
      BY <2>2, <1>c DEF SessionRow
  <2>4. NoneMissing(s)
      BY <1>c, <2>2 DEF SessionOK
  <2>5. /\ uploads'[NewUpload].of = {sessions[s].got[n] : n \in ReadyNumbers(s)}
      BY <1>6, <1>b, <2>1, <2>4 DEF Hands
  <2>6. uploads'[NewUpload] # None
    <3> DEFINE row == [bytes |-> sessions[s].bytes, status |-> "active",
                       of |-> {sessions[s].got[n] : n \in ReadyNumbers(s)}]
    <3>1. uploads'[NewUpload] = row
        BY <1>6, <1>b, <2>1, <2>4 DEF Hands
    <3>2. row \in UploadRow
        BY <1>c, <2>2 DEF UploadRow, SessionRow, ReadyNumbers
    <3> QED
        BY <3>1, <3>2, UploaderAssumption
  <2>7. /\ creator'[s] = creator[s]
        /\ sessions'[s].bytes = sessions[s].bytes /\ sessions'[s].parts = sessions[s].parts
      BY <1>a, <2>2 DEF Persists
  <2>8. Clean(s)' => uploads'[NewUpload].of = {creator[s]}
      BY <1>a, <1>c, <1>d, <2>2, <2>4, <2>5, Assembled
  <2>9. NewUpload # None
      BY <2>1, UploaderAssumption DEF Uids
  <2>10. Clean(s)' => \A n \in Numbers : sessions'[s].got[n] \in {None, creator'[s]}
      BY <1>c, <1>d, <2>2, <2>3, <2>7 DEF SessionOK
  <2>11. /\ creator'[s] \in Files /\ sessions'[s].bytes = Size[creator'[s]]
         /\ sessions'[s].parts = PartCount(Size[creator'[s]])
      BY <1>c, <2>2, <2>7 DEF SessionOK
  <2>12. Clean(s)' => uploads'[sessions'[s].upload].of = {creator'[s]}
      BY <2>3, <2>7, <2>8
  <2> QED
      BY <2>3, <2>6, <2>9, <2>10, <2>11, <2>12 DEF SessionOK
<1>7. ASSUME NEW t \in Sids, t # s,
             OpensOne(t) \/ Empties(t) \/ StoresOne(t) \/ TurnsOne(t) \/ Hands(t)
      PROVE  sessions'[s] = sessions[s]
    BY <1>7, <1>b DEF OpensOne, Opens, Empties, StoresOne, Stores, TurnsOne, Turns, Hands
<1>8. ASSUME \/ UNCHANGED sessions
             \/ \E c \in Clients : Adds(c)
             \/ \E u \in Uids : SetsOne(u)
      PROVE  sessions'[s] = sessions[s]
    BY <1>8 DEF Adds, SetsOne, Sets
<1> QED
    BY <1>a, <1>1, <1>2, <1>3, <1>4, <1>5, <1>6, <1>7, <1>8 DEF TableStep, OpensOne

LEMMA NextLateOK == IInv /\ [Next]_vars => LateOK'
<1> SUFFICES ASSUME IInv, [Next]_vars, NEW l \in late'
             PROVE  sessions'[l[1]] # None /\ (Clean(l[1])' => l[3] = creator'[l[1]])
    BY DEF LateOK
<1>a. TypeOK /\ LateOK /\ Persists
    BY NextPersists DEF IInv
<1>b. l \in late \/ \E c \in Clients :
        /\ Sending(c) /\ Accepting(client[c].sid, client[c].n)
        /\ l = <<client[c].sid, client[c].n, client[c].file>>
    BY DEF Next, vars, Begin, PutSingle, SingleBreaks, FindOpen, CreateDirect, FindOrCreate,
           Complete, SkipPart, PartRefused, PutPart, PartBreaks, Waits, Stop, LatePart, Claim,
           HandOff, Close, Reserve, Filed, Broken, RetryUpload, UploadStatus, Rows
<1>1. CASE l \in late
  <2>1. l[1] \in Sids
      BY <1>1, <1>a DEF TypeOK
  <2> QED
      BY <1>1, <1>a, <2>1 DEF LateOK, Persists
<1>2. CASE l \notin late
  <2>1. PICK c \in Clients : /\ Sending(c) /\ Accepting(client[c].sid, client[c].n)
                             /\ l = <<client[c].sid, client[c].n, client[c].file>>
      BY <1>b, <1>2
  <2>2. client[c].sid \in Sids /\ Fills(c)
      BY <2>1, SendsPart
  <2> QED
      BY <1>a, <2>1, <2>2 DEF Fills, FileOf, Persists
<1> QED
    BY <1>1, <1>2

-----------------------------------------------------------------------------
(* Clients hold what is theirs *)

SameClient(c) ==
  /\ client'[c].pc = client[c].pc /\ client'[c].file = client[c].file
  /\ client'[c].sid = client[c].sid /\ client'[c].upload = client[c].upload
  /\ client'[c].found = client[c].found /\ outcome'[c] = outcome[c]

LEMMA FillsKept ==
  ASSUME Persists, NEW c \in Clients, Fills(c),
         client'[c].file = client[c].file, client'[c].sid = client[c].sid
  PROVE  Fills(c)'
BY DEF Fills, Persists, FileOf

LEMMA SentKept ==
  ASSUME Persists, NEW c \in Clients, Sent(c),
         client'[c].file = client[c].file, client'[c].upload = client[c].upload
  PROVE  Sent(c)'
BY DEF Sent, Persists, FileOf

LEMMA ClientKept ==
  ASSUME TypeOK, Persists, NEW c \in Clients, ClientOK(c), SameClient(c)
  PROVE  ClientOK(c)'
<1>1. /\ FileOf(c)' = FileOf(c) /\ SizeOf(c)' = SizeOf(c)
      /\ \A pc : At(c, pc)' <=> At(c, pc)
      /\ client'[c].upload = client[c].upload
    BY DEF SameClient, FileOf, SizeOf, At
<1>2. (Fills(c) => Fills(c)') /\ (Sent(c) => Sent(c)')
    BY FillsKept, SentKept DEF SameClient
<1>3. At(c, "creating") => \A s \in client'[c].found : sessions'[s] # None /\ SameFile(s, c)'
  <2> SUFFICES ASSUME At(c, "creating"), NEW s \in client[c].found
               PROVE  sessions'[s] # None /\ SameFile(s, c)'
      BY DEF SameClient
  <2>1. s \in Sids /\ sessions[s] # None /\ SameFile(s, c)
      BY Records DEF ClientOK, ClientState
  <2> QED
      BY <1>1, <2>1 DEF Persists, SameFile
<1>4. Fills(c) /\ sessions[client[c].sid].upload # None => sessions'[client'[c].sid].upload # None
    BY DEF Fills, Persists, SameClient
<1>5. outcome'[c] = outcome[c]
    BY DEF SameClient
<1> QED
    BY <1>1, <1>2, <1>3, <1>4, <1>5 DEF ClientOK

\* Who rests holds nothing.
LEMMA RestingOK ==
  ASSUME TypeOK, NEW c \in Clients, Fails(c)
  PROVE  ClientOK(c)' /\ \A d \in Clients : d # c => SameClient(d)
<1>1. /\ client'[c] = Resting /\ outcome'[c] = "failed"
      /\ \A d \in Clients : d # c => client'[d] = client[d] /\ outcome'[d] = outcome[d]
    BY DEF Fails, TypeOK
<1> QED
    BY <1>1 DEF Resting, ClientOK, At, SameClient

\* A client told of its row may find the others overtaken, and nothing else changed.
LEMMA OvertakingKeeps ==
  ASSUME NEW cs \in [Clients -> ClientState], NEW c \in Clients,
         client' = cs \/ client' = Overtaking(cs, c)
  PROVE  /\ client'[c] = cs[c]
         /\ \A d \in Clients : /\ client'[d].pc = cs[d].pc /\ client'[d].file = cs[d].file
                              /\ client'[d].sid = cs[d].sid /\ client'[d].upload = cs[d].upload
                              /\ client'[d].found = cs[d].found
<1>1. CASE client' = cs
    BY <1>1
<1>2. CASE client' = Overtaking(cs, c)
  <2>1. client'[c] = cs[c] /\ \A d \in Clients : d # c => client'[d] = [cs[d] EXCEPT !.overtaken = TRUE]
      BY <1>2 DEF Overtaking
  <2>2. \A d \in Clients : d # c =>
          /\ client'[d].pc = cs[d].pc /\ client'[d].file = cs[d].file
          /\ client'[d].sid = cs[d].sid /\ client'[d].upload = cs[d].upload
          /\ client'[d].found = cs[d].found
    <3> SUFFICES ASSUME NEW d \in Clients, d # c
                 PROVE  /\ client'[d].pc = cs[d].pc /\ client'[d].file = cs[d].file
                        /\ client'[d].sid = cs[d].sid /\ client'[d].upload = cs[d].upload
                        /\ client'[d].found = cs[d].found
        OBVIOUS
    <3>1. cs[d] \in ClientState /\ client'[d] = [cs[d] EXCEPT !.overtaken = TRUE]
        BY <2>1
    <3> QED
        BY <3>1 DEF ClientState
  <2> QED
      BY <2>1, <2>2
<1> QED
    BY <1>1, <1>2

LEMMA Modes == \A n : Mode(n) \in {"reject", "single", "multipart"}
BY DEF Mode

LEMMA NextClientsOK == IInv /\ [Next]_vars => ClientsOK'
<1> SUFFICES ASSUME IInv, [Next]_vars PROVE ClientsOK'
    OBVIOUS
<1>a. TypeOK /\ ClientsOK /\ Persists /\ SessionsOK
    BY NextPersists DEF IInv
<1>b. /\ client \in [Clients -> ClientState] /\ \A c \in Clients : client[c] \in ClientState
      /\ outcome \in [Clients -> {"none", "queued", "done", "failed"}]
    BY <1>a, Records DEF TypeOK
<1>c. ASSUME NEW c \in Clients, \A d \in Clients : d # c => SameClient(d), ClientOK(c)' PROVE ClientsOK'
    BY <1>a, <1>c, ClientKept DEF ClientsOK
<1>d. ASSUME \A d \in Clients : SameClient(d) PROVE ClientsOK'
    BY <1>a, <1>d, ClientKept DEF ClientsOK
<1>e. ASSUME NEW c \in Clients, Fails(c) PROVE ClientsOK'
    BY <1>a, <1>c, <1>e, RestingOK
<1>1. ASSUME NEW c \in Clients, NEW f \in Files, Begin(c, f) PROVE ClientsOK'
  <2>1. CASE ~Fails(c)
    <3>1. PICK pc \in {"single", "finding"} :
            /\ client' = [client EXCEPT ![c] = [[Resting EXCEPT !.file = f] EXCEPT !.pc = pc]]
            /\ outcome' = [outcome EXCEPT ![c] = "none"]
            /\ pc = "finding" => Mode(Size[f]) = "multipart"
        BY <1>1, <2>1, Modes DEF Begin
    <3>2. /\ client'[c].pc = pc /\ client'[c].file = f /\ client'[c].upload = None
          /\ outcome'[c] = "none"
        BY <3>1, <1>b DEF Resting
    <3>3. ClientOK(c)'
        BY <3>1, <3>2 DEF ClientOK, At, FileOf, SizeOf
    <3>4. \A d \in Clients : d # c => SameClient(d)
        BY <3>1, <1>b DEF SameClient
    <3> QED
        BY <3>3, <3>4, <1>c
  <2> QED
      BY <2>1, <1>e
<1>2. ASSUME NEW c \in Clients, PutSingle(c) PROVE ClientsOK'
  <2>1. CASE ~Fails(c)
    <3>1. /\ client' = [client EXCEPT ![c] = [client[c] EXCEPT !.pc = "streaming", !.overtaken = FALSE]]
          /\ UNCHANGED outcome /\ At(c, "single")
        BY <1>2, <1>b, <2>1 DEF PutSingle
    <3>2. client'[c].pc = "streaming" /\ client'[c].file = client[c].file /\ outcome'[c] # "done"
        BY <3>1, <1>a, <1>b DEF ClientState, ClientsOK, ClientOK, At
    <3>3. ClientOK(c)'
        BY <3>1, <3>2, <1>a DEF ClientOK, ClientsOK, At, FileOf
    <3>4. \A d \in Clients : d # c => SameClient(d)
        BY <3>1, <1>b DEF SameClient
    <3> QED
        BY <3>3, <3>4, <1>c
  <2> QED
      BY <2>1, <1>e
<1>3. ASSUME NEW c \in Clients, SingleBreaks(c) \/ Stop(c) \/ PartRefused(c) PROVE ClientsOK'
    BY <1>3, <1>e DEF SingleBreaks, Stop, PartRefused
<1>4. ASSUME NEW c \in Clients, FindOpen(c) PROVE ClientsOK'
  <2>1. CASE ~Fails(c)
    <3> DEFINE open == OpenOf(Name[FileOf(c)])
    <3>a. /\ UNCHANGED outcome /\ At(c, "finding")
          /\ \/ /\ {s \in open : ~Joins(s, c)} = {}
                /\ client' = [client EXCEPT ![c].pc = "creating", ![c].found = open]
             \/ client' = [client EXCEPT ![c].pc = "creating", ![c].found = {}]
        BY <1>4, <2>1 DEF FindOpen
    <3>1. PICK found : /\ client' = [client EXCEPT ![c] =
                             [client[c] EXCEPT !.pc = "creating", !.found = found]]
                       /\ UNCHANGED outcome /\ At(c, "finding")
                       /\ \A s \in found : s \in Live /\ SameFile(s, c)
      <4> DEFINE Goes(found) ==
            client' = [client EXCEPT ![c] = [client[c] EXCEPT !.pc = "creating", !.found = found]]
      <4>1. \/ Goes(open) /\ {s \in open : ~Joins(s, c)} = {}
            \/ Goes({})
          BY <3>a, <1>b
      <4>2. {s \in open : ~Joins(s, c)} = {} => \A s \in open : s \in Live /\ SameFile(s, c)
          BY DEF Joins, OpenOf
      <4>3. \E found : Goes(found) /\ \A s \in found : s \in Live /\ SameFile(s, c)
        <5> HIDE DEF open, Goes
        <5> QED
            BY <4>1, <4>2
      <4> QED
          BY <3>a, <4>3
    <3>2. /\ client'[c].pc = "creating" /\ client'[c].file = client[c].file
          /\ client'[c].upload = client[c].upload /\ client'[c].found = found
          /\ outcome'[c] # "done"
        BY <3>1, <1>a, <1>b DEF ClientState, ClientsOK, ClientOK, At
    <3>3. \A s \in found : sessions'[s] # None /\ SameFile(s, c)'
        BY <3>1, <3>2, <1>a DEF Live, SameFile, Persists, SizeOf
    <3>4. ClientOK(c)'
        BY <3>1, <3>2, <3>3, <1>a DEF ClientOK, ClientsOK, At, FileOf, SizeOf
    <3>5. \A d \in Clients : d # c => SameClient(d)
        BY <3>1, <1>b DEF SameClient
    <3> QED
        BY <3>4, <3>5, <1>c
  <2> QED
      BY <2>1, <1>e
<1>5. ASSUME NEW c \in Clients, NEW b \in BOOLEAN, CreateDirect(c, b) PROVE ClientsOK'
  <2> DEFINE told == [client EXCEPT ![c].pc = "waiting", ![c].upload = NewUpload]
             lost == [client EXCEPT ![c] = Resting]
  <2>1. /\ At(c, "streaming") /\ NewUpload \in Uids /\ NewUpload # None
        /\ uploads' = [uploads EXCEPT ![NewUpload] =
             [bytes |-> SizeOf(c), of |-> {FileOf(c)}, status |-> "active"]]
      BY <1>5, FreeId, UploaderAssumption DEF CreateDirect, Uids
  <2>2. told \in [Clients -> ClientState] /\ lost \in [Clients -> ClientState]
    <3>1. [client[c] EXCEPT !.pc = "waiting", !.upload = NewUpload] \in ClientState
        BY <2>1, <1>b DEF ClientState
    <3> QED
        BY <3>1, <1>b, RestingType
  <2>3. \/ client' = Overtaking(told, c) /\ UNCHANGED outcome
        \/ client' = Overtaking(lost, c) /\ outcome' = [outcome EXCEPT ![c] = "failed"]
      BY <1>5 DEF CreateDirect
  <2>4. /\ \A d \in Clients : d # c => told[d] = client[d] /\ lost[d] = client[d]
        /\ told[c].pc = "waiting" /\ told[c].file = client[c].file /\ told[c].upload = NewUpload
        /\ lost[c] = Resting
      BY <1>b DEF ClientState
  <2> HIDE DEF told, lost
  <2>5. \A d \in Clients : d # c => SameClient(d)
    <3>1. /\ client' = Overtaking(told, c) => \A d \in Clients : d # c => SameClient(d)
        BY <1>b, <2>2, <2>3, <2>4, OvertakingKeeps DEF SameClient
    <3>2. /\ client' = Overtaking(lost, c) => \A d \in Clients : d # c => SameClient(d)
        BY <1>b, <2>2, <2>3, <2>4, OvertakingKeeps DEF SameClient
    <3> QED
        BY <2>3, <3>1, <3>2
  <2>6. CASE client' = Overtaking(told, c) /\ UNCHANGED outcome
    <3>1. /\ client'[c].pc = "waiting" /\ client'[c].file = client[c].file
          /\ client'[c].upload = NewUpload /\ outcome'[c] # "done"
        BY <2>1, <2>2, <2>4, <2>6, <1>a, OvertakingKeeps DEF ClientsOK, ClientOK, At
    <3>2. FileOf(c) \in Files /\ SizeOf(c) \in Nat
        BY <2>1, <1>a, UploaderAssumption DEF ClientsOK, ClientOK, At, SizeOf, FileOf
    <3>3. uploads'[NewUpload].of = {FileOf(c)} /\ uploads'[NewUpload] # None
      <4>1. [bytes |-> SizeOf(c), of |-> {FileOf(c)}, status |-> "active"] \in UploadRow
          BY <3>2 DEF UploadRow
      <4> QED
          BY <4>1, <2>1, <1>a, UploaderAssumption DEF TypeOK
    <3>4. Sent(c)'
        BY <3>1, <3>3, <2>1 DEF Sent, FileOf
    <3> QED
        BY <3>1, <3>2, <3>4, <2>1, <2>5, <1>c DEF ClientOK, At, FileOf
  <2>7. CASE client' = Overtaking(lost, c) /\ outcome' = [outcome EXCEPT ![c] = "failed"]
    <3>1. client'[c].pc = "idle" /\ outcome'[c] = "failed"
        BY <2>2, <2>4, <2>7, <1>b, OvertakingKeeps DEF Resting
    <3> QED
        BY <3>1, <2>5, <1>c DEF ClientOK, At
  <2> QED
      BY <2>3, <2>6, <2>7
<1>6. ASSUME NEW c \in Clients, NEW b \in BOOLEAN, FindOrCreate(c, b) PROVE ClientsOK'
  <2>p. PICK s \in Sids : s = Given(c)
      BY <1>6, GivenType DEF FindOrCreate, TheOpen
  <2> DEFINE have == IF TheOpen(c) # {} THEN ReadyNumbers(s) ELSE {}
             given == [client EXCEPT ![c].pc = "part", ![c].sid = s, ![c].have = have]
             lost == [client EXCEPT ![c] = Resting]
             next == IF b THEN given ELSE lost
  <2>1. /\ s \in Sids /\ At(c, "creating") /\ ClientOK(c) /\ FileOf(c) \in Files
        /\ TheOpen(c) # {} => s \in TheOpen(c)
        /\ TheOpen(c) = {} => sessions[s] = None
      BY <1>6, <1>a, <2>p, GivenType DEF FindOrCreate, TheOpen, ClientsOK, ClientOK, At
  <2>2. given \in [Clients -> ClientState] /\ lost \in [Clients -> ClientState]
    <3>1. have \in SUBSET Numbers
        BY DEF ReadyNumbers
    <3>2. [client[c] EXCEPT !.pc = "part", !.sid = s, !.have = have] \in ClientState
        BY <2>1, <3>1, <1>b DEF ClientState
    <3> QED
        BY <3>2, <1>b, RestingType
  <2>3. /\ client' = next \/ client' = Overtaking(next, c)
        /\ outcome' = IF b THEN outcome ELSE [outcome EXCEPT ![c] = "failed"]
      BY <1>6, <2>p, FindOrCreateIs
  <2>4. /\ \A d \in Clients : d # c => given[d] = client[d] /\ lost[d] = client[d]
        /\ given[c].pc = "part" /\ given[c].file = client[c].file /\ given[c].sid = s
        /\ given[c].upload = client[c].upload /\ lost[c] = Resting
      BY <1>b DEF ClientState
  <2>5. Clean(s)' => creator'[s] = FileOf(c)
    <3>1. CASE TheOpen(c) = {}
        BY <1>6, <1>a, <2>p, <2>1, <3>1 DEF FindOrCreate, TheOpen, Given, TypeOK
    <3>2. CASE TheOpen(c) # {}
      <4>1. /\ raced' = IF s \in client[c].found THEN raced ELSE raced \cup {s}
            /\ twins' = IF creator[s] # FileOf(c) /\ SameFile(s, c) THEN twins \cup {s} ELSE twins
            /\ creator' = creator
          BY <1>6, <2>p, <3>2 DEF FindOrCreate, TheOpen, Given
      <4>2. s \in client[c].found => SameFile(s, c)
          BY <2>1 DEF ClientOK
      <4> QED
          BY <4>1, <4>2 DEF Clean
    <3> QED
        BY <3>1, <3>2
  <2>6. sessions'[s] # None
    <3>1. CASE TheOpen(c) = {}
      <4>1. sessions' = [sessions EXCEPT ![s] = NewSession(c)]
          BY <1>6, <2>p, <3>1 DEF FindOrCreate, TheOpen, Given, NewSession
      <4>2. NewSession(c) \in SessionRow
          BY <1>a, <2>1, NewSessionType DEF ClientOK
      <4> QED
          BY <4>1, <4>2, <2>1, <1>a, UploaderAssumption DEF TypeOK
    <3>2. CASE TheOpen(c) # {}
        BY <3>2, <2>1, <1>a DEF TheOpen, OpenOf, Live, Persists
    <3> QED
        BY <3>1, <3>2
  <2> HIDE DEF given, lost, have
  <2>7. \A d \in Clients : d # c => SameClient(d)
      BY <1>b, <2>2, <2>3, <2>4, OvertakingKeeps DEF SameClient
  <2>8. CASE b = TRUE
    <3>1. /\ client'[c].pc = "part" /\ client'[c].file = client[c].file /\ client'[c].sid = s
          /\ client'[c].upload = None /\ outcome'[c] # "done"
        BY <2>1, <2>2, <2>3, <2>4, <2>8, OvertakingKeeps DEF ClientOK, At
    <3>2. Fills(c)'
        BY <3>1, <2>1, <2>5, <2>6 DEF Fills, FileOf
    <3> QED
        BY <3>1, <3>2, <2>1, <2>7, <1>c DEF ClientOK, At, FileOf
  <2>9. CASE b = FALSE
    <3>1. client'[c].pc = "idle" /\ outcome'[c] = "failed"
        BY <2>2, <2>3, <2>4, <2>9, <1>b, OvertakingKeeps DEF Resting
    <3> QED
        BY <3>1, <2>7, <1>c DEF ClientOK, At
  <2> QED
      BY <2>8, <2>9
<1>7. ASSUME NEW c \in Clients, NEW b \in BOOLEAN, Complete(c, b) PROVE ClientsOK'
  <2>1. CASE Step(c, "waiting")
    <3>1. /\ client' = [client EXCEPT ![c] = [client[c] EXCEPT !.pc = "waiting"]]
          /\ UNCHANGED outcome /\ At(c, "part")
        BY <1>7, <1>b, <2>1 DEF Step, Complete
    <3>2. /\ client'[c].pc = "waiting" /\ client'[c].file = client[c].file
          /\ client'[c].upload = None /\ client'[c].sid = client[c].sid
          /\ outcome'[c] # "done" /\ Fills(c) /\ FileOf(c) \in Files
        BY <3>1, <1>a, <1>b DEF ClientState, ClientsOK, ClientOK, At
    <3>3. Fills(c)'
        BY <3>2, <1>a, FillsKept
    <3>4. ClientOK(c)'
        BY <3>2, <3>3 DEF ClientOK, At, FileOf
    <3>5. \A d \in Clients : d # c => SameClient(d)
        BY <3>1, <1>b DEF SameClient
    <3> QED
        BY <3>4, <3>5, <1>c
  <2>2. CASE EndsWell(c, "queued")
    <3>1. /\ client'[c].pc = "idle" /\ outcome'[c] = "queued"
          /\ \A d \in Clients : d # c => SameClient(d)
        BY <2>2, <1>b DEF EndsWell, Resting, SameClient
    <3> QED
        BY <3>1, <1>c DEF ClientOK, At
  <2> QED
      BY <1>7, <2>1, <2>2, <1>e DEF Complete
<1>8. ASSUME NEW c \in Clients, SkipPart(c) \/ PutPart(c) PROVE ClientsOK'
  <2>1. \A d \in Clients : SameClient(d)
      BY <1>8, <1>b DEF SkipPart, PutPart, NextNumber, SameClient, ClientState
  <2> QED
      BY <2>1, <1>d
<1>9. ASSUME NEW c \in Clients, PartBreaks(c) PROVE ClientsOK'
  <2>1. CASE ~Fails(c)
    <3>1. \A d \in Clients : SameClient(d)
        BY <1>9, <1>b, <2>1 DEF PartBreaks, SameClient, ClientState
    <3> QED
        BY <3>1, <1>d
  <2> QED
      BY <2>1, <1>e
<1>10. ASSUME NEW c \in Clients, Waits(c) PROVE ClientsOK'
  <2>1. CASE ~Fails(c)
    <3>1. EndsWell(c, "done") /\ At(c, "waiting") /\ ClientOK(c) /\ FileOf(c) \in Files
        BY <1>10, <1>a, <2>1 DEF Waits, ClientsOK, ClientOK, At
    <3>2. /\ client'[c].pc = "idle" /\ client'[c].file = client[c].file
          /\ client'[c].sid = client[c].sid /\ client'[c].upload = client[c].upload
          /\ \A d \in Clients : d # c => SameClient(d)
        BY <3>1, <1>b DEF EndsWell, Resting, SameClient, FileOf
    <3>3. client[c].upload # None => Sent(c)'
        BY <3>1, <3>2, <1>a, SentKept DEF ClientOK
    <3>4. client[c].upload = None => Fills(c) /\ Fills(c)'
        BY <3>1, <3>2, <1>a, FillsKept DEF ClientOK
    <3>5. client[c].upload = None => sessions'[client'[c].sid].upload # None
      <4> SUFFICES ASSUME client[c].upload = None PROVE sessions'[client'[c].sid].upload # None
          OBVIOUS
      <4>1. client[c].sid \in Sids /\ client[c].sid # None
          BY <3>4, UploaderAssumption DEF Fills, Sids
      <4>2. sessions[client[c].sid].upload # None
          BY <1>10, <2>1, <4>1 DEF Waits
      <4> QED
          BY <3>2, <3>4, <4>1, <4>2, <1>a DEF Fills, Persists
    <3>6. ClientOK(c)'
        BY <3>1, <3>2, <3>3, <3>4, <3>5 DEF ClientOK, At, FileOf
    <3> QED
        BY <3>2, <3>6, <1>c
  <2> QED
      BY <2>1, <1>e
<1>11. ASSUME NEW u \in Uids, RetryUpload(u) PROVE ClientsOK'
  <2>1. \A d \in Clients : SameClient(d)
      BY <1>11, <1>b DEF RetryUpload, UploadStatus, SameClient, ClientState
  <2> QED
      BY <2>1, <1>d
<1>12. ASSUME \/ UNCHANGED <<client, outcome>>
              \/ \E l \in late, b \in BOOLEAN : LatePart(l, b)
              \/ \E s \in Sids : Claim(s) \/ HandOff(s) \/ Close(s)
              \/ \E u \in Uids : Reserve(u) \/ Filed(u) \/ Broken(u)
       PROVE  ClientsOK'
  <2>1. \A d \in Clients : SameClient(d)
      BY <1>12 DEF LatePart, Claim, HandOff, Close, Reserve, Filed, Broken, UploadStatus, SameClient
  <2> QED
      BY <2>1, <1>d
<1> QED
    BY <1>1, <1>2, <1>3, <1>4, <1>5, <1>6, <1>7, <1>8, <1>9, <1>10, <1>11, <1>12 DEF Next, vars

-----------------------------------------------------------------------------
(* Sums of sizes *)

\* The bytes of the things in S, of which f says how many each has.
Bytes(S, f) == UNION {{x} \X (1..f[x]) : x \in S}
Total(S, f) == Cardinality(Bytes(S, f))

LEMMA BytesAreFinite ==
  ASSUME NEW S, IsFiniteSet(S), NEW f, \A x \in S : f[x] \in Nat
  PROVE  IsFiniteSet(Bytes(S, f)) /\ Total(S, f) \in Nat
<1> DEFINE T == {{x} \X (1..f[x]) : x \in S}
           g == [x \in S |-> {x} \X (1..f[x])]
<1>1. g \in Surjection(S, T)
    BY DEF Surjection
<1>2. IsFiniteSet(T)
    BY <1>1, FS_Surjection DEF ExistsSurjection
<1>3. ASSUME NEW x \in S PROVE IsFiniteSet({x} \X (1..f[x]))
  <2>1. 1 \in Int /\ f[x] \in Int
      BY <1>3
  <2>2. IsFiniteSet(1..f[x])
      BY <2>1, FS_Interval
  <2>3. IsFiniteSet({x})
      BY FS_Singleton
  <2> QED
      BY <2>2, <2>3, FS_Product
<1>4. IsFiniteSet(UNION T)
    BY <1>2, <1>3, FS_UNION
<1> QED
    BY <1>4, FS_CardinalityType DEF Bytes, Total

LEMMA TotalGrows ==
  ASSUME NEW T, IsFiniteSet(T), NEW S \in SUBSET T, NEW f, \A x \in T : f[x] \in Nat
  PROVE  Total(S, f) <= Total(T, f)
<1>1. Bytes(S, f) \in SUBSET Bytes(T, f)
    BY DEF Bytes
<1> QED
    BY <1>1, BytesAreFinite, FS_Subset DEF Total

LEMMA TotalOfUnion ==
  ASSUME NEW S, IsFiniteSet(S), NEW T, IsFiniteSet(T), NEW f, \A x \in S \cup T : f[x] \in Nat
  PROVE  Total(S \cup T, f) <= Total(S, f) + Total(T, f)
<1>1. Bytes(S \cup T, f) = Bytes(S, f) \cup Bytes(T, f)
    BY DEF Bytes
<1>2. IsFiniteSet(Bytes(S, f)) /\ IsFiniteSet(Bytes(T, f))
      /\ Cardinality(Bytes(S, f)) \in Nat /\ Cardinality(Bytes(T, f)) \in Nat
    BY BytesAreFinite DEF Total
<1>3. IsFiniteSet(Bytes(S, f) \cap Bytes(T, f))
    BY <1>2, FS_Subset
<1>4. Cardinality(Bytes(S, f) \cap Bytes(T, f)) \in Nat
    BY <1>3, FS_CardinalityType
<1> DEFINE A == Bytes(S, f)
           B == Bytes(T, f)
<1>5. Cardinality(A \cup B) = Cardinality(A) + Cardinality(B) - Cardinality(A \cap B)
  <2> HIDE DEF A, B
  <2>1. IsFiniteSet(A) /\ IsFiniteSet(B)
      BY <1>2 DEF A, B
  <2> QED
      BY <2>1, FS_Union
<1>6. /\ Total(S \cup T, f) = Cardinality(A \cup B)
      /\ Total(S, f) = Cardinality(A) /\ Total(T, f) = Cardinality(B)
    BY <1>1 DEF Total
<1> HIDE DEF A, B
<1> QED
    BY <1>2, <1>4, <1>5, <1>6 DEF A, B

LEMMA TotalOfMore ==
  ASSUME NEW S, IsFiniteSet(S), NEW x, x \notin S, NEW f, \A y \in S \cup {x} : f[y] \in Nat
  PROVE  Total(S \cup {x}, f) = Total(S, f) + f[x]
<1> DEFINE B == {x} \X (1..f[x])
<1>1. Bytes(S \cup {x}, f) = Bytes(S, f) \cup B /\ Bytes(S, f) \cap B = {}
    BY DEF Bytes
<1>2. IsFiniteSet(B) /\ Cardinality(B) = f[x]
  <2>1. f[x] \in Nat /\ f[x] \in Int
      OBVIOUS
  <2>2. IsFiniteSet(1..f[x]) /\ Cardinality(1..f[x]) = f[x]
      BY <2>1, FS_Interval
  <2>3. IsFiniteSet({x}) /\ Cardinality({x}) = 1
      BY FS_Singleton
  <2> DEFINE I == 1..f[x]
  <2> HIDE DEF I
  <2>4. IsFiniteSet({x} \X I) /\ Cardinality({x} \X I) = Cardinality({x}) * Cardinality(I)
      BY <2>2, <2>3, FS_Product DEF I
  <2> QED
      BY <2>1, <2>2, <2>3, <2>4 DEF I
<1>3. IsFiniteSet(Bytes(S, f)) /\ Cardinality(Bytes(S, f)) \in Nat
    BY BytesAreFinite DEF Total
<1>4. Cardinality(Bytes(S, f) \cap B) = 0
    BY <1>1, FS_EmptySet
<1> DEFINE A == Bytes(S, f)
<1>5. Cardinality(A \cup B) = Cardinality(A) + Cardinality(B) - Cardinality(A \cap B)
  <2> HIDE DEF A, B
  <2> QED
      BY <1>2, <1>3, FS_Union DEF A
<1>6. /\ Total(S \cup {x}, f) = Cardinality(A \cup B)
      /\ Total(S, f) = Cardinality(A)
    BY <1>1 DEF Total
<1>7. Cardinality(A \cap B) = 0 /\ Cardinality(B) = f[x] /\ Cardinality(A) \in Nat /\ f[x] \in Nat
    BY <1>2, <1>3, <1>4
<1> HIDE DEF A, B
<1> QED
    BY <1>5, <1>6, <1>7

LEMMA TotalAgrees ==
  ASSUME NEW S, NEW f, NEW g, \A x \in S : f[x] = g[x]
  PROVE  Total(S, f) = Total(S, g)
<1>1. Bytes(S, f) = Bytes(S, g)
    BY DEF Bytes
<1> QED
    BY <1>1 DEF Total

-----------------------------------------------------------------------------
(* The quota *)

UploadSize == [u \in Uids |-> IF uploads[u] = None THEN 0 ELSE uploads[u].bytes]
SessionSize == [s \in Sids |-> IF sessions[s] = None THEN 0 ELSE sessions[s].bytes]
Counted == UploadsIn({"active", "filing", "filed"})
UploadTotal == Total(Counted, UploadSize)
SessionTotal == Total(Live, SessionSize)

Counts ==
  /\ IsFiniteSet(Uids) /\ IsFiniteSet(Sids)
  /\ \A u \in Uids : UploadSize[u] \in Nat
  /\ \A s \in Sids : SessionSize[s] \in Nat
  /\ \A S : /\ UploadsIn(S) \subseteq Uids /\ IsFiniteSet(UploadsIn(S))
            /\ BytesOf(UploadsIn(S)) = Total(UploadsIn(S), UploadSize)
            /\ Total(UploadsIn(S), UploadSize) \in Nat
  /\ Live \subseteq Sids /\ IsFiniteSet(Live)
  /\ UploadTotal \in Nat /\ SessionTotal \in Nat
  /\ Promised(Live) = SessionTotal
  /\ Charged = UploadTotal + SessionTotal

LEMMA CountsHold == TypeOK => Counts
<1> SUFFICES ASSUME TypeOK PROVE Counts
    OBVIOUS
<1>1. IsFiniteSet(Uids) /\ IsFiniteSet(Sids)
    BY UploaderAssumption, FS_Interval DEF Uids, Sids
<1>2. /\ \A u \in Uids : UploadSize[u] \in Nat
      /\ \A s \in Sids : SessionSize[s] \in Nat
    BY Records DEF UploadSize, SessionSize, UploadRow, SessionRow
<1>3. ASSUME NEW S
      PROVE  /\ UploadsIn(S) \subseteq Uids /\ IsFiniteSet(UploadsIn(S))
             /\ BytesOf(UploadsIn(S)) = Total(UploadsIn(S), UploadSize)
             /\ Total(UploadsIn(S), UploadSize) \in Nat
  <2>1. UploadsIn(S) \subseteq Uids /\ \A u \in UploadsIn(S) : UploadSize[u] = uploads[u].bytes
      BY DEF UploadsIn, UploadSize
  <2>2. IsFiniteSet(UploadsIn(S))
      BY <1>1, <2>1, FS_Subset
  <2>3. Total(UploadsIn(S), UploadSize) \in Nat
      BY <1>2, <2>1, <2>2, BytesAreFinite
  <2>4. Bytes(UploadsIn(S), UploadSize) = UNION {{u} \X (1..uploads[u].bytes) : u \in UploadsIn(S)}
      BY <2>1 DEF Bytes
  <2> QED
      BY <2>1, <2>2, <2>3, <2>4 DEF BytesOf, Total
<1>4. Live \subseteq Sids /\ \A s \in Live : SessionSize[s] = sessions[s].bytes
    BY DEF Live, SessionSize
<1>5. IsFiniteSet(Live)
    BY <1>1, <1>4, FS_Subset
<1>6. UploadTotal \in Nat /\ SessionTotal \in Nat
    BY <1>2, <1>3, <1>4, <1>5, BytesAreFinite DEF UploadTotal, SessionTotal, Counted
<1>7. Promised(Live) = SessionTotal
  <2>1. Bytes(Live, SessionSize) = UNION {{s} \X (1..sessions[s].bytes) : s \in Live}
      BY <1>4 DEF Bytes
  <2> QED
      BY <2>1 DEF Promised, SessionTotal, Total
<1>8. Charged = UploadTotal + SessionTotal
    BY <1>3, <1>7 DEF Charged, UploadTotal, Counted
<1> QED
    BY <1>1, <1>2, <1>3, <1>4, <1>5, <1>6, <1>7, <1>8 DEF Counts

\* The check counts a file being moved twice, and so never less than is charged.
LEMMA FitsBounds ==
  ASSUME TypeOK, NEW n \in Nat, Fits(n)
  PROVE  Charged + n <= Quota
<1>1. Counts
    BY CountsHold
<1> DEFINE A == UploadsIn({"active", "filing"})
           F == UploadsIn({"filing", "filed"})
<1>2. Counted = A \cup F
    BY DEF Counted, UploadsIn
<1>3. /\ IsFiniteSet(A) /\ IsFiniteSet(F) /\ A \subseteq Uids /\ F \subseteq Uids
      /\ BytesOf(A) = Total(A, UploadSize) /\ BytesOf(F) = Total(F, UploadSize)
      /\ Total(A, UploadSize) \in Nat /\ Total(F, UploadSize) \in Nat
      /\ \A u \in Uids : UploadSize[u] \in Nat
    BY <1>1 DEF Counts
<1>4. BytesOf(F) + (BytesOf(A) + SessionTotal) + n <= Quota
    BY <1>1 DEF Fits, Used, Reserved, Counts
<1> HIDE DEF A, F
<1>5. UploadTotal <= Total(A, UploadSize) + Total(F, UploadSize)
    BY <1>2, <1>3, TotalOfUnion DEF UploadTotal
<1> QED
    BY <1>1, <1>3, <1>4, <1>5, UploaderAssumption DEF Counts

\* Rows keep their sizes: a total moves with what it counts.
LEMMA SessionsShrink ==
  ASSUME TypeOK, Counts', Persists, Live' \subseteq Live
  PROVE  SessionTotal' <= SessionTotal
<1> DEFINE f == SessionSize
           L == Live
<1>1. \A s \in Live' : SessionSize'[s] = SessionSize[s]
    BY DEF Live, Persists, SessionSize
<1>2. SessionTotal' = Total(Live', SessionSize)
    BY <1>1, TotalAgrees DEF SessionTotal
<1>3. Counts
    BY CountsHold
<1> QED
    BY <1>2, <1>3, TotalGrows DEF SessionTotal, Counts

LEMMA UploadsShrink ==
  ASSUME TypeOK, Counts', Persists, Counted' \subseteq Counted
  PROVE  UploadTotal' <= UploadTotal
<1>1. \A u \in Counted' : UploadSize'[u] = UploadSize[u]
    BY DEF Counted, UploadsIn, Persists, UploadSize
<1>2. UploadTotal' = Total(Counted', UploadSize)
    BY <1>1, TotalAgrees DEF UploadTotal
<1>3. Counts /\ Counted \subseteq Uids /\ IsFiniteSet(Counted)
    BY CountsHold DEF Counted, Counts
<1> QED
    BY <1>2, <1>3, TotalGrows DEF UploadTotal, Counts

LEMMA UploadsGrow ==
  ASSUME TypeOK, Counts', Persists, NEW u \in Uids, u \notin Counted, Counted' = Counted \cup {u}
  PROVE  UploadTotal' = UploadTotal + UploadSize'[u]
<1>1. \A v \in Counted : UploadSize'[v] = UploadSize[v]
    BY DEF Counted, UploadsIn, Persists, UploadSize
<1>2. UploadTotal = Total(Counted, UploadSize')
    BY <1>1, TotalAgrees DEF UploadTotal
<1>3. Counted \subseteq Uids /\ IsFiniteSet(Counted) /\ \A v \in Uids : UploadSize'[v] \in Nat
    BY CountsHold DEF Counted, Counts
<1> DEFINE f == UploadSize'
           C == Counted
<1>4. Total(C \cup {u}, f) = Total(C, f) + f[u]
  <2>1. IsFiniteSet(C) /\ u \notin C /\ \A y \in C \cup {u} : f[y] \in Nat
      BY <1>3
  <2> HIDE DEF f, C
  <2> QED
      BY <2>1, TotalOfMore
<1> QED
    BY <1>2, <1>4 DEF UploadTotal


LEMMA SessionsGrow ==
  ASSUME TypeOK, Counts', Persists, NEW s \in Sids, s \notin Live, Live' = Live \cup {s}
  PROVE  SessionTotal' = SessionTotal + SessionSize'[s]
<1>1. \A t \in Live : SessionSize'[t] = SessionSize[t]
    BY DEF Live, Persists, SessionSize
<1>2. SessionTotal = Total(Live, SessionSize')
    BY <1>1, TotalAgrees DEF SessionTotal
<1>3. Live \subseteq Sids /\ IsFiniteSet(Live) /\ \A t \in Sids : SessionSize'[t] \in Nat
    BY CountsHold DEF Counts
<1> DEFINE f == SessionSize'
           L == Live
<1>4. Total(L \cup {s}, f) = Total(L, f) + f[s]
  <2>1. IsFiniteSet(L) /\ s \notin L /\ \A y \in L \cup {s} : f[y] \in Nat
      BY <1>3
  <2> HIDE DEF f, L
  <2> QED
      BY <2>1, TotalOfMore
<1> QED
    BY <1>2, <1>4 DEF SessionTotal

LEMMA SessionsDrop ==
  ASSUME TypeOK, Counts', Persists, NEW s \in Live, Live' = Live \ {s}
  PROVE  SessionTotal = SessionTotal' + SessionSize[s]
<1>1. \A t \in Live' : SessionSize'[t] = SessionSize[t]
    BY DEF Live, Persists, SessionSize
<1>2. SessionTotal' = Total(Live', SessionSize)
    BY <1>1, TotalAgrees DEF SessionTotal
<1>3. /\ Live \subseteq Sids /\ IsFiniteSet(Live) /\ IsFiniteSet(Live')
      /\ \A t \in Sids : SessionSize[t] \in Nat
    BY CountsHold DEF Counts
<1> DEFINE f == SessionSize
           L == Live'
<1>4. Total(L \cup {s}, f) = Total(L, f) + f[s]
  <2>1. IsFiniteSet(L) /\ s \notin L /\ \A y \in L \cup {s} : f[y] \in Nat
      BY <1>3
  <2> HIDE DEF f, L
  <2> QED
      BY <2>1, TotalOfMore
<1>5. L \cup {s} = Live
    OBVIOUS
<1> QED
    BY <1>2, <1>4, <1>5 DEF SessionTotal

\* What a step does to the charge: the two admissions add what they admit, a retry may add an
\* upload, and nothing else adds anything; a hand-off moves a session's bytes to its upload.
LEMMA NextCharge ==
  IInv /\ TableStep /\ Persists /\ TypeOK' =>
    /\ Charged \in Nat /\ Charged' \in Nat
    /\ \/ Charged' <= Charged
       \/ \E c \in Clients, s \in Sids : Opens(c, s) /\ Charged' = Charged + SizeOf(c)
       \/ \E c \in Clients : Adds(c) /\ Charged' = Charged + SizeOf(c)
       \/ \E u \in Uids : Sets(u, "failed", "active")
<1> DEFINE Less == Charged' <= Charged
           Opened == \E c \in Clients, s \in Sids : Opens(c, s) /\ Charged' = Charged + SizeOf(c)
           Added == \E c \in Clients : Adds(c) /\ Charged' = Charged + SizeOf(c)
           Retried == \E u \in Uids : Sets(u, "failed", "active")
           Goal == Less \/ Opened \/ Added \/ Retried
<1> SUFFICES ASSUME IInv, TableStep, Persists, TypeOK'
             PROVE  Charged \in Nat /\ Charged' \in Nat /\ Goal
    OBVIOUS
<1>a. TypeOK /\ ClientsOK /\ SessionsOK
    BY DEF IInv
<1>b. Counts'
    BY CountsHold, PTL
<1>c. /\ UploadTotal \in Nat /\ SessionTotal \in Nat /\ UploadTotal' \in Nat /\ SessionTotal' \in Nat
      /\ Charged = UploadTotal + SessionTotal /\ Charged' = UploadTotal' + SessionTotal'
    BY <1>a, <1>b, CountsHold DEF Counts
<1>n. Charged \in Nat /\ Charged' \in Nat
  <2>1. \A m, n \in Nat : m + n \in Nat
      OBVIOUS
  <2> QED
      BY <1>c, <2>1, Zenon
<1>d. /\ sessions \in [Sids -> SessionRow \cup {None}] /\ uploads \in [Uids -> UploadRow \cup {None}]
      /\ \A s \in Live : s \in Sids /\ sessions[s] # None /\ sessions[s] \in SessionRow
      /\ \A u \in Uids : uploads[u] # None => uploads[u] \in UploadRow
    BY <1>a, Records DEF TypeOK, Live
<1>e. ASSUME UploadTotal' <= UploadTotal, SessionTotal' <= SessionTotal PROVE Goal
  <2>1. Less
    <3>1. \A m, n, p, q \in Nat : m <= p /\ n <= q => m + n <= p + q
        OBVIOUS
    <3> QED
        BY <1>c, <1>e, <3>1, Zenon
  <2> HIDE DEF Less, Opened, Added, Retried
  <2> QED
      BY <2>1
<1>f. ASSUME uploads' = uploads, Live' \subseteq Live PROVE Goal
  <2>1. Counted' = Counted /\ UploadTotal' = UploadTotal
      BY <1>f DEF Counted, UploadsIn, UploadTotal, UploadSize
  <2>2. SessionTotal' <= SessionTotal
      BY <1>a, <1>b, <1>f, SessionsShrink
  <2> HIDE DEF Goal
  <2> QED
      BY <1>c, <1>e, <2>1, <2>2
<1>g. ASSUME sessions' = sessions PROVE SessionTotal' = SessionTotal
    BY <1>g DEF SessionTotal, Live, SessionSize
<1>h. ASSUME uploads' = uploads PROVE UploadTotal' = UploadTotal
    BY <1>h DEF UploadTotal, Counted, UploadsIn, UploadSize
<1>1. ASSUME NEW s \in Sids, NEW c \in Clients, Opens(c, s) PROVE Goal
  <2>1. /\ NewSession(c) \in SessionRow /\ SizeOf(c) \in Nat /\ NewSession(c) # None
      BY <1>1, <1>a, NewSessionType, UploaderAssumption DEF Opens, ClientsOK, ClientOK, At
  <2>2. sessions'[s] = NewSession(c) /\ \A t \in Sids : t # s => sessions'[t] = sessions[t]
      BY <1>1, <1>d DEF Opens
  <2>3. Live' = Live \cup {s} /\ s \notin Live /\ SessionSize'[s] = SizeOf(c)
    <3>1. NewSession(c).status \in OpenStatuses /\ NewSession(c).bytes = SizeOf(c)
        BY DEF NewSession, OpenStatuses
    <3>2. sessions[s] = None
        BY <1>1 DEF Opens
    <3> QED
        BY <2>1, <2>2, <3>1, <3>2 DEF Live, SessionSize
  <2>4. SessionTotal' = SessionTotal + SizeOf(c)
      BY <1>a, <1>b, <2>3, SessionsGrow
  <2>5. UploadTotal' = UploadTotal
      BY <1>1, <1>h DEF Opens
  <2>6. Charged' = Charged + SizeOf(c)
      BY <1>c, <2>1, <2>4, <2>5
  <2>7. Opened
      BY <1>1, <2>6
  <2> HIDE DEF Less, Opened, Added, Retried
  <2> QED
      BY <2>7
<1>2. ASSUME NEW s \in Sids, Empties(s) \/ StoresOne(s) \/ TurnsOne(s) PROVE Goal
  <2>1. uploads' = uploads /\ s \in Live /\ \A t \in Sids : t # s => sessions'[t] = sessions[t]
      BY <1>2, <1>d DEF Empties, StoresOne, Stores, TurnsOne, Turns
  <2>2. Live' \subseteq Live
      BY <2>1 DEF Live
  <2> QED
      BY <1>f, <2>1, <2>2
<1>3. ASSUME NEW s \in Sids, Hands(s) PROVE Goal
  <2> DEFINE of == IF NoneMissing(s) THEN {sessions[s].got[n] : n \in ReadyNumbers(s)} ELSE {None}
             row == [bytes |-> sessions[s].bytes, status |-> "active", of |-> of]
  <2>1. /\ s \in Live /\ NewUpload \in Uids /\ uploads[NewUpload] = None
        /\ uploads' = [uploads EXCEPT ![NewUpload] = row]
        /\ sessions' = [sessions EXCEPT ![s] =
             [sessions[s] EXCEPT !.status = "COMPLETED", !.upload = NewUpload]]
      BY <1>3, <1>d, FreeId DEF Hands
  <2>2. row.bytes = sessions[s].bytes /\ row.status = "active"
      OBVIOUS
  <2>3. PICK u \in Uids : u = NewUpload
      BY <2>1
  <2>s. PICK old \in SessionRow : old = sessions[s]
      BY <1>d, <2>1
  <2>n. ReadyNumbers(s) \subseteq Numbers /\ \A n \in Numbers : sessions[s].got[n] \in Files \cup {None}
      BY <2>s DEF SessionRow, ReadyNumbers
  <2>o. of \in SUBSET (Files \cup {None})
      BY <2>n
  <2>b. sessions[s].bytes \in Nat
      BY <2>s DEF SessionRow
  <2>5. row # None
    <3> HIDE DEF of
    <3>1. row \in UploadRow
        BY <2>o, <2>b DEF UploadRow
    <3> QED
        BY <3>1, UploaderAssumption
  <2> HIDE DEF row
  <2>4. uploads'[u] = row /\ \A v \in Uids : v # u => uploads'[v] = uploads[v]
      BY <1>d, <2>1, <2>3
  <2>6. Counted' = Counted \cup {u} /\ u \notin Counted /\ UploadSize'[u] = sessions[s].bytes
      BY <2>1, <2>2, <2>3, <2>4, <2>5 DEF Counted, UploadsIn, UploadSize
  <2>7. UploadTotal' = UploadTotal + sessions[s].bytes
      BY <1>a, <1>b, <2>6, UploadsGrow
  <2>8. /\ sessions'[s].status = "COMPLETED"
        /\ \A t \in Sids : t # s => sessions'[t] = sessions[t]
      BY <1>d, <2>1 DEF SessionRow
  <2>9. Live' = Live \ {s}
      BY <1>d, <2>1, <2>8 DEF Live, OpenStatuses
  <2>10. SessionTotal = SessionTotal' + SessionSize[s]
      BY <1>a, <1>b, <2>1, <2>9, SessionsDrop
  <2>11. SessionSize[s] = sessions[s].bytes /\ sessions[s].bytes \in Nat
      BY <1>d, <2>1 DEF SessionSize, SessionRow
  <2>12. Less
      BY <1>c, <2>7, <2>10, <2>11
  <2> HIDE DEF Less, Opened, Added, Retried
  <2> QED
      BY <2>12
<1>4. ASSUME NEW c \in Clients, Adds(c) PROVE Goal
  <2> DEFINE row == [bytes |-> SizeOf(c), of |-> {FileOf(c)}, status |-> "active"]
  <2>1. SizeOf(c) \in Nat /\ FileOf(c) \in Files
      BY <1>4, <1>a, UploaderAssumption DEF Adds, ClientsOK, ClientOK, At, SizeOf, FileOf
  <2>2. /\ row.bytes = SizeOf(c) /\ row.status = "active" /\ row \in UploadRow /\ row # None
      BY <2>1, UploaderAssumption DEF UploadRow
  <2>3. PICK u \in Uids : u = NewUpload /\ uploads[u] = None
      BY <1>4, FreeId DEF Adds
  <2>4. uploads'[u] = row /\ \A v \in Uids : v # u => uploads'[v] = uploads[v]
      BY <1>4, <1>d, <2>3 DEF Adds
  <2> HIDE DEF row
  <2>5. Counted' = Counted \cup {u} /\ u \notin Counted /\ UploadSize'[u] = SizeOf(c)
      BY <2>2, <2>3, <2>4 DEF Counted, UploadsIn, UploadSize
  <2>6. UploadTotal' = UploadTotal + SizeOf(c)
      BY <1>a, <1>b, <2>5, UploadsGrow
  <2>7. SessionTotal' = SessionTotal
      BY <1>4, <1>g DEF Adds
  <2>8. Charged' = Charged + SizeOf(c)
      BY <1>c, <2>1, <2>6, <2>7
  <2>9. Added
      BY <1>4, <2>8
  <2> HIDE DEF Less, Opened, Added, Retried
  <2> QED
      BY <2>9
<1>5. ASSUME NEW u \in Uids, SetsOne(u) PROVE Goal
  <2>1. CASE Sets(u, "failed", "active")
    <3>1. Retried
        BY <2>1
    <3> HIDE DEF Less, Opened, Added, Retried
    <3> QED
        BY <3>1
  <2>2. CASE ~Sets(u, "failed", "active")
    <3>1. PICK to \in {"filing", "filed", "failed"} :
            /\ u \in Counted /\ uploads[u] # None
            /\ uploads' = [uploads EXCEPT ![u] = [uploads[u] EXCEPT !.status = to]]
            /\ sessions' = sessions
        BY <1>5, <1>d, <2>2 DEF SetsOne, Sets, Counted, UploadsIn
    <3>2. \A v \in Uids : v # u => uploads'[v] = uploads[v]
        BY <1>d, <3>1
    <3>3. Counted' \subseteq Counted
        BY <3>1, <3>2 DEF Counted, UploadsIn
    <3>4. UploadTotal' <= UploadTotal /\ SessionTotal' <= SessionTotal
        BY <1>a, <1>b, <1>c, <1>g, <3>1, <3>3, UploadsShrink
    <3> HIDE DEF Goal
    <3> QED
        BY <1>e, <3>4
  <2> QED
      BY <2>1, <2>2
<1>6. CASE UNCHANGED <<sessions, uploads, creator>>
  <2>1. sessions' = sessions /\ uploads' = uploads
      BY <1>6
  <2>2. UploadTotal' <= UploadTotal /\ SessionTotal' <= SessionTotal
      BY <1>c, <1>g, <1>h, <2>1
  <2> HIDE DEF Goal
  <2> QED
      BY <1>n, <1>e, <2>2
<1> HIDE DEF Goal
<1> QED
    BY <1>n, <1>1, <1>2, <1>3, <1>4, <1>5, <1>6 DEF TableStep, OpensOne

-----------------------------------------------------------------------------
(* Nobody is let in beyond the quota *)

\* Only the two admissions and a retry add to the charge.
LEMMA NothingAdmitted ==
  ASSUME IInv, TableStep, Persists, TypeOK',
         \A s \in Sids : sessions[s] = None => sessions'[s] = None,
         \A u \in Uids : uploads[u] = None => uploads'[u] = None \/ sessions' # sessions,
         \A u \in UploadsIn({"failed"}) : uploads'[u] = uploads[u]
  PROVE  Charged \in Nat /\ Charged' \in Nat /\ Charged' <= Charged
<1>a. /\ TypeOK /\ ClientsOK /\ sessions \in [Sids -> SessionRow \cup {None}]
      /\ uploads \in [Uids -> UploadRow \cup {None}]
      /\ \A u \in Uids : uploads[u] # None => uploads[u] \in UploadRow
    BY Records DEF IInv, TypeOK
<1>1. ASSUME NEW c \in Clients, NEW s \in Sids, Opens(c, s) PROVE FALSE
  <2>1. NewSession(c) # None
    <3>1. FileOf(c) \in Files /\ Mode(SizeOf(c)) = "multipart"
        BY <1>1, <1>a DEF Opens, ClientsOK, ClientOK, At
    <3>2. NewSession(c) \in SessionRow
        BY <3>1, <1>a, NewSessionType
    <3> QED
        BY <3>2, UploaderAssumption
  <2>2. sessions'[s] = NewSession(c) /\ sessions[s] = None
      BY <1>1, <1>a DEF Opens
  <2> QED
      BY <2>1, <2>2
<1>2. ASSUME NEW c \in Clients, Adds(c) PROVE FALSE
  <2> DEFINE row == [bytes |-> SizeOf(c), of |-> {FileOf(c)}, status |-> "active"]
  <2>1. SizeOf(c) \in Nat /\ FileOf(c) \in Files
      BY <1>2, <1>a, UploaderAssumption DEF Adds, ClientsOK, ClientOK, At, SizeOf, FileOf
  <2>2. row # None
    <3>1. row \in UploadRow
        BY <2>1 DEF UploadRow
    <3> QED
        BY <3>1, UploaderAssumption
  <2>3. PICK u \in Uids : u = NewUpload /\ uploads[u] = None
      BY <1>2, FreeId DEF Adds
  <2>4. uploads'[u] = row /\ sessions' = sessions
      BY <1>2, <1>a, <2>3 DEF Adds
  <2> QED
      BY <2>2, <2>3, <2>4
<1>3. ASSUME NEW u \in Uids, Sets(u, "failed", "active") PROVE FALSE
  <2>1. /\ uploads[u] \in UploadRow /\ uploads[u].status = "failed" /\ u \in UploadsIn({"failed"})
        /\ uploads'[u] = [uploads[u] EXCEPT !.status = "active"]
      BY <1>3, <1>a DEF Sets, UploadsIn
  <2>2. uploads'[u].status = "active"
      BY <2>1 DEF UploadRow
  <2> QED
      BY <2>1, <2>2
<1> QED
    BY <1>1, <1>2, <1>3, NextCharge

\* What a client asks for is a file with a size.
LEMMA SizesAsked == IInv => \A d \in Clients : Asking(d) => SizeOf(d) \in Nat
BY UploaderAssumption DEF IInv, ClientsOK, ClientOK, Asking, At, FileOf, SizeOf

\* Where nobody is let through anew and nothing is admitted, the quota holds as before.
LEMMA StillWithin ==
  ASSUME IInv, overbooked' = overbooked, Charged \in Nat, Charged' \in Nat, Charged' <= Charged,
         \A d \in Clients : Fresh(d)' => Fresh(d) /\ FileOf(d)' = FileOf(d)
  PROVE  WithinQuota'
<1>1. ~overbooked'
    BY DEF IInv, WithinQuota
<1>2. ASSUME NEW d \in Clients, Fresh(d)' PROVE (Charged + SizeOf(d) <= Quota)'
  <2>1. Fresh(d) /\ SizeOf(d)' = SizeOf(d)
      BY <1>2 DEF SizeOf, FileOf
  <2>2. Charged + SizeOf(d) <= Quota /\ SizeOf(d) \in Nat
      BY <2>1, SizesAsked DEF IInv, WithinQuota, Fresh
  <2>3. \A m, n, p, q \in Nat : m <= n /\ n + p <= q => m + p <= q
      OBVIOUS
  <2> QED
      BY <2>1, <2>2, <2>3, UploaderAssumption
<1> QED
    BY <1>1, <1>2 DEF WithinQuota

\* An admission leaves everybody else overtaken, and is within the quota itself.
LEMMA Admission ==
  ASSUME IInv, NEW c \in Clients, NEW cs \in [Clients -> ClientState],
         Asking(c), client' = Overtaking(cs, c), cs[c].pc \in {"waiting", "part", "idle"},
         Admit(c, SizeOf(c))
  PROVE  WithinQuota'
<1>1. \A d \in Clients : d # c => client'[d].overtaken = TRUE
  <2> SUFFICES ASSUME NEW d \in Clients, d # c PROVE client'[d].overtaken = TRUE
      OBVIOUS
  <2>1. cs[d] \in ClientState /\ client'[d] = [cs[d] EXCEPT !.overtaken = TRUE]
      BY DEF Overtaking
  <2> QED
      BY <2>1 DEF ClientState
<1>2. client'[c].pc \in {"waiting", "part", "idle"}
    BY DEF Overtaking
<1>3. \A d \in Clients : ~Fresh(d)'
    BY <1>1, <1>2 DEF Fresh, Asking, At
<1>4. ~(~client[c].overtaken /\ Charged + SizeOf(c) > Quota)
  <2>1. Fresh(c) => Charged + SizeOf(c) <= Quota
      BY DEF IInv, WithinQuota
  <2>2. SizeOf(c) \in Nat /\ Charged \in Nat /\ Quota \in Nat
    <3>1. Counts
        BY CountsHold DEF IInv
    <3>2. \A m, n \in Nat : m + n \in Nat
        OBVIOUS
    <3>3. Charged \in Nat
        BY <3>1, <3>2, Zenon DEF Counts
    <3> QED
        BY <3>3, SizesAsked, UploaderAssumption
  <2>3. \A m, n, q \in Nat : m + n <= q => ~(m + n > q)
      OBVIOUS
  <2> QED
      BY <2>1, <2>2, <2>3, Zenon DEF Fresh
<1>5. ~overbooked'
    BY <1>4 DEF Admit, IInv, WithinQuota
<1> QED
    BY <1>3, <1>5 DEF WithinQuota

\* Who is through the check has its file within the quota.
LEMMA LetThrough ==
  ASSUME IInv, TypeOK', UNCHANGED <<sessions, uploads, overbooked>>, NEW c \in Clients,
         NEW f \in Files, Fits(Size[f]), client'[c].file = f,
         \A d \in Clients : d # c => client'[d] = client[d]
  PROVE  WithinQuota'
<1>1. Charged' = Charged
    BY DEF Charged, BytesOf, Promised, UploadsIn, Live
<1>2. Size[f] \in Nat
    BY UploaderAssumption
<1>3. Charged + Size[f] <= Quota
    BY <1>2, FitsBounds DEF IInv
<1>4. ~overbooked'
    BY DEF IInv, WithinQuota
<1>5. ASSUME NEW d \in Clients, Fresh(d)' PROVE (Charged + SizeOf(d) <= Quota)'
  <2>1. CASE d = c
      BY <1>1, <1>3, <2>1 DEF SizeOf
  <2>2. CASE d # c
    <3>1. Fresh(d) /\ SizeOf(d)' = SizeOf(d)
        BY <1>5, <2>2 DEF Fresh, Asking, At, SizeOf
    <3> QED
        BY <1>1, <3>1 DEF IInv, WithinQuota
  <2> QED
      BY <2>1, <2>2
<1> QED
    BY <1>4, <1>5 DEF WithinQuota

LEMMA NextWithinQuota == IInv /\ [Next]_vars => WithinQuota'
<1> SUFFICES ASSUME IInv, [Next]_vars PROVE WithinQuota'
    OBVIOUS
<1>a. TypeOK /\ ClientsOK /\ Persists /\ TableStep /\ TypeOK' /\ Counts /\ ~overbooked
    BY NextPersists, NextTableStep, NextTypeOK, CountsHold DEF IInv, WithinQuota
<1>b. /\ client \in [Clients -> ClientState] /\ \A c \in Clients : client[c] \in ClientState
      /\ sessions \in [Sids -> SessionRow \cup {None}] /\ uploads \in [Uids -> UploadRow \cup {None}]
      /\ \A s \in Live : s \in Sids /\ sessions[s] # None
    BY <1>a, Records DEF TypeOK, Live
<1> DEFINE Steady == \A d \in Clients : Fresh(d)' => Fresh(d) /\ FileOf(d)' = FileOf(d)
           SameTables == UNCHANGED <<sessions, uploads, overbooked>>
\* Who no longer asks is no concern of the quota.
<1>c. ASSUME NEW c \in Clients, \A d \in Clients : d # c => client'[d] = client[d],
             client'[c].pc \in {"idle", "single", "part", "waiting"}
      PROVE  Steady
  <2>1. ~Fresh(c)'
      BY <1>c DEF Fresh, Asking, At
  <2>2. \A d \in Clients : d # c => (Fresh(d)' <=> Fresh(d)) /\ FileOf(d)' = FileOf(d)
      BY <1>c DEF Fresh, Asking, At, FileOf
  <2> QED
      BY <2>1, <2>2
<1>d. ASSUME NEW c \in Clients, Fails(c) PROVE Steady
  <2>1. client'[c].pc = "idle" /\ \A d \in Clients : d # c => client'[d] = client[d]
      BY <1>b, <1>d DEF Fails, Resting
  <2> HIDE DEF Steady
  <2> QED
      BY <2>1, <1>c
<1>e. ASSUME SameTables, Steady PROVE WithinQuota'
  <2>1. Charged' = Charged
      BY <1>e DEF Charged, BytesOf, Promised, UploadsIn, Live
  <2>2. Charged \in Nat
    <3>1. \A m, n \in Nat : m + n \in Nat
        OBVIOUS
    <3> QED
        BY <1>a, <3>1, Zenon DEF Counts
  <2>3. Charged' <= Charged
    <3>1. \A n \in Nat : n <= n
        OBVIOUS
    <3> QED
        BY <2>1, <2>2, <3>1, Zenon
  <2> QED
      BY <2>1, <2>2, <2>3, <1>e, StillWithin
<1>f. ASSUME Steady, overbooked' = overbooked,
             \A s \in Sids : sessions[s] = None => sessions'[s] = None,
             \A u \in Uids : uploads[u] = None => uploads'[u] = None \/ sessions' # sessions,
             \A u \in UploadsIn({"failed"}) : uploads'[u] = uploads[u]
      PROVE  WithinQuota'
    BY <1>a, <1>f, NothingAdmitted, StillWithin
\* Only one session, and it is there already, may be another afterwards.
<1>g. ASSUME Steady, overbooked' = overbooked, uploads' = uploads,
             \E s \in Sids : sessions[s] # None /\ \A t \in Sids : t # s => sessions'[t] = sessions[t]
      PROVE  WithinQuota'
  <2> HIDE DEF Steady
  <2> QED
      BY <1>b, <1>f, <1>g DEF UploadsIn
<1>h. ASSUME UNCHANGED client PROVE Steady
    BY <1>h DEF Fresh, Asking, At, FileOf
<1>1. ASSUME NEW c \in Clients, NEW f \in Files, Begin(c, f) PROVE WithinQuota'
  <2>1. CASE Fails(c)
      BY <1>1, <1>d, <1>e, <2>1 DEF Begin, Rows, History
  <2>2. CASE ~Fails(c)
    <3>1. PICK pc \in {"single", "finding"} :
            client' = [client EXCEPT ![c] = [[Resting EXCEPT !.file = f] EXCEPT !.pc = pc]]
        BY <1>1, <2>2, Modes DEF Begin
    <3>2. client'[c].file = f /\ \A d \in Clients : d # c => client'[d] = client[d]
        BY <3>1, <1>b DEF Resting
    <3>3. Fits(Size[f]) /\ SameTables
        BY <1>1, <2>2 DEF Begin, Rows, History
    <3> QED
        BY <1>a, <3>2, <3>3, LetThrough
  <2> QED
      BY <2>1, <2>2
<1>2. ASSUME NEW c \in Clients, PutSingle(c) PROVE WithinQuota'
  <2>1. CASE Fails(c)
      BY <1>2, <1>d, <1>e, <2>1 DEF PutSingle, Rows, History
  <2>2. CASE ~Fails(c)
    <3>1. /\ client' = [client EXCEPT ![c] = [client[c] EXCEPT !.pc = "streaming", !.overtaken = FALSE]]
          /\ Fits(SizeOf(c)) /\ At(c, "single")
        BY <1>2, <1>b, <2>2 DEF PutSingle
    <3>2. client'[c].file = FileOf(c) /\ \A d \in Clients : d # c => client'[d] = client[d]
        BY <3>1, <1>b DEF ClientState, FileOf
    <3>3. FileOf(c) \in Files /\ SizeOf(c) = Size[FileOf(c)] /\ SameTables
        BY <1>2, <1>a, <3>1 DEF PutSingle, Rows, History, ClientsOK, ClientOK, At, FileOf, SizeOf
    <3> QED
        BY <1>a, <3>1, <3>2, <3>3, LetThrough
  <2> QED
      BY <2>1, <2>2
<1>3. ASSUME NEW c \in Clients, SingleBreaks(c) \/ Stop(c) \/ PartRefused(c) PROVE WithinQuota'
  <2>1. Fails(c) /\ SameTables
      BY <1>3 DEF SingleBreaks, Stop, PartRefused, Rows, History
  <2> QED
      BY <1>d, <1>e, <2>1
<1>4. ASSUME NEW c \in Clients, FindOpen(c) PROVE WithinQuota'
  <2>1. Steady
    <3>1. CASE ~Fails(c)
      <4>1. /\ At(c, "finding")
            /\ \E found : client' = [client EXCEPT ![c] = [client[c] EXCEPT !.pc = "creating", !.found = found]]
        <5>1. /\ At(c, "finding")
              /\ \/ client' = [client EXCEPT ![c].pc = "creating", ![c].found = OpenOf(Name[FileOf(c)])]
                 \/ client' = [client EXCEPT ![c].pc = "creating", ![c].found = {}]
            BY <1>4, <3>1 DEF FindOpen
        <5> QED
            BY <5>1, <1>b
      <4>2. PICK found : client' = [client EXCEPT ![c] = [client[c] EXCEPT !.pc = "creating", !.found = found]]
          BY <4>1
      <4>3. /\ client'[c].file = client[c].file /\ client'[c].overtaken = client[c].overtaken
            /\ \A d \in Clients : d # c => client'[d] = client[d]
          BY <4>2, <1>b DEF ClientState
      <4>4. Fresh(c)' => Fresh(c) /\ FileOf(c)' = FileOf(c)
          BY <4>1, <4>3 DEF Fresh, Asking, FileOf
      <4>5. \A d \in Clients : d # c => (Fresh(d)' <=> Fresh(d)) /\ FileOf(d)' = FileOf(d)
          BY <4>3 DEF Fresh, Asking, At, FileOf
      <4> QED
          BY <4>4, <4>5
    <3> HIDE DEF Steady
    <3> QED
        BY <1>d, <3>1
  <2>2. uploads' = uploads /\ overbooked' = overbooked
      BY <1>4 DEF FindOpen, History
  <2> HIDE DEF Steady
  <2>3. CASE sessions' = sessions
      BY <1>e, <2>1, <2>2, <2>3
  <2>4. CASE sessions' # sessions
    <3>1. PICK s \in OpenOf(Name[FileOf(c)]) :
            sessions' = [sessions EXCEPT ![s].status = "CANCELLED", ![s].got = [n \in Numbers |-> None]]
        BY <1>4, <2>4 DEF FindOpen
    <3>2. s \in Sids /\ sessions[s] # None /\ \A t \in Sids : t # s => sessions'[t] = sessions[t]
        BY <1>b, <3>1 DEF OpenOf
    <3> QED
        BY <1>g, <2>1, <2>2, <3>2
  <2> QED
      BY <2>3, <2>4
<1>5. ASSUME NEW c \in Clients, NEW b \in BOOLEAN, CreateDirect(c, b) PROVE WithinQuota'
  <2> DEFINE told == [client EXCEPT ![c].pc = "waiting", ![c].upload = NewUpload]
             lost == [client EXCEPT ![c] = Resting]
  <2>1. Asking(c) /\ NewUpload \in Uids /\ Admit(c, SizeOf(c))
      BY <1>5, FreeId DEF CreateDirect, Asking
  <2>2. told \in [Clients -> ClientState] /\ lost \in [Clients -> ClientState]
    <3>1. [client[c] EXCEPT !.pc = "waiting", !.upload = NewUpload] \in ClientState
        BY <2>1, <1>b DEF ClientState
    <3> QED
        BY <3>1, <1>b, RestingType
  <2>3. client' = Overtaking(told, c) \/ client' = Overtaking(lost, c)
      BY <1>5 DEF CreateDirect
  <2>4. told[c].pc = "waiting" /\ lost[c].pc = "idle"
      BY <1>b DEF ClientState, Resting
  <2> HIDE DEF told, lost
  <2> QED
      BY <2>1, <2>2, <2>3, <2>4, Admission
<1>6. ASSUME NEW c \in Clients, NEW b \in BOOLEAN, FindOrCreate(c, b) PROVE WithinQuota'
  <2>p. PICK s \in Sids : s = Given(c)
      BY <1>6, GivenType DEF FindOrCreate, TheOpen
  <2> DEFINE have == IF TheOpen(c) # {} THEN ReadyNumbers(s) ELSE {}
             given == [client EXCEPT ![c].pc = "part", ![c].sid = s, ![c].have = have]
             lost == [client EXCEPT ![c] = Resting]
             next == IF b THEN given ELSE lost
  <2>1. Asking(c)
      BY <1>6 DEF FindOrCreate, Asking
  <2>2. given \in [Clients -> ClientState] /\ lost \in [Clients -> ClientState]
    <3>1. have \in SUBSET Numbers
        BY DEF ReadyNumbers
    <3>2. [client[c] EXCEPT !.pc = "part", !.sid = s, !.have = have] \in ClientState
        BY <3>1, <1>b DEF ClientState
    <3> QED
        BY <3>2, <1>b, RestingType
  <2>3. /\ TheOpen(c) = {} => client' = Overtaking(next, c) /\ Admit(c, SizeOf(c))
        /\ TheOpen(c) # {} => client' = next /\ SameTables
      BY <1>6, <2>p, FindOrCreateIs
  <2>4. /\ given[c].pc = "part" /\ lost[c].pc = "idle"
        /\ \A d \in Clients : d # c => given[d] = client[d] /\ lost[d] = client[d]
      BY <1>b DEF ClientState, Resting
  <2> HIDE DEF given, lost, have
  <2>5. next \in [Clients -> ClientState] /\ next[c].pc \in {"part", "idle"}
        /\ \A d \in Clients : d # c => next[d] = client[d]
      BY <2>2, <2>4
  <2> HIDE DEF next
  <2>6. CASE TheOpen(c) = {}
      BY <2>1, <2>3, <2>5, <2>6, Admission
  <2>7. CASE TheOpen(c) # {}
    <3>1. Steady
      <4> HIDE DEF Steady
      <4> QED
          BY <1>c, <2>3, <2>5, <2>7
    <3> HIDE DEF Steady, SameTables
    <3> QED
        BY <1>e, <2>3, <2>7, <3>1
  <2> QED
      BY <2>6, <2>7
<1>7. ASSUME NEW c \in Clients, NEW b \in BOOLEAN, Complete(c, b) PROVE WithinQuota'
  <2>1. Steady
    <3>1. CASE Step(c, "waiting")
      <4>1. client'[c].pc = "waiting" /\ \A d \in Clients : d # c => client'[d] = client[d]
          BY <1>b, <3>1 DEF Step, ClientState
      <4> HIDE DEF Steady
      <4> QED
          BY <1>c, <4>1
    <3>2. CASE EndsWell(c, "queued")
      <4>1. client'[c].pc = "idle" /\ \A d \in Clients : d # c => client'[d] = client[d]
          BY <1>b, <3>2 DEF EndsWell, Resting
      <4> HIDE DEF Steady
      <4> QED
          BY <1>c, <4>1
    <3> HIDE DEF Steady
    <3> QED
        BY <1>7, <1>d, <3>1, <3>2 DEF Complete
  <2>2. uploads' = uploads /\ overbooked' = overbooked
      BY <1>7 DEF Complete, History
  <2>3. client[c].sid \in Sids /\ sessions[client[c].sid] # None
      BY <1>7, <1>a DEF Complete, ClientsOK, ClientOK, Fills
  <2>4. \A t \in Sids : t # client[c].sid => sessions'[t] = sessions[t]
      BY <1>7, <1>b DEF Complete
  <2> HIDE DEF Steady
  <2> QED
      BY <1>g, <2>1, <2>2, <2>3, <2>4
<1>8. ASSUME NEW c \in Clients, SkipPart(c) \/ PutPart(c) PROVE WithinQuota'
  <2>1. Steady
    <3>1. client' = NextNumber(c) /\ At(c, "part")
        BY <1>8 DEF SkipPart, PutPart, Sending
    <3>2. client'[c].pc = "part" /\ \A d \in Clients : d # c => client'[d] = client[d]
        BY <1>b, <3>1 DEF NextNumber, ClientState, At
    <3> HIDE DEF Steady
    <3> QED
        BY <1>c, <3>2
  <2>2. uploads' = uploads /\ overbooked' = overbooked
      BY <1>8 DEF SkipPart, PutPart, History, Rows
  <2>3. client[c].sid \in Sids /\ sessions[client[c].sid] # None
      BY <1>8, <1>a DEF SkipPart, PutPart, Sending, ClientsOK, ClientOK, Fills
  <2>4. \A t \in Sids : t # client[c].sid => sessions'[t] = sessions[t]
      BY <1>8, <1>b DEF SkipPart, PutPart, Rows
  <2> HIDE DEF Steady
  <2> QED
      BY <1>g, <2>1, <2>2, <2>3, <2>4
<1>9. ASSUME NEW c \in Clients, PartBreaks(c) PROVE WithinQuota'
  <2>1. Steady
    <3>1. CASE ~Fails(c)
      <4>1. At(c, "part") /\ client' = [client EXCEPT ![c].attempt = @ + 1]
          BY <1>9, <3>1 DEF PartBreaks, Sending
      <4>2. client'[c].pc = "part" /\ \A d \in Clients : d # c => client'[d] = client[d]
          BY <1>b, <4>1 DEF ClientState, At
      <4> HIDE DEF Steady
      <4> QED
          BY <1>c, <4>2
    <3> HIDE DEF Steady
    <3> QED
        BY <1>d, <3>1
  <2>2. SameTables
      BY <1>9 DEF PartBreaks, History
  <2> HIDE DEF Steady, SameTables
  <2> QED
      BY <1>e, <2>1, <2>2
<1>10. ASSUME NEW c \in Clients, Waits(c) PROVE WithinQuota'
  <2>1. Steady
    <3>1. CASE EndsWell(c, "done")
      <4>1. client'[c].pc = "idle" /\ \A d \in Clients : d # c => client'[d] = client[d]
          BY <1>b, <3>1 DEF EndsWell, Resting
      <4> HIDE DEF Steady
      <4> QED
          BY <1>c, <4>1
    <3> HIDE DEF Steady
    <3> QED
        BY <1>10, <1>d, <3>1 DEF Waits
  <2>2. SameTables
      BY <1>10 DEF Waits, Rows, History
  <2> HIDE DEF Steady, SameTables
  <2> QED
      BY <1>e, <2>1, <2>2
<1>11. ASSUME NEW l \in late, NEW b \in BOOLEAN, LatePart(l, b) PROVE WithinQuota'
  <2>1. Steady /\ uploads' = uploads /\ overbooked' = overbooked
      BY <1>11, <1>h DEF LatePart, History
  <2>2. l[1] \in Sids /\ sessions[l[1]] # None
      BY <1>a DEF TypeOK, IInv, LateOK
  <2>3. \A t \in Sids : t # l[1] => sessions'[t] = sessions[t]
      BY <1>11, <1>b DEF LatePart
  <2> HIDE DEF Steady
  <2> QED
      BY <1>g, <2>1, <2>2, <2>3
<1>12. ASSUME NEW s \in Sids, Claim(s) \/ Close(s) PROVE WithinQuota'
  <2>1. Steady /\ uploads' = uploads /\ overbooked' = overbooked
      BY <1>12, <1>h DEF Claim, Close, History
  <2>2. sessions[s] # None
      BY <1>12, <1>b DEF Claim, Close
  <2>3. \A t \in Sids : t # s => sessions'[t] = sessions[t]
      BY <1>12, <1>b DEF Claim, Close
  <2> HIDE DEF Steady
  <2> QED
      BY <1>g, <2>1, <2>2, <2>3
<1>13. ASSUME NEW s \in Sids, HandOff(s) PROVE WithinQuota'
  <2>1. Steady /\ overbooked' = overbooked
      BY <1>13, <1>h DEF HandOff, History
  <2>2. /\ s \in Live /\ sessions[s].status = "ASSEMBLING" /\ sessions[s] \in SessionRow
        /\ FreeUpload # {}
        /\ sessions' = [sessions EXCEPT ![s] =
             [sessions[s] EXCEPT !.status = "COMPLETED", !.upload = NewUpload]]
        /\ \A u \in Uids : u # NewUpload => uploads'[u] = uploads[u]
      BY <1>13, <1>b DEF HandOff
  <2>3. sessions'[s].status = "COMPLETED" /\ \A t \in Sids : t # s => sessions'[t] = sessions[t]
      BY <1>b, <2>2 DEF SessionRow
  <2>4. sessions' # sessions
      BY <2>2, <2>3
  <2>5. \A u \in UploadsIn({"failed"}) : uploads'[u] = uploads[u]
      BY <2>2, FreeId DEF UploadsIn
  <2>6. \A t \in Sids : sessions[t] = None => sessions'[t] = None
      BY <1>b, <2>2, <2>3
  <2> HIDE DEF Steady
  <2> QED
      BY <1>f, <2>1, <2>4, <2>5, <2>6
<1>14. ASSUME NEW u \in Uids, Reserve(u) \/ Filed(u) \/ Broken(u) PROVE WithinQuota'
  <2>1. Steady /\ overbooked' = overbooked /\ sessions' = sessions
      BY <1>14, <1>h DEF Reserve, Filed, Broken, UploadStatus, History
  <2>2. /\ uploads[u] # None /\ uploads[u].status \in {"active", "filing"}
        /\ \A v \in Uids : v # u => uploads'[v] = uploads[v]
      BY <1>14, <1>b DEF Reserve, Filed, Broken, UploadStatus, UploadsIn
  <2> HIDE DEF Steady
  <2> QED
      BY <1>f, <2>1, <2>2 DEF UploadsIn
<1>15. ASSUME NEW u \in Uids, RetryUpload(u) PROVE WithinQuota'
  <2>1. \A d \in Clients : client'[d].overtaken = TRUE
    <3> SUFFICES ASSUME NEW d \in Clients PROVE client'[d].overtaken = TRUE
        OBVIOUS
    <3>1. client[d] \in ClientState /\ client'[d] = [client[d] EXCEPT !.overtaken = TRUE]
        BY <1>15, <1>b DEF RetryUpload
    <3> QED
        BY <3>1 DEF ClientState
  <2>2. overbooked' = overbooked
      BY <1>15 DEF RetryUpload, UploadStatus, History
  <2> QED
      BY <1>a, <2>1, <2>2 DEF WithinQuota, Fresh
<1>16. CASE UNCHANGED vars
  <2>1. Steady /\ SameTables
      BY <1>16, <1>h DEF vars
  <2> HIDE DEF Steady, SameTables
  <2> QED
      BY <1>e, <2>1
<1> QED
    BY <1>1, <1>2, <1>3, <1>4, <1>5, <1>6, <1>7, <1>8, <1>9, <1>10, <1>11, <1>12, <1>13, <1>14,
       <1>15, <1>16 DEF Next

-----------------------------------------------------------------------------
(* The theorems *)

LEMMA InitIInv == Init => IInv
<1> SUFFICES ASSUME Init PROVE IInv
    OBVIOUS
<1>1. TypeOK
  <2>1. client \in [Clients -> ClientState]
      BY RestingType DEF Init
  <2>2. runs \in 0..MaxRuns /\ losses \in 0..MaxLosses
      BY UploaderAssumption DEF Init
  <2> QED
      BY <2>1, <2>2 DEF Init, TypeOK
<1>2. SessionsOK /\ LateOK
    BY DEF Init, SessionsOK, LateOK
<1>3. ClientsOK
    BY DEF Init, ClientsOK, ClientOK, At, Resting
<1>4. WithinQuota
    BY DEF Init, WithinQuota, Fresh, Asking, At, Resting
<1> QED
    BY <1>1, <1>2, <1>3, <1>4 DEF IInv

THEOREM Invariance == Spec => []IInv
<1>1. IInv /\ [Next]_vars => IInv'
    BY NextTypeOK, NextSessionsOK, NextLateOK, NextClientsOK, NextWithinQuota DEF IInv
<1> QED
    BY InitIInv, <1>1, PTL DEF Spec

\* Every row and every client is of its type.
THEOREM TypeCorrect == Spec => []TypeOK
<1>1. IInv => TypeOK
    BY DEF IInv
<1> QED
    BY <1>1, Invariance, PTL

\* When the uploader reports a file done, all of that file and nothing else was filed, unless the
\* session was entered by two begins at once or for another file of the same name and size
\* (begin and complete of src/api/upload.ts, waitForOutcome of jellygram-upload.mjs).
THEOREM ReportsItsOwn == Spec => []DoneIsMine
<1>1. IInv => DoneIsMine
  <2> SUFFICES ASSUME IInv, NEW c \in Clients, outcome[c] = "done", Clean(client[c].sid)
               PROVE  \E u \in Uids : /\ uploads[u] # None /\ uploads[u].of = {client[c].file}
                                      /\ \/ u = client[c].upload
                                         \/ client[c].sid # None /\ u = sessions[client[c].sid].upload
      BY DEF DoneIsMine, Clean
  <2>1. ClientOK(c) /\ SessionsOK /\ TypeOK
      BY DEF IInv, ClientsOK
  <2>2. CASE client[c].upload # None
      BY <2>1, <2>2 DEF ClientOK, Sent, FileOf
  <2>3. CASE client[c].upload = None
    <3>1. PICK s \in Sids : s = client[c].sid /\ sessions[s] # None /\ sessions[s].upload # None
                            /\ creator[s] = client[c].file /\ Clean(s)
        BY <2>1, <2>3 DEF ClientOK, Fills, FileOf
    <3>2. sessions[s].upload \in Uids
        BY <2>1, <3>1, Records DEF SessionRow
    <3>3. uploads[sessions[s].upload] # None /\ uploads[sessions[s].upload].of = {creator[s]}
        BY <2>1, <3>1 DEF SessionsOK, SessionOK
    <3>4. s # None
        BY UploaderAssumption DEF Sids
    <3> QED
        BY <3>1, <3>2, <3>3, <3>4
  <2> QED
      BY <2>2, <2>3
<1> QED
    BY <1>1, Invariance, PTL

\* A file is admitted beyond the quota only if something else was charged between the check and
\* the row (checkQuota of src/services/quota.ts, begin and single of src/api/upload.ts).
THEOREM NoneBeyondItsCheck == Spec => []AdmittedWithinQuota
<1>1. IInv => AdmittedWithinQuota
    BY DEF IInv, WithinQuota, AdmittedWithinQuota
<1> QED
    BY <1>1, Invariance, PTL

=============================================================================
