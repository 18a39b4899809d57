------------------------------ MODULE Uploader ------------------------------
(***************************************************************************)
(* Sending a file to the direct upload API: the command-line uploader      *)
(* (uploader/jellygram-upload.mjs) and the Mini App's own sender           *)
(* (public/miniapp/js/api.js), against POST /begin, PUT /single, PUT /part *)
(* and POST /complete (src/api/upload.ts), the plan they follow and the    *)
(* quota they are charged to (src/services/quota.ts).                      *)
(*                                                                         *)
(* All clients act for one user.  An answer may be lost with the work      *)
(* done, a request the client has given up may still run to its end, a     *)
(* client may be stopped and run again, and other clients' requests fall   *)
(* between any two statements of a handler.                                *)
(*                                                                         *)
(* Abstractions: sizes are small numbers; the rows of one session, its     *)
(* assembly and its hand-off are MultipartSession's subject and a step     *)
(* each here; so is a part that changes once it was found complete; what   *)
(* becomes of an upload is UploadLifecycle's and Filing's.                 *)
(***************************************************************************)
EXTENDS Naturals, FiniteSets

CONSTANTS
    Clients,         \* people at an uploader or at the Mini App
    Retrying,        \* those whose client sends a part again: the command-line uploader
    Files,           \* files on their machines
    Size, Name,      \* of a file; a safe name is one session's key
    PartSize, SingleMax, AssembledMax, MaxParts,   \* config.upload and config.multipart
    MaxPartAttempts, \* MAX_PART_ATTEMPTS
    Quota,           \* the user's quota_bytes
    MaxRuns, MaxSessions, MaxUploads, MaxLosses,   \* bounds
    None

Numbers == 1..MaxParts
Sids == 1..MaxSessions
Uids == 1..MaxUploads
OpenStatuses == {"COLLECTING", "READY", "ASSEMBLING"}

ClientState ==
    [pc : {"idle", "single", "streaming", "finding", "creating", "part", "waiting"},
     file : Files \cup {None}, sid : Sids \cup {None}, upload : Uids \cup {None},
     found : SUBSET Sids, have : SUBSET Numbers,
     n : Nat \ {0}, attempt : 1..MaxPartAttempts, overtaken : BOOLEAN]
SessionRow ==
    [name : {Name[f] : f \in Files}, bytes : Nat, parts : Numbers,
     status : OpenStatuses \cup {"COMPLETED", "CANCELLED", "FAILED"},
     got : [Numbers -> Files \cup {None}], upload : Uids \cup {None}]
UploadRow ==
    [bytes : Nat, of : SUBSET (Files \cup {None}),
     status : {"active", "filing", "filed", "failed"}]

ASSUME UploaderAssumption ==
    /\ Retrying \subseteq Clients
    /\ Size \in [Files -> Nat]
    /\ {PartSize, MaxPartAttempts} \subseteq Nat \ {0}
    /\ {SingleMax, AssembledMax, MaxParts, Quota, MaxRuns, MaxSessions, MaxUploads, MaxLosses}
        \subseteq Nat
    /\ None \notin Files \cup Nat \cup SessionRow \cup UploadRow

VARIABLES
    client,    \* a client: [pc, file, sid, upload, found, have, n, attempt, overtaken]
    outcome,   \* how its last run ended
    sessions,  \* upload_sessions: [name, bytes, parts, status, got, upload], or None
    uploads,   \* uploads: [bytes, of, status], or None
    late,      \* part requests whose client no longer waits: <<sid, number, file>>
    runs, losses,
    creator,   \* history: the file a session was opened for
    raced,     \* history: sessions joined by a request that had looked and found none
    twins,     \* history: sessions joined for another file of the same size
    overbooked \* history: something was admitted beyond a quota nobody had touched since the check

vars == <<client, outcome, sessions, uploads, late, runs, losses, creator, raced, twins, overbooked>>

Resting == [pc |-> "idle", file |-> None, sid |-> None, upload |-> None, found |-> {}, have |-> {},
            n |-> 1, attempt |-> 1, overtaken |-> FALSE]

Init ==
    /\ client = [c \in Clients |-> Resting]
    /\ outcome = [c \in Clients |-> "none"]
    /\ sessions = [s \in Sids |-> None]
    /\ uploads = [u \in Uids |-> None]
    /\ late = {}
    /\ runs = 0 /\ losses = 0
    /\ creator = [s \in Sids |-> None]
    /\ raced = {} /\ twins = {} /\ overbooked = FALSE

(***************************************************************************)
(* planUpload.                                                             *)
(***************************************************************************)
PartCount(size) == (size + PartSize - 1) \div PartSize
Mode(size) ==
    CASE size = 0 \/ size > AssembledMax -> "reject"
      [] size \in 1..AssembledMax /\ size <= SingleMax -> "single"
      [] size \in 1..AssembledMax /\ size > SingleMax /\ PartCount(size) > MaxParts -> "reject"
      [] OTHER -> "multipart"

(***************************************************************************)
(* checkQuota.                                                             *)
(***************************************************************************)
Live == {s \in Sids : sessions[s] # None /\ sessions[s].status \in OpenStatuses}
UploadsIn(S) == {u \in Uids : uploads[u] # None /\ uploads[u].status \in S}

(* A sum of sizes is the number of their bytes. *)
BytesOf(us) == Cardinality(UNION {{u} \X (1..uploads[u].bytes) : u \in us})
Promised(ss) == Cardinality(UNION {{s} \X (1..sessions[s].bytes) : s \in ss})

(* media rows, uploads that are not terminal, sessions that are no upload yet; a file *)
(* being moved into the library is both of the first two.                             *)
Used == BytesOf(UploadsIn({"filing", "filed"}))

(* Faulty: a session is not charged before it is handed off. *)
ReservedUploads == BytesOf(UploadsIn({"active", "filing"}))

Reserved == BytesOf(UploadsIn({"active", "filing"})) + Promised(Live)

(* What is there or promised, each thing once. *)
Charged == BytesOf(UploadsIn({"active", "filing", "filed"})) + Promised(Live)

Fits(size) == Used + Reserved + size <= Quota

-----------------------------------------------------------------------------
At(c, pc) == client[c].pc = pc
FileOf(c) == client[c].file
SizeOf(c) == Size[client[c].file]

Step(c, pc) == client' = [client EXCEPT ![c].pc = pc] /\ UNCHANGED outcome
EndsWell(c, how) ==
    /\ client' = [client EXCEPT ![c] = [Resting EXCEPT !.file = FileOf(c),
                        !.sid = client[c].sid, !.upload = client[c].upload]]
    /\ outcome' = [outcome EXCEPT ![c] = how]
Fails(c) ==
    /\ client' = [client EXCEPT ![c] = Resting]
    /\ outcome' = [outcome EXCEPT ![c] = "failed"]

(* Whatever is charged while c has its answer to come makes the others' checks old. *)
Overtaking(cs, c) == [d \in Clients |-> IF d = c THEN cs[d] ELSE [cs[d] EXCEPT !.overtaken = TRUE]]

Loss == losses < MaxLosses /\ losses' = losses + 1
Rows == <<sessions, uploads, late>>
History == <<creator, raced, twins, overbooked>>

(* A person starts the uploader on a file: the plan, then the quota. *)
Begin(c, f) ==
    /\ At(c, "idle") /\ runs < MaxRuns
    /\ runs' = runs + 1
    /\ LET started == [Resting EXCEPT !.file = f]
           go(pc) == [client EXCEPT ![c] = [started EXCEPT !.pc = pc]]
       IN  IF Mode(Size[f]) = "reject" \/ ~Fits(Size[f])
           THEN Fails(c)
           ELSE /\ client' = go(IF Mode(Size[f]) = "single" THEN "single" ELSE "finding")
                /\ outcome' = [outcome EXCEPT ![c] = "none"]
    /\ UNCHANGED <<Rows, losses, History>>

(***************************************************************************)
(* A file that goes whole: the quota again, the stream, then the row.      *)
(***************************************************************************)
PutSingle(c) ==
    /\ At(c, "single")
    /\ IF Fits(SizeOf(c))
       THEN client' = [client EXCEPT ![c].pc = "streaming", ![c].overtaken = FALSE]
            /\ UNCHANGED outcome
       ELSE Fails(c)
    /\ UNCHANGED <<Rows, runs, losses, History>>

Admit(c, bytes) ==
    overbooked' = (overbooked \/ (~client[c].overtaken /\ Charged + bytes > Quota))

FreeUpload == {u \in Uids : uploads[u] = None}
FreeSession == {s \in Sids : sessions[s] = None}
NewUpload == CHOOSE u \in Uids : u \in FreeUpload

CreateDirect(c, answered) ==
    /\ At(c, "streaming")
    /\ FreeUpload # {}
    /\ LET u == NewUpload
           told == [client EXCEPT ![c].pc = "waiting", ![c].upload = u]
       IN  /\ uploads' = [uploads EXCEPT ![u] =
                    [bytes |-> SizeOf(c), of |-> {FileOf(c)}, status |-> "active"]]
           /\ IF answered THEN client' = Overtaking(told, c) /\ UNCHANGED <<outcome, losses>>
              ELSE /\ Loss
                   /\ client' = Overtaking([client EXCEPT ![c] = Resting], c)
                   /\ outcome' = [outcome EXCEPT ![c] = "failed"]
    /\ Admit(c, SizeOf(c))
    /\ UNCHANGED <<sessions, late, runs, creator, raced, twins>>

SingleBreaks(c) ==
    /\ At(c, "streaming") /\ Loss
    /\ Fails(c)
    /\ UNCHANGED <<Rows, runs, History>>

(***************************************************************************)
(* A file that goes in parts: an open session of its name is joined if it  *)
(* declared the same size, replaced if nothing is assembled from it yet.   *)
(***************************************************************************)
OpenOf(name) == {s \in Live : sessions[s].name = name}

SameFile(s, c) == sessions[s].bytes = SizeOf(c) /\ sessions[s].parts = PartCount(SizeOf(c))

(* Faulty: any session of the name is taken for the same file. *)
AnyFile(s, c) == sessions[s].parts > 0

Joins(s, c) == SameFile(s, c)

FindOpen(c) ==
    LET open == OpenOf(Name[FileOf(c)])
        others == {s \in open : ~Joins(s, c)}
    IN  /\ At(c, "finding")
        /\ \/ /\ others = {}
              /\ client' = [client EXCEPT ![c].pc = "creating", ![c].found = open]
              /\ UNCHANGED <<sessions, outcome>>
           \/ \E s \in others :
                IF sessions[s].status = "ASSEMBLING"
                THEN Fails(c) /\ UNCHANGED sessions
                ELSE /\ sessions' = [sessions EXCEPT ![s].status = "CANCELLED",
                                                     ![s].got = [n \in Numbers |-> None]]
                     /\ client' = [client EXCEPT ![c].pc = "creating", ![c].found = {}]
                     /\ UNCHANGED outcome
        /\ UNCHANGED <<uploads, late, runs, losses, History>>

ReadyNumbers(s) == {n \in Numbers : sessions[s].got[n] # None}

(* findOrCreate takes whatever session of the name is open by then. *)
FindOrCreate(c, answered) ==
    LET open == OpenOf(Name[FileOf(c)])
        s == CHOOSE t \in Sids : t \in IF open # {} THEN open ELSE FreeSession
        given == [client EXCEPT ![c].pc = "part", ![c].sid = s,
                        ![c].have = IF open # {} THEN ReadyNumbers(s) ELSE {}]
        failed == [client EXCEPT ![c] = Resting]
        next == IF answered THEN given ELSE failed
    IN  /\ At(c, "creating")
        /\ open # {} \/ FreeSession # {}
        /\ IF open = {}
           THEN /\ sessions' = [sessions EXCEPT ![s] =
                        [name |-> Name[FileOf(c)], bytes |-> SizeOf(c),
                         parts |-> PartCount(SizeOf(c)), status |-> "COLLECTING",
                         got |-> [n \in Numbers |-> None], upload |-> None]]
                /\ creator' = [creator EXCEPT ![s] = FileOf(c)]
                /\ Admit(c, SizeOf(c))
                /\ client' = Overtaking(next, c)
                /\ UNCHANGED <<raced, twins>>
           ELSE /\ client' = next
                /\ raced' = IF s \in client[c].found THEN raced ELSE raced \cup {s}
                /\ twins' = IF creator[s] # FileOf(c) /\ SameFile(s, c) THEN twins \cup {s} ELSE twins
                /\ UNCHANGED <<sessions, creator, overbooked>>
        /\ IF answered THEN UNCHANGED <<outcome, losses>>
           ELSE Loss /\ outcome' = [outcome EXCEPT ![c] = "failed"]
        /\ UNCHANGED <<uploads, late, runs>>

(***************************************************************************)
(* The loop over the parts.  The client steps over what the server had     *)
(* when it began.                                                          *)
(***************************************************************************)
(* The client's own plan: the server's for a file of this size. *)
Last(c) == PartCount(SizeOf(c))
NextNumber(c) == [client EXCEPT ![c].n = @ + 1, ![c].attempt = 1]

SkipPart(c) ==
    /\ At(c, "part") /\ client[c].n <= Last(c)
    /\ client[c].n \in client[c].have
    /\ client' = NextNumber(c)
    /\ UNCHANGED <<outcome, Rows, runs, losses, History>>

Sending(c) == At(c, "part") /\ client[c].n <= Last(c) /\ client[c].n \notin client[c].have

(* The session is gone, no longer collects, or declared fewer parts. *)
PartRefused(c) ==
    LET s == sessions[client[c].sid] IN
    /\ Sending(c)
    /\ s.status # "COLLECTING" \/ client[c].n > s.parts
    /\ Fails(c)
    /\ UNCHANGED <<Rows, runs, losses, History>>

Accepting(s, n) == sessions[s].status = "COLLECTING" /\ n <= sessions[s].parts

(* A part that is there already is left as it is. *)
PutPart(c) ==
    LET s == client[c].sid
        n == client[c].n
    IN  /\ Sending(c)
        /\ Accepting(s, n)
        /\ sessions' = IF sessions[s].got[n] # None THEN sessions
                       ELSE [sessions EXCEPT ![s].got[n] = FileOf(c)]
        /\ client' = NextNumber(c)
        /\ UNCHANGED <<outcome, uploads, late, runs, losses, History>>

(* The connection drops or the server answers 500: the request may go on without its  *)
(* client, which tries again if it is one that does and has attempts left.             *)
PartBreaks(c) ==
    LET q == client[c] IN
    /\ Sending(c) /\ Loss
    /\ \/ UNCHANGED late
       \/ /\ Accepting(q.sid, q.n) /\ sessions[q.sid].got[q.n] = None
          /\ late' = late \cup {<<q.sid, q.n, q.file>>}
    /\ IF c \in Retrying /\ q.attempt < MaxPartAttempts
       THEN client' = [client EXCEPT ![c].attempt = @ + 1] /\ UNCHANGED outcome
       ELSE Fails(c)
    /\ UNCHANGED <<sessions, uploads, runs, History>>

(* It stores its part after all, over whatever came meanwhile; or it fails, and the    *)
(* part counts as failed, also if another request has stored it.                       *)
LatePart(l, stored) ==
    LET s == l[1] IN
    /\ l \in late
    /\ late' = late \ {l}
    /\ IF sessions[s].status = "COLLECTING"
       THEN sessions' = [sessions EXCEPT ![s].got[l[2]] = IF stored THEN l[3] ELSE None]
       ELSE UNCHANGED sessions
    /\ UNCHANGED <<client, outcome, uploads, runs, losses, History>>

NoneMissing(s) == ReadyNumbers(s) = 1..sessions[s].parts

Complete(c, answered) ==
    LET s == client[c].sid
        collecting == sessions[s].status = "COLLECTING"
    IN  /\ At(c, "part") /\ client[c].n > Last(c)
        /\ sessions' = IF collecting /\ NoneMissing(s)
                       THEN [sessions EXCEPT ![s].status = "READY"] ELSE sessions
        /\ IF ~answered THEN Loss /\ Fails(c)
           ELSE /\ UNCHANGED losses
                /\ IF collecting /\ ~NoneMissing(s) THEN Fails(c)
                   ELSE IF c \in Retrying THEN Step(c, "waiting") ELSE EndsWell(c, "queued")
        /\ UNCHANGED <<uploads, late, runs, History>>

(* waitForOutcome: the upload's status, or the session's until there is one. *)
Waits(c) ==
    LET u == IF client[c].upload # None THEN client[c].upload
             ELSE IF client[c].sid # None THEN sessions[client[c].sid].upload ELSE None
    IN  /\ At(c, "waiting")
        /\ IF u # None
           THEN \/ uploads[u].status = "filed" /\ EndsWell(c, "done")
                \/ uploads[u].status = "failed" /\ Fails(c)
           ELSE sessions[client[c].sid].status \in {"CANCELLED", "FAILED"} /\ Fails(c)
        /\ UNCHANGED <<Rows, runs, losses, History>>

(* Control-C, --no-wait, half an hour of waiting, or Cancel in the Mini App. *)
Stop(c) ==
    /\ ~At(c, "idle") /\ Loss
    /\ Fails(c)
    /\ UNCHANGED <<Rows, runs, History>>

(***************************************************************************)
(* The rest of the system.                                                 *)
(***************************************************************************)
Claim(s) ==
    /\ s \in Live /\ sessions[s].status = "READY"
    /\ sessions' = [sessions EXCEPT ![s].status = "ASSEMBLING"]
    /\ UNCHANGED <<client, outcome, uploads, late, runs, losses, History>>

HandOff(s) ==
    /\ s \in Live /\ sessions[s].status = "ASSEMBLING" /\ FreeUpload # {}
    /\ LET u == NewUpload
           got == sessions[s].got
       IN  /\ uploads' = [uploads EXCEPT ![u] =
                [bytes |-> sessions[s].bytes, status |-> "active",
                 of |-> IF NoneMissing(s) THEN {got[n] : n \in ReadyNumbers(s)} ELSE {None}]]
           /\ sessions' = [sessions EXCEPT ![s].status = "COMPLETED", ![s].upload = u]
    /\ UNCHANGED <<client, outcome, late, runs, losses, History>>

(* Cancelled or expired while collecting, or the assembly fails for good. *)
Close(s) ==
    /\ s \in Live
    /\ \/ /\ sessions[s].status = "COLLECTING"
          /\ sessions' = [sessions EXCEPT ![s].status = "CANCELLED",
                                          ![s].got = [n \in Numbers |-> None]]
       \/ /\ sessions[s].status = "ASSEMBLING"
          /\ sessions' = [sessions EXCEPT ![s].status = "FAILED"]
    /\ Loss
    /\ UNCHANGED <<client, outcome, uploads, late, runs, History>>

UploadStatus(u, from, to) ==
    /\ u \in UploadsIn({from})
    /\ uploads' = [uploads EXCEPT ![u].status = to]
    /\ UNCHANGED <<sessions, outcome, late, runs, History>>

(* The media row is written before the upload is terminal. *)
Reserve(u) == UploadStatus(u, "active", "filing") /\ UNCHANGED <<client, losses>>
Filed(u) == UploadStatus(u, "filing", "filed") /\ UNCHANGED <<client, losses>>
Broken(u) == UploadStatus(u, "active", "failed") /\ Loss /\ UNCHANGED client

(* A retry asks no quota. *)
RetryUpload(u) ==
    /\ UploadStatus(u, "failed", "active") /\ Loss
    /\ client' = [c \in Clients |-> [client[c] EXCEPT !.overtaken = TRUE]]

Next ==
    \/ \E c \in Clients :
        \/ \E f \in Files : Begin(c, f)
        \/ PutSingle(c) \/ SingleBreaks(c) \/ FindOpen(c)
        \/ \E b \in BOOLEAN : CreateDirect(c, b) \/ FindOrCreate(c, b) \/ Complete(c, b)
        \/ SkipPart(c) \/ PartRefused(c) \/ PutPart(c) \/ PartBreaks(c)
        \/ Waits(c) \/ Stop(c)
    \/ \E l \in late, b \in BOOLEAN : LatePart(l, b)
    \/ \E s \in Sids : Claim(s) \/ HandOff(s) \/ Close(s)
    \/ \E u \in Uids : Reserve(u) \/ Filed(u) \/ Broken(u) \/ RetryUpload(u)

Spec == Init /\ [][Next]_vars

TypeOK ==
    /\ client \in [Clients -> ClientState]
    /\ outcome \in [Clients -> {"none", "queued", "done", "failed"}]
    /\ sessions \in [Sids -> SessionRow \cup {None}]
    /\ uploads \in [Uids -> UploadRow \cup {None}]
    /\ late \subseteq Sids \X Numbers \X Files
    /\ runs \in 0..MaxRuns /\ losses \in 0..MaxLosses
    /\ creator \in [Sids -> Files \cup {None}]
    /\ raced \subseteq Sids /\ twins \subseteq Sids /\ overbooked \in BOOLEAN

(* The uploader's last word: when it reports the file done, what was filed is   *)
(* all of that file and nothing else, through retries, late requests, resumed   *)
(* sessions and other clients; but for a session that two begins opened at the  *)
(* same time, or that a second file of the same name and size was let into.     *)
DoneIsMine ==
    \A c \in Clients : outcome[c] = "done" =>
        \/ client[c].sid \in raced \cup twins
        \/ \E u \in Uids :
            /\ uploads[u] # None
            /\ uploads[u].of = {client[c].file}
            /\ \/ u = client[c].upload
               \/ client[c].sid # None /\ u = sessions[client[c].sid].upload

(* The quota counts what is on its way: a file is admitted beyond it only if    *)
(* something else was charged between the check and the row that reserves it.   *)
AdmittedWithinQuota == ~overbooked
=============================================================================
