------------------------ MODULE MultipartSessionProofs ------------------------
(***************************************************************************)
(* What MultipartSession guarantees for any number of parts, slots,        *)
(* requests and crashes.                                                   *)
(***************************************************************************)
EXTENDS MultipartSession, FiniteSetTheorems, TLAPS

-----------------------------------------------------------------------------
(* The inductive invariant *)

SlotSteps ==
  Downloading \cup Assembling
    \cup {"idle", "giving up", "claiming", "dropping", "handed", "disowning", "cleaning"}
RequestSteps ==
  {"idle", "upserting", "enqueueing", "streaming", "storing", "lost", "flagged", "flagged to close",
   "closing", "expiring", "reopening", "requeueing", "checking", "arming", "queueing", "cleaning"}
HoldingPart == {"upserting", "enqueueing", "streaming", "storing", "lost"}

\* The rows and the queue; the flags.
TablesOK ==
  /\ source \in {"telegram", "direct"}
  /\ status \in Open \cup Closed \cup {"NONE"}
  /\ row \in [Parts -> {"ABSENT", "PENDING", "DOWNLOADING", "READY", "FAILED"}]
  /\ disk \in SUBSET Parts
  /\ downloads \in [Parts -> Nat] /\ assemblies \in Nat
  /\ uploads \in Nat /\ requests \in Nat /\ crashes \in Nat
  /\ promised \in SUBSET Parts /\ orphans \in SUBSET Parts
FlagsOK ==
  /\ declared \in BOOLEAN /\ cancelRequested \in BOOLEAN /\ directory \in BOOLEAN
  /\ up \in BOOLEAN /\ disturbed \in BOOLEAN /\ rearmed \in BOOLEAN /\ parked \in BOOLEAN

\* Slots run jobs and requests do not, a part is in hand exactly while a step is about one, and
\* a worker that is down runs nothing.
Plays(a, step, p) ==
  /\ a \in Slots => step \in SlotSteps /\ (p # 0 <=> step \in Downloading \cup {"giving up"})
                   /\ (up \/ step = "idle")
  /\ a \in Requests => step \in RequestSteps /\ (p # 0 <=> step \in HoldingPart)

ActorsOK ==
  /\ DOMAIN at = Actors /\ at = [a \in Actors |-> at[a]]
  /\ part \in [Actors -> Parts \cup {0}]
  /\ list \in [Slots -> SUBSET Parts]
  /\ \A a \in Actors : Plays(a, at[a], part[a])

Typed == TablesOK /\ FlagsOK /\ ActorsOK

InAssembly == status \in {"ASSEMBLING", "VERIFYING"}

\* Until the session is set READY over its assembly, an assembler alone has closed it to every
\* other, and so has the upload it leaves.
AssembliesExclude ==
  ~rearmed =>
    /\ \A s, t \in Assemblers : s = t
    /\ Assemblers # {} => status # "READY" /\ uploads = 0
    /\ uploads > 0 => uploads = 1 /\ status # "READY" /\ ~InAssembly

\* A READY session's job is queued or claimed, or about to be; the job of an assembly that a
\* crash cut off is queued again before the session is.
ReadyIsAttended ==
  /\ status = "READY" /\ ~parked =>
       assemblies > 0 \/ \E a \in Actors : at[a] \in {"queueing", "claiming"}
  /\ ~up /\ InAssembly /\ ~parked =>
       assemblies > 0 \/ \E c \in Requests : at[c] = "queueing"

\* Steps that will queue the part they hold, or change its row.
Handling == HoldingPart \cup {"marking", "fetching", "fetched", "giving up"}

\* A part on its way is queued, or in the hands of a step that has not yet changed its row.
PartsAreAttended ==
  \A p \in Parts : row[p] \in {"PENDING", "DOWNLOADING"} /\ p \notin orphans =>
    downloads[p] > 0 \/ \E a \in Actors : part[a] = p /\ at[a] \in Handling

PromiseIsKept == promised \subseteq Ready \/ disturbed

IInv ==
  /\ Typed /\ AssemblyIsAttended /\ AssembliesExclude /\ ReadyIsAttended
  /\ PartsAreAttended /\ PromiseIsKept

-----------------------------------------------------------------------------
(* Types and roles *)

LEMMA TypedIsTypeOK == Typed => TypeOK
<1> SUFFICES ASSUME Typed PROVE TypeOK
    OBVIOUS
<1>1. SlotSteps \cup RequestSteps \subseteq Steps
    BY DEF SlotSteps, RequestSteps, HoldingPart, Steps, Downloading, Assembling
<1>2. at \in [Actors -> Steps]
  <2>1. ASSUME NEW a \in Actors PROVE at[a] \in SlotSteps \cup RequestSteps
      BY <2>1 DEF Typed, ActorsOK, Plays, Actors
  <2> QED
      BY <1>1, <2>1 DEF Typed, ActorsOK
<1>3. part \in [Actors -> Parts \cup {0}] /\ list \in [Slots -> SUBSET Parts]
    BY DEF Typed, ActorsOK
<1> QED
    BY <1>2, <1>3 DEF Typed, TablesOK, FlagsOK, TypeOK

LEMMA InitTyped == Init => Typed
<1> SUFFICES ASSUME Init PROVE Typed
    OBVIOUS
<1>1. TablesOK
    BY DEF Init, TablesOK, Open, Closed
<1>2. FlagsOK
    BY DEF Init, FlagsOK
<1>3. ActorsOK
    BY DEF Init, ActorsOK, Plays, SlotSteps, RequestSteps, HoldingPart, Downloading
<1> QED
    BY <1>1, <1>2, <1>3 DEF Typed

\* The slots are finitely many, and so is what a crash puts back into the queue.
LEMMA SlotsCount ==
  ASSUME NEW T \in SUBSET Slots
  PROVE  Cardinality(T) \in Nat /\ (T # {} => Cardinality(T) > 0)
BY ActorsType, FS_Subset, FS_CardinalityType, FS_EmptySet

\* A step about a part has one.
LEMMA InHand ==
  ASSUME ActorsOK, NEW a \in Actors,
         \/ a \in Slots /\ at[a] \in Downloading \cup {"giving up"}
         \/ a \in Requests /\ at[a] \in HoldingPart
  PROVE  part[a] \in Parts
<1>1. part[a] \in Parts \cup {0} /\ Plays(a, at[a], part[a])
    BY DEF ActorsOK
<1>2. part[a] # 0
    BY <1>1 DEF Plays
<1> QED
    BY <1>1, <1>2

\* A step that moves one actor on, as its role allows, keeps every actor in its own.
LEMMA Moves ==
  ASSUME ActorsOK, NEW a \in Actors, NEW step, NEW p \in Parts \cup {0}, up' = up,
         at' = [at EXCEPT ![a] = step], part' = [part EXCEPT ![a] = p],
         list' \in [Slots -> SUBSET Parts], Plays(a, step, p)
  PROVE  ActorsOK'
BY DEF ActorsOK, Plays

LEMMA SlotGoes ==
  ASSUME ActorsOK, NEW s \in Slots, NEW step \in SlotSteps, up' = up, Goto(s, step),
         up \/ at[s] # "idle",
         at[s] \in Downloading \cup {"giving up"} <=> step \in Downloading \cup {"giving up"}
  PROVE  ActorsOK'
<1>1. s \in Actors /\ s \notin Requests
    BY ActorsType DEF Actors
<1>2. Plays(s, step, part[s])
    BY <1>1 DEF ActorsOK, Plays
<1> QED
    BY <1>1, <1>2 DEF ActorsOK, Plays, Goto

LEMMA RequestGoes ==
  ASSUME ActorsOK, NEW c \in Requests, NEW step \in RequestSteps, up' = up, Goto(c, step),
         at[c] \in HoldingPart <=> step \in HoldingPart
  PROVE  ActorsOK'
<1>1. c \in Actors /\ c \notin Slots
    BY ActorsType DEF Actors
<1>2. Plays(c, step, part[c])
    BY <1>1 DEF ActorsOK, Plays
<1> QED
    BY <1>1, <1>2 DEF ActorsOK, Plays, Goto

LEMMA Ends ==
  ASSUME ActorsOK, NEW a \in Actors, up' = up, Done(a)
  PROVE  ActorsOK'
<1>1. Plays(a, "idle", 0)
    BY DEF Plays, SlotSteps, RequestSteps, HoldingPart, Downloading
<1> QED
    BY <1>1 DEF ActorsOK, Plays, Done

LEMMA Starts ==
  ASSUME ActorsOK, NEW c \in Requests, NEW step \in RequestSteps, NEW p \in Parts \cup {0},
         up' = up, Request(c, step, p), p # 0 <=> step \in HoldingPart
  PROVE  ActorsOK'
<1>1. c \in Actors /\ c \notin Slots
    BY ActorsType DEF Actors
<1>2. Plays(c, step, p)
    BY <1>1 DEF Plays
<1>3. list' \in [Slots -> SUBSET Parts]
    BY DEF ActorsOK, Request
<1> QED
    BY <1>1, <1>2, <1>3, Moves DEF Request

LEMMA Removes ==
  ASSUME ActorsOK, NEW a \in Actors, NEW step, up' = up, RemoveDirectory(a, step),
         Plays(a, step, 0)
  PROVE  ActorsOK'
<1>1. /\ DOMAIN at' = Actors /\ at' = [b \in Actors |-> at'[b]]
      /\ part' \in [Actors -> Parts \cup {0}] /\ list' \in [Slots -> SUBSET Parts]
    BY DEF ActorsOK, RemoveDirectory
<1>2. ASSUME NEW b \in Actors PROVE Plays(b, at[b], part[b])'
  <2>1. CASE b = a
      BY <2>1 DEF ActorsOK, RemoveDirectory, Plays
  <2>2. CASE b # a /\ at[b] = "streaming"
    <3>1. at'[b] = "lost" /\ part'[b] = part[b] /\ Plays(b, "streaming", part[b])
        BY <2>2 DEF ActorsOK, RemoveDirectory
    <3>2. b \notin Slots
        BY <3>1 DEF Plays, SlotSteps, Downloading, Assembling
    <3> QED
        BY <3>1, <3>2 DEF Plays, HoldingPart, RequestSteps
  <2>3. CASE b # a /\ at[b] # "streaming"
      BY <2>3 DEF ActorsOK, RemoveDirectory, Plays
  <2> QED
      BY <2>1, <2>2, <2>3
<1> QED
    BY <1>1, <1>2 DEF ActorsOK

\* Every step keeps the flags Boolean, ...
LEMMA NextFlags == Typed /\ [Next]_vars => FlagsOK'
<1> SUFFICES ASSUME Typed, [Next]_vars PROVE FlagsOK'
    OBVIOUS
<1> USE DEF Typed, FlagsOK, session, files, queue, bounds, history, SetStatus, SetRow, Request,
       RemoveDirectory
<1>1. ASSUME NEW c \in Requests, NEW p \in Parts, PartArrives(c, p) PROVE FlagsOK'
    BY <1>1 DEF PartArrives
<1>2. ASSUME NEW c \in Requests, NEW p \in Parts, PutCheck(c, p) PROVE FlagsOK'
    BY <1>2 DEF PutCheck
<1>3. ASSUME NEW c \in Requests, Finish(c) PROVE FlagsOK'
    BY <1>3 DEF Finish
<1>4. ASSUME NEW c \in Requests, FindExpired(c) PROVE FlagsOK'
    BY <1>4 DEF FindExpired
<1>5. ASSUME NEW c \in Requests, Cancel(c) PROVE FlagsOK'
    BY <1>5 DEF Cancel
<1>6. ASSUME NEW c \in Requests, Close(c) PROVE FlagsOK'
    BY <1>6 DEF Close
<1>7. ASSUME NEW c \in Requests, Retry(c) PROVE FlagsOK'
    BY <1>7 DEF Retry
<1>8. ASSUME NEW c \in Requests, Upsert(c) PROVE FlagsOK'
    BY <1>8 DEF Upsert
<1>9. ASSUME NEW c \in Requests, EnqueuePart(c) PROVE FlagsOK'
    BY <1>9 DEF EnqueuePart
<1>10. ASSUME NEW c \in Requests, Stream(c) PROVE FlagsOK'
    BY <1>10 DEF Stream
<1>11. ASSUME NEW c \in Requests, Store(c) PROVE FlagsOK'
    BY <1>11 DEF Store
<1>12. ASSUME NEW c \in Requests, StreamBreaks(c) PROVE FlagsOK'
    BY <1>12 DEF StreamBreaks
<1>13. ASSUME NEW c \in Requests, CancelJobs(c) PROVE FlagsOK'
    BY <1>13 DEF CancelJobs
<1>14. ASSUME NEW c \in Requests, CloseRow(c) PROVE FlagsOK'
    BY <1>14 DEF CloseRow
<1>15. ASSUME NEW c \in Requests, Reopen(c) PROVE FlagsOK'
    BY <1>15 DEF Reopen
<1>16. ASSUME NEW c \in Requests, Requeue(c) PROVE FlagsOK'
    BY <1>16 DEF Requeue
<1>17. ASSUME NEW c \in Requests, CutOff(c) PROVE FlagsOK'
    BY <1>17 DEF CutOff
<1>18. ASSUME NEW s \in Slots, ClaimAssembly(s) PROVE FlagsOK'
    BY <1>18 DEF ClaimAssembly
<1>19. ASSUME NEW s \in Slots, NEW p \in Parts, ClaimDownload(s, p) PROVE FlagsOK'
    BY <1>19 DEF ClaimDownload
<1>20. ASSUME NEW s \in Slots, MarkDownloading(s) PROVE FlagsOK'
    BY <1>20 DEF MarkDownloading
<1>21. ASSUME NEW s \in Slots, Fetch(s) PROVE FlagsOK'
    BY <1>21 DEF Fetch
<1>22. ASSUME NEW s \in Slots, MarkReady(s) PROVE FlagsOK'
    BY <1>22 DEF MarkReady
<1>23. ASSUME NEW s \in Slots, MaybeFinalise(s) PROVE FlagsOK'
    BY <1>23 DEF MaybeFinalise
<1>24. ASSUME NEW s \in Slots, FailDownload(s) PROVE FlagsOK'
    BY <1>24 DEF FailDownload
<1>25. ASSUME NEW s \in Slots, MarkPartFailed(s) PROVE FlagsOK'
    BY <1>25 DEF MarkPartFailed
<1>26. ASSUME NEW s \in Slots, ClaimSession(s) PROVE FlagsOK'
    BY <1>26 DEF ClaimSession
<1>27. ASSUME NEW s \in Slots, ListParts(s) PROVE FlagsOK'
    BY <1>27 DEF ListParts
<1>28. ASSUME NEW s \in Slots, Concatenate(s) PROVE FlagsOK'
    BY <1>28 DEF Concatenate
<1>29. ASSUME NEW s \in Slots, Verify(s) PROVE FlagsOK'
    BY <1>29 DEF Verify
<1>30. ASSUME NEW s \in Slots, HandOff(s) PROVE FlagsOK'
    BY <1>30 DEF HandOff
<1>31. ASSUME NEW s \in Slots, AuditFails(s) PROVE FlagsOK'
    BY <1>31 DEF AuditFails
<1>32. ASSUME NEW s \in Slots, Disown(s) PROVE FlagsOK'
    BY <1>32 DEF Disown
<1>33. ASSUME NEW s \in Slots, FailAssembly(s) PROVE FlagsOK'
    BY <1>33 DEF FailAssembly
<1>34. ASSUME NEW s \in Slots, Drop(s) PROVE FlagsOK'
    BY <1>34 DEF Drop
<1>35. ASSUME NEW a \in Actors, Check(a) PROVE FlagsOK'
    BY <1>35 DEF Check
<1>36. ASSUME NEW a \in Actors, Arm(a) PROVE FlagsOK'
    BY <1>36 DEF Arm
<1>37. ASSUME NEW a \in Actors, Queue(a) PROVE FlagsOK'
    BY <1>37 DEF Queue
<1>38. ASSUME NEW a \in Actors, Clean(a) PROVE FlagsOK'
    BY <1>38 DEF Clean
<1>39. CASE Begin
    BY <1>39 DEF Begin
<1>40. CASE WorkerCrash
    BY <1>40 DEF WorkerCrash
<1>41. CASE Restart
    BY <1>41 DEF Restart
<1>42. CASE UNCHANGED vars
    BY <1>42 DEF vars, session, files, queue, actors, bounds, history
<1> QED
    BY <1>1, <1>2, <1>3, <1>4, <1>5, <1>6, <1>7, <1>8, <1>9, <1>10, <1>11, <1>12, <1>13, <1>14,
       <1>15, <1>16, <1>17, <1>18, <1>19, <1>20, <1>21, <1>22, <1>23, <1>24, <1>25, <1>26,
       <1>27, <1>28, <1>29, <1>30, <1>31, <1>32, <1>33, <1>34, <1>35, <1>36, <1>37, <1>38,
       <1>39, <1>40, <1>41, <1>42
       DEF Next, NewRequest, RequestStep, ClaimJob, JobStep

\* ... the tables and counters what they are ...
LEMMA NextTables == Typed /\ [Next]_vars => TablesOK'
<1> SUFFICES ASSUME Typed, [Next]_vars PROVE TablesOK'
    OBVIOUS
<1> USE PartsType, BoundsType
       DEF Typed, TablesOK, Open, Closed, session, files, queue, bounds, history, SetStatus,
          SetRow,
       Request, RemoveDirectory, Actors
<1>1. ASSUME NEW c \in Requests, NEW p \in Parts, PartArrives(c, p) PROVE TablesOK'
    BY <1>1 DEF PartArrives
<1>2. ASSUME NEW c \in Requests, NEW p \in Parts, PutCheck(c, p) PROVE TablesOK'
    BY <1>2 DEF PutCheck
<1>3. ASSUME NEW c \in Requests, Finish(c) PROVE TablesOK'
    BY <1>3 DEF Finish
<1>4. ASSUME NEW c \in Requests, FindExpired(c) PROVE TablesOK'
    BY <1>4 DEF FindExpired
<1>5. ASSUME NEW c \in Requests, Cancel(c) PROVE TablesOK'
  <2>1. /\ UNCHANGED <<source, status, files, queue, uploads, promised, orphans>>
      BY <1>5 DEF Cancel
  <2>2. requests' = requests + 1 /\ crashes' = crashes
      BY <1>5 DEF Cancel
  <2> QED
      BY <2>1, <2>2
<1>6. ASSUME NEW c \in Requests, Close(c) PROVE TablesOK'
    BY <1>6 DEF Close
<1>7. ASSUME NEW c \in Requests, Retry(c) PROVE TablesOK'
    BY <1>7 DEF Retry
<1>8. ASSUME NEW c \in Requests, Upsert(c) PROVE TablesOK'
    BY <1>8 DEF Upsert
<1>9. ASSUME NEW c \in Requests, EnqueuePart(c) PROVE TablesOK'
  <2>1. part[c] \in Parts
      BY <1>9, InHand DEF EnqueuePart, HoldingPart
  <2> QED
      BY <1>9, <2>1 DEF EnqueuePart
<1>10. ASSUME NEW c \in Requests, Stream(c) PROVE TablesOK'
  <2>1. part[c] \in Parts
      BY <1>10, InHand DEF Stream, HoldingPart
  <2> QED
      BY <1>10, <2>1 DEF Stream
<1>11. ASSUME NEW c \in Requests, Store(c) PROVE TablesOK'
    BY <1>11 DEF Store
<1>12. ASSUME NEW c \in Requests, StreamBreaks(c) PROVE TablesOK'
  <2>1. part[c] \in Parts
      BY <1>12, InHand DEF StreamBreaks, HoldingPart
  <2> QED
      BY <1>12, <2>1 DEF StreamBreaks
<1>13. ASSUME NEW c \in Requests, CancelJobs(c) PROVE TablesOK'
    BY <1>13 DEF CancelJobs
<1>14. ASSUME NEW c \in Requests, CloseRow(c) PROVE TablesOK'
    BY <1>14 DEF CloseRow
<1>15. ASSUME NEW c \in Requests, Reopen(c) PROVE TablesOK'
    BY <1>15 DEF Reopen
<1>16. ASSUME NEW c \in Requests, Requeue(c) PROVE TablesOK'
    BY <1>16 DEF Requeue
<1>17. ASSUME NEW c \in Requests, CutOff(c) PROVE TablesOK'
  <2>1. orphans' \in SUBSET Parts
      BY <1>17 DEF CutOff, ActorsOK
  <2> QED
      BY <1>17, <2>1 DEF CutOff
<1>18. ASSUME NEW s \in Slots, ClaimAssembly(s) PROVE TablesOK'
    BY <1>18 DEF ClaimAssembly
<1>19. ASSUME NEW s \in Slots, NEW p \in Parts, ClaimDownload(s, p) PROVE TablesOK'
    BY <1>19 DEF ClaimDownload
<1>20. ASSUME NEW s \in Slots, MarkDownloading(s) PROVE TablesOK'
    BY <1>20 DEF MarkDownloading
<1>21. ASSUME NEW s \in Slots, Fetch(s) PROVE TablesOK'
  <2>1. part[s] \in Parts
      BY <1>21, InHand DEF Fetch, Downloading
  <2>2. CASE cancelRequested
      BY <1>21, <2>1, <2>2 DEF Fetch
  <2>3. CASE ~cancelRequested
      BY <1>21, <2>1, <2>3 DEF Fetch
  <2> QED
      BY <2>2, <2>3
<1>22. ASSUME NEW s \in Slots, MarkReady(s) PROVE TablesOK'
    BY <1>22 DEF MarkReady
<1>23. ASSUME NEW s \in Slots, MaybeFinalise(s) PROVE TablesOK'
    BY <1>23 DEF MaybeFinalise
<1>24. ASSUME NEW s \in Slots, FailDownload(s) PROVE TablesOK'
  <2>1. part[s] \in Parts
      BY <1>24, InHand DEF FailDownload
  <2>2. \/ downloads' = [downloads EXCEPT ![part[s]] = @ + 1]
        \/ downloads' = downloads
      BY <1>24 DEF FailDownload
  <2>3. downloads' \in [Parts -> Nat]
      BY <2>1, <2>2
  <2> QED
      BY <1>24, <2>3 DEF FailDownload
<1>25. ASSUME NEW s \in Slots, MarkPartFailed(s) PROVE TablesOK'
    BY <1>25 DEF MarkPartFailed
<1>26. ASSUME NEW s \in Slots, ClaimSession(s) PROVE TablesOK'
    BY <1>26 DEF ClaimSession
<1>27. ASSUME NEW s \in Slots, ListParts(s) PROVE TablesOK'
    BY <1>27 DEF ListParts
<1>28. ASSUME NEW s \in Slots, Concatenate(s) PROVE TablesOK'
    BY <1>28 DEF Concatenate
<1>29. ASSUME NEW s \in Slots, Verify(s) PROVE TablesOK'
    BY <1>29 DEF Verify
<1>30. ASSUME NEW s \in Slots, HandOff(s) PROVE TablesOK'
  <2>1. uploads' = uploads + 1 /\ status' = "COMPLETED" /\ source' = source
      BY <1>30 DEF HandOff
  <2>2. uploads' \in Nat
      BY <2>1
  <2> QED
      BY <1>30, <2>1, <2>2 DEF HandOff
<1>31. ASSUME NEW s \in Slots, AuditFails(s) PROVE TablesOK'
    BY <1>31 DEF AuditFails
<1>32. ASSUME NEW s \in Slots, Disown(s) PROVE TablesOK'
    BY <1>32 DEF Disown
<1>33. ASSUME NEW s \in Slots, FailAssembly(s) PROVE TablesOK'
    BY <1>33 DEF FailAssembly
<1>34. ASSUME NEW s \in Slots, Drop(s) PROVE TablesOK'
    BY <1>34 DEF Drop
<1>35. ASSUME NEW a \in Actors, Check(a) PROVE TablesOK'
  <2>1. promised' \in SUBSET Parts
      BY <1>35 DEF Check, Ready
  <2> QED
      BY <1>35, <2>1 DEF Check
<1>36. ASSUME NEW a \in Actors, Arm(a) PROVE TablesOK'
    BY <1>36 DEF Arm
<1>37. ASSUME NEW a \in Actors, Queue(a) PROVE TablesOK'
    BY <1>37 DEF Queue
<1>38. ASSUME NEW a \in Actors, Clean(a) PROVE TablesOK'
    BY <1>38 DEF Clean
<1>39. CASE Begin
    BY <1>39 DEF Begin
<1>40. CASE WorkerCrash
  <2> DEFINE Freed(p) == {s \in Slots : part[s] = p /\ at[s] \in Downloading}
             Lost == {s \in Slots : at[s] # "idle" /\ part[s] = 0}
  <2>1. downloads' = [p \in Parts |-> downloads[p] + Cardinality(Freed(p))]
      BY <1>40 DEF WorkerCrash
  <2>2. assemblies' = assemblies + Cardinality(Lost)
      BY <1>40 DEF WorkerCrash
  <2>3. Cardinality(Lost) \in Nat /\ \A p \in Parts : Cardinality(Freed(p)) \in Nat
      BY SlotsCount
  <2> HIDE DEF Freed, Lost
  <2>4. downloads' \in [Parts -> Nat] /\ assemblies' \in Nat
      BY <2>1, <2>2, <2>3
  <2>5. ASSUME NEW s \in Slots, at[s] = "giving up" PROVE part[s] \in Parts
      BY <2>5, InHand
  <2>6. orphans' \in SUBSET Parts
      BY <1>40, <2>5 DEF WorkerCrash
  <2>7. crashes' = crashes + 1 /\ requests' = requests
      BY <1>40 DEF WorkerCrash
  <2>8. UNCHANGED <<session, files, uploads, promised>>
      BY <1>40 DEF WorkerCrash
  <2> QED
      BY <2>4, <2>6, <2>7, <2>8
<1>41. CASE Restart
    BY <1>41 DEF Restart
<1>42. CASE UNCHANGED vars
    BY <1>42 DEF vars, session, files, queue, actors, bounds, history
<1> QED
    BY <1>1, <1>2, <1>3, <1>4, <1>5, <1>6, <1>7, <1>8, <1>9, <1>10, <1>11, <1>12, <1>13, <1>14,
       <1>15, <1>16, <1>17, <1>18, <1>19, <1>20, <1>21, <1>22, <1>23, <1>24, <1>25, <1>26,
       <1>27, <1>28, <1>29, <1>30, <1>31, <1>32, <1>33, <1>34, <1>35, <1>36, <1>37, <1>38,
       <1>39, <1>40, <1>41, <1>42
       DEF Next, NewRequest, RequestStep, ClaimJob, JobStep

\* ... and every actor in its role.
LEMMA NextActors == Typed /\ [Next]_vars => ActorsOK'
<1> SUFFICES ASSUME Typed, [Next]_vars PROVE ActorsOK'
    OBVIOUS
<1> USE DEF Typed
<1>1. ASSUME NEW c \in Requests, NEW p \in Parts, PartArrives(c, p) PROVE ActorsOK'
  <2>1. up' = up /\ Request(c, "upserting", p)
      BY <1>1 DEF PartArrives
  <2>2. "upserting" \in RequestSteps /\ "upserting" \in HoldingPart /\ p # 0
      BY DEF RequestSteps, HoldingPart, Parts
  <2> QED
      BY <2>1, <2>2, Starts
<1>2. ASSUME NEW c \in Requests, NEW p \in Parts, PutCheck(c, p) PROVE ActorsOK'
  <2>1. up' = up /\ Request(c, "upserting", p)
      BY <1>2 DEF PutCheck
  <2>2. "upserting" \in RequestSteps /\ "upserting" \in HoldingPart /\ p # 0
      BY DEF RequestSteps, HoldingPart, Parts
  <2> QED
      BY <2>1, <2>2, Starts
<1>3. ASSUME NEW c \in Requests, Finish(c) PROVE ActorsOK'
    BY <1>3, Starts DEF Finish, RequestSteps, HoldingPart, Downloading
<1>4. ASSUME NEW c \in Requests, FindExpired(c) PROVE ActorsOK'
    BY <1>4, Starts DEF FindExpired, RequestSteps, HoldingPart, Downloading
<1>5. ASSUME NEW c \in Requests, Cancel(c) PROVE ActorsOK'
    BY <1>5, Starts DEF Cancel, RequestSteps, HoldingPart, Downloading
<1>6. ASSUME NEW c \in Requests, Close(c) PROVE ActorsOK'
    BY <1>6, Starts DEF Close, RequestSteps, HoldingPart, Downloading
<1>7. ASSUME NEW c \in Requests, Retry(c) PROVE ActorsOK'
    BY <1>7, Starts DEF Retry, RequestSteps, HoldingPart, Downloading
<1>8. ASSUME NEW c \in Requests, Upsert(c) PROVE ActorsOK'
    BY <1>8, RequestGoes DEF Upsert, RequestSteps, HoldingPart
<1>9. ASSUME NEW c \in Requests, EnqueuePart(c) PROVE ActorsOK'
    BY <1>9, Ends DEF EnqueuePart, Actors
<1>10. ASSUME NEW c \in Requests, Stream(c) PROVE ActorsOK'
    BY <1>10, RequestGoes DEF Stream, RequestSteps, HoldingPart
<1>11. ASSUME NEW c \in Requests, Store(c) PROVE ActorsOK'
    BY <1>11, Ends DEF Store, Actors
<1>12. ASSUME NEW c \in Requests, StreamBreaks(c) PROVE ActorsOK'
    BY <1>12, Ends DEF StreamBreaks, Actors
<1>13. ASSUME NEW c \in Requests, CancelJobs(c) PROVE ActorsOK'
    BY <1>13, RequestGoes DEF CancelJobs, RequestSteps, HoldingPart
<1>14. ASSUME NEW c \in Requests, CloseRow(c) PROVE ActorsOK'
    BY <1>14, RequestGoes DEF CloseRow, RequestSteps, HoldingPart
<1>15. ASSUME NEW c \in Requests, Reopen(c) PROVE ActorsOK'
    BY <1>15, RequestGoes DEF Reopen, RequestSteps, HoldingPart
<1>16. ASSUME NEW c \in Requests, Requeue(c) PROVE ActorsOK'
    BY <1>16, Ends, RequestGoes DEF Requeue, Actors, RequestSteps, HoldingPart
<1>17. ASSUME NEW c \in Requests, CutOff(c) PROVE ActorsOK'
    BY <1>17, Ends DEF CutOff, Actors
<1>18. ASSUME NEW s \in Slots, ClaimAssembly(s) PROVE ActorsOK'
    BY <1>18, SlotGoes DEF ClaimAssembly, SlotSteps, Downloading, Assembling
<1>19. ASSUME NEW s \in Slots, NEW p \in Parts, ClaimDownload(s, p) PROVE ActorsOK'
  <2>1. up' = up /\ list' = list /\ up /\ s \in Actors /\ s \notin Requests /\ p # 0
      BY <1>19, ActorsType DEF ClaimDownload, Actors, Parts
  <2>2. Plays(s, "idle", 0) /\ Plays(s, "marking", p)
      BY <2>1 DEF Plays, SlotSteps, Downloading
  <2>3. list' \in [Slots -> SUBSET Parts]
      BY <2>1 DEF ActorsOK
  <2>4. CASE cancelRequested \/ status = "CANCELLED"
    <3>1. at' = [at EXCEPT ![s] = "idle"] /\ part' = [part EXCEPT ![s] = 0]
        BY <1>19, <2>4 DEF ClaimDownload
    <3> QED
        BY <3>1, <2>1, <2>2, <2>3, Moves
  <2>5. CASE ~(cancelRequested \/ status = "CANCELLED")
    <3>1. at' = [at EXCEPT ![s] = "marking"] /\ part' = [part EXCEPT ![s] = p]
        BY <1>19, <2>5 DEF ClaimDownload
    <3> QED
        BY <3>1, <2>1, <2>2, <2>3, Moves
  <2> QED
      BY <2>4, <2>5
<1>20. ASSUME NEW s \in Slots, MarkDownloading(s) PROVE ActorsOK'
    BY <1>20, SlotGoes DEF MarkDownloading, SlotSteps, Downloading, Assembling
<1>21. ASSUME NEW s \in Slots, Fetch(s) PROVE ActorsOK'
    BY <1>21, Ends, SlotGoes DEF Fetch, Actors, SlotSteps, Downloading, Assembling
<1>22. ASSUME NEW s \in Slots, MarkReady(s) PROVE ActorsOK'
    BY <1>22, SlotGoes DEF MarkReady, SlotSteps, Downloading, Assembling
<1>23. ASSUME NEW s \in Slots, MaybeFinalise(s) PROVE ActorsOK'
    BY <1>23, Ends, SlotGoes DEF MaybeFinalise, Actors, SlotSteps, Downloading, Assembling
<1>24. ASSUME NEW s \in Slots, FailDownload(s) PROVE ActorsOK'
    BY <1>24, Ends, SlotGoes DEF FailDownload, Actors, SlotSteps, Downloading, Assembling
<1>25. ASSUME NEW s \in Slots, MarkPartFailed(s) PROVE ActorsOK'
    BY <1>25, Ends DEF MarkPartFailed, Actors
<1>26. ASSUME NEW s \in Slots, ClaimSession(s) PROVE ActorsOK'
    BY <1>26, Ends, SlotGoes DEF ClaimSession, Actors, SlotSteps, Downloading, Assembling
<1>27. ASSUME NEW s \in Slots, ListParts(s) PROVE ActorsOK'
  <2>1. /\ up' = up /\ s \in Actors /\ s \notin Requests
        /\ at' = [at EXCEPT ![s] = "concatenating"] /\ part' = [part EXCEPT ![s] = part[s]]
      BY <1>27, ActorsType DEF ListParts, Actors, ActorsOK
  <2>2. Plays(s, "listing", part[s]) /\ part[s] \in Parts \cup {0}
      BY <1>27, <2>1 DEF ListParts, ActorsOK
  <2>3. Plays(s, "concatenating", part[s])
      BY <2>1, <2>2 DEF Plays, SlotSteps, Downloading, Assembling
  <2>4. list' \in [Slots -> SUBSET Parts]
      BY <1>27 DEF ListParts, ActorsOK, Ready
  <2> QED
      BY <2>1, <2>2, <2>3, <2>4, Moves
<1>28. ASSUME NEW s \in Slots, Concatenate(s) PROVE ActorsOK'
    BY <1>28, SlotGoes DEF Concatenate, SlotSteps, Downloading, Assembling
<1>29. ASSUME NEW s \in Slots, Verify(s) PROVE ActorsOK'
    BY <1>29, SlotGoes DEF Verify, SlotSteps, Downloading, Assembling
<1>30. ASSUME NEW s \in Slots, HandOff(s) PROVE ActorsOK'
    BY <1>30, SlotGoes DEF HandOff, SlotSteps, Downloading, Assembling
<1>31. ASSUME NEW s \in Slots, AuditFails(s) PROVE ActorsOK'
  <2>1. up' = up /\ s \in Actors /\ s \notin Requests /\ RemoveDirectory(s, "disowning")
      BY <1>31, ActorsType DEF AuditFails, Actors
  <2>2. Plays(s, "handed", part[s])
      BY <1>31, <2>1 DEF AuditFails, ActorsOK
  <2>3. Plays(s, "disowning", 0)
      BY <2>1, <2>2 DEF Plays, SlotSteps, Downloading
  <2> QED
      BY <2>1, <2>3, Removes
<1>32. ASSUME NEW s \in Slots, Disown(s) PROVE ActorsOK'
    BY <1>32, Ends DEF Disown, Actors
<1>33. ASSUME NEW s \in Slots, FailAssembly(s) PROVE ActorsOK'
    BY <1>33, Ends DEF FailAssembly, Actors
<1>34. ASSUME NEW s \in Slots, Drop(s) PROVE ActorsOK'
    BY <1>34, SlotGoes DEF Drop, SlotSteps, Downloading, Assembling
<1>35. ASSUME NEW a \in Actors, Check(a) PROVE ActorsOK'
    BY <1>35, Ends, SlotGoes, RequestGoes
       DEF Check, Actors, SlotSteps, RequestSteps, HoldingPart, Downloading
<1>36. ASSUME NEW a \in Actors, Arm(a) PROVE ActorsOK'
    BY <1>36, Ends, SlotGoes, RequestGoes
       DEF Arm, Actors, SlotSteps, RequestSteps, HoldingPart, Downloading
<1>37. ASSUME NEW a \in Actors, Queue(a) PROVE ActorsOK'
    BY <1>37, Ends DEF Queue
<1>38. ASSUME NEW a \in Actors, Clean(a) PROVE ActorsOK'
    BY <1>38, Removes DEF Clean, Plays, SlotSteps, RequestSteps, HoldingPart, Downloading
<1>39. CASE Begin
    BY <1>39 DEF Begin, actors, ActorsOK, Plays
<1>40. CASE WorkerCrash
    BY <1>40, ActorsType DEF WorkerCrash, ActorsOK, Plays, Actors, SlotSteps, Downloading
<1>41. CASE Restart
    BY <1>41 DEF Restart, actors, ActorsOK, Plays
<1>42. CASE UNCHANGED vars
    BY <1>42 DEF vars, actors, ActorsOK, Plays
<1> QED
    BY <1>1, <1>2, <1>3, <1>4, <1>5, <1>6, <1>7, <1>8, <1>9, <1>10, <1>11, <1>12, <1>13, <1>14,
       <1>15, <1>16, <1>17, <1>18, <1>19, <1>20, <1>21, <1>22, <1>23, <1>24, <1>25, <1>26,
       <1>27, <1>28, <1>29, <1>30, <1>31, <1>32, <1>33, <1>34, <1>35, <1>36, <1>37, <1>38,
       <1>39, <1>40, <1>41, <1>42
       DEF Next, NewRequest, RequestStep, ClaimJob, JobStep

-----------------------------------------------------------------------------
(* The status as a lock.  To who may assemble, a step of the system is one of a few: *)

AssemblerSteps == Assembling \cup {"dropping"}

\* Nothing, a closing, or the assembler's own VERIFYING;
Stays ==
  /\ UNCHANGED <<uploads, rearmed, Assemblers, up>>
  /\ status' # status =>
       status' \in Closed \cup {"COLLECTING"} \/ (status' = "VERIFYING" /\ Assemblers # {})
\* the session is set READY, whoever assembles it;
Arms ==
  /\ status' = "READY" /\ UNCHANGED <<uploads, Assemblers, up>>
  /\ rearmed \/ Assemblers # {} \/ uploads > 0 => rearmed'
\* a slot takes the lock,
Claims ==
  /\ status = "READY" /\ status' = "ASSEMBLING"
  /\ \E s \in Slots : s \notin Assemblers /\ Assemblers' = Assemblers \cup {s}
  /\ UNCHANGED <<uploads, rearmed, up>>
\* or is through with it;
Leaves ==
  /\ \E s \in Assemblers : Assemblers' = Assemblers \ {s}
  /\ ~InAssembly' /\ UNCHANGED <<rearmed, up>>
  /\ uploads' = uploads \/ (uploads' = uploads + 1 /\ status' = "COMPLETED")
\* the worker goes down, and comes back.
GoesDown == ~up' /\ Assemblers' = {} /\ UNCHANGED <<status, uploads, rearmed>>
ComesBack ==
  /\ Assemblers = {} /\ Assemblers' = {} /\ UNCHANGED <<uploads, rearmed>>
  /\ ~InAssembly' /\ (status' = "READY" => status = "READY" \/ InAssembly)

AssemblyStep == Stays \/ Arms \/ Claims \/ Leaves \/ GoesDown \/ ComesBack

LEMMA SameAssemblers ==
  ASSUME ActorsOK, NEW a \in Actors, NEW step, Goto(a, step),
         a \in Slots => (at[a] \in AssemblerSteps <=> step \in AssemblerSteps)
  PROVE  Assemblers' = Assemblers
BY DEF ActorsOK, Actors, Goto, Assemblers, AssemblerSteps

LEMMA NoneLeft ==
  ASSUME ActorsOK, NEW a \in Actors, Done(a), a \in Slots => at[a] \notin AssemblerSteps
  PROVE  Assemblers' = Assemblers
BY DEF ActorsOK, Actors, Done, Assemblers, AssemblerSteps, Assembling

LEMMA NoneJoins ==
  ASSUME ActorsOK, NEW c \in Requests, NEW step, NEW p, Request(c, step, p)
  PROVE  Assemblers' = Assemblers
BY ActorsType DEF ActorsOK, Actors, Request, Assemblers

LEMMA NoneRemoved ==
  ASSUME ActorsOK, NEW a \in Actors, NEW step, RemoveDirectory(a, step),
         a \in Slots => at[a] \notin AssemblerSteps /\ step \notin AssemblerSteps
  PROVE  Assemblers' = Assemblers
<1>1. ASSUME NEW s \in Slots PROVE at'[s] \in AssemblerSteps <=> at[s] \in AssemblerSteps
    BY DEF ActorsOK, Actors, RemoveDirectory, AssemblerSteps, Assembling
<1> QED
    BY <1>1 DEF Assemblers, AssemblerSteps

LEMMA OneMore ==
  ASSUME ActorsOK, NEW s \in Slots, NEW step \in AssemblerSteps, at[s] \notin AssemblerSteps,
         Goto(s, step)
  PROVE  s \notin Assemblers /\ Assemblers' = Assemblers \cup {s}
BY DEF ActorsOK, Actors, Goto, Assemblers, AssemblerSteps

LEMMA OneLess ==
  ASSUME ActorsOK, NEW s \in Slots, at[s] \in AssemblerSteps,
         Done(s) \/ \E step \in Steps \ AssemblerSteps : Goto(s, step)
  PROVE  s \in Assemblers /\ Assemblers' = Assemblers \ {s}
<1>1. at'[s] \notin AssemblerSteps /\ \A t \in Slots : t # s => at'[t] = at[t]
    BY DEF ActorsOK, Actors, Goto, Done, AssemblerSteps, Assembling
<1> QED
    BY <1>1 DEF Assemblers, AssemblerSteps

\* The detailed system takes only such steps.
LEMMA NextAssembly == Typed /\ [Next]_vars => AssemblyStep
<1> SUFFICES ASSUME Typed, [Next]_vars PROVE AssemblyStep
    OBVIOUS
<1> USE DEF Typed
<1>1. ASSUME NEW c \in Requests, NEW p \in Parts, PartArrives(c, p) PROVE AssemblyStep
    BY <1>1, NoneJoins DEF PartArrives, SetStatus, AssemblyStep, Stays, Closed, history
<1>2. ASSUME NEW c \in Requests, NEW p \in Parts, PutCheck(c, p) PROVE AssemblyStep
    BY <1>2, NoneJoins DEF PutCheck, AssemblyStep, Stays, session, history
<1>3. ASSUME NEW c \in Requests, Finish(c) PROVE AssemblyStep
    BY <1>3, NoneJoins DEF Finish, AssemblyStep, Stays, session, history
<1>4. ASSUME NEW c \in Requests, FindExpired(c) PROVE AssemblyStep
    BY <1>4, NoneJoins DEF FindExpired, AssemblyStep, Stays, session, history
<1>5. ASSUME NEW c \in Requests, Cancel(c) PROVE AssemblyStep
    BY <1>5, NoneJoins DEF Cancel, SetStatus, AssemblyStep, Stays, Closed, history
<1>6. ASSUME NEW c \in Requests, Close(c) PROVE AssemblyStep
    BY <1>6, NoneJoins DEF Close, AssemblyStep, Stays, session, history
<1>7. ASSUME NEW c \in Requests, Retry(c) PROVE AssemblyStep
    BY <1>7, NoneJoins DEF Retry, AssemblyStep, Stays, session, history
<1>8. ASSUME NEW c \in Requests, Upsert(c) PROVE AssemblyStep
    BY <1>8, ActorsType, SameAssemblers
       DEF Upsert, AssemblyStep, Stays, Closed, session, history, SetStatus, SetRow, Actors
<1>9. ASSUME NEW c \in Requests, EnqueuePart(c) PROVE AssemblyStep
    BY <1>9, ActorsType, NoneLeft
       DEF EnqueuePart, AssemblyStep, Stays, Closed, session, history, SetStatus, SetRow, Actors
<1>10. ASSUME NEW c \in Requests, Stream(c) PROVE AssemblyStep
    BY <1>10, ActorsType, SameAssemblers
       DEF Stream, AssemblyStep, Stays, Closed, session, history, SetStatus, SetRow, Actors
<1>11. ASSUME NEW c \in Requests, Store(c) PROVE AssemblyStep
    BY <1>11, ActorsType, NoneLeft
       DEF Store, AssemblyStep, Stays, Closed, session, history, SetStatus, SetRow, Actors
<1>12. ASSUME NEW c \in Requests, StreamBreaks(c) PROVE AssemblyStep
    BY <1>12, ActorsType, NoneLeft
       DEF StreamBreaks, AssemblyStep, Stays, Closed, session, history, SetStatus, SetRow,
          Actors
<1>13. ASSUME NEW c \in Requests, CancelJobs(c) PROVE AssemblyStep
    BY <1>13, ActorsType, SameAssemblers
       DEF CancelJobs, AssemblyStep, Stays, Closed, session, history, SetStatus, SetRow, Actors
<1>14. ASSUME NEW c \in Requests, CloseRow(c) PROVE AssemblyStep
    BY <1>14, ActorsType, SameAssemblers
       DEF CloseRow, AssemblyStep, Stays, Closed, session, history, SetStatus, SetRow, Actors
<1>15. ASSUME NEW c \in Requests, Reopen(c) PROVE AssemblyStep
    BY <1>15, ActorsType, SameAssemblers
       DEF Reopen, AssemblyStep, Stays, Closed, session, history, SetStatus, SetRow, Actors
<1>16. ASSUME NEW c \in Requests, Requeue(c) PROVE AssemblyStep
    BY <1>16, ActorsType, NoneLeft, SameAssemblers
       DEF Requeue, AssemblyStep, Stays, Closed, session, history, SetStatus, SetRow, Actors
<1>17. ASSUME NEW c \in Requests, CutOff(c) PROVE AssemblyStep
    BY <1>17, ActorsType, NoneLeft
       DEF CutOff, AssemblyStep, Stays, Closed, session, history, SetStatus, SetRow, Actors
<1>18. ASSUME NEW s \in Slots, ClaimAssembly(s) PROVE AssemblyStep
    BY <1>18, SameAssemblers
       DEF ClaimAssembly, AssemblyStep, Stays, Closed, session, history, SetStatus, SetRow,
          Actors, AssemblerSteps, Assembling, Downloading
<1>19. ASSUME NEW s \in Slots, NEW p \in Parts, ClaimDownload(s, p) PROVE AssemblyStep
    BY <1>19 DEF ClaimDownload, ActorsOK, Assemblers, AssemblyStep, Stays, Closed, session,
       history, SetStatus, SetRow, Actors, AssemblerSteps, Assembling, Downloading
<1>20. ASSUME NEW s \in Slots, MarkDownloading(s) PROVE AssemblyStep
    BY <1>20, SameAssemblers
       DEF MarkDownloading, AssemblyStep, Stays, Closed, session, history, SetStatus, SetRow,
          Actors, AssemblerSteps, Assembling, Downloading
<1>21. ASSUME NEW s \in Slots, Fetch(s) PROVE AssemblyStep
    BY <1>21, NoneLeft, SameAssemblers
       DEF Fetch, AssemblyStep, Stays, Closed, session, history, SetStatus, SetRow, Actors,
          AssemblerSteps, Assembling, Downloading
<1>22. ASSUME NEW s \in Slots, MarkReady(s) PROVE AssemblyStep
    BY <1>22, SameAssemblers
       DEF MarkReady, AssemblyStep, Stays, Closed, session, history, SetStatus, SetRow, Actors,
          AssemblerSteps, Assembling, Downloading
<1>23. ASSUME NEW s \in Slots, MaybeFinalise(s) PROVE AssemblyStep
    BY <1>23, NoneLeft, SameAssemblers
       DEF MaybeFinalise, AssemblyStep, Stays, Closed, session, history, SetStatus, SetRow,
          Actors, AssemblerSteps, Assembling, Downloading
<1>24. ASSUME NEW s \in Slots, FailDownload(s) PROVE AssemblyStep
    BY <1>24, NoneLeft, SameAssemblers
       DEF FailDownload, AssemblyStep, Stays, Closed, session, history, SetStatus, SetRow,
          Actors, AssemblerSteps, Assembling, Downloading
<1>25. ASSUME NEW s \in Slots, MarkPartFailed(s) PROVE AssemblyStep
    BY <1>25, NoneLeft DEF MarkPartFailed, AssemblyStep, Stays, Closed, session, history,
       SetStatus, SetRow, Actors, AssemblerSteps, Assembling, Downloading
<1>26. ASSUME NEW s \in Slots, ClaimSession(s) PROVE AssemblyStep
  <2>1. CASE status = "READY"
      BY <1>26, <2>1, OneMore
         DEF ClaimSession, SetStatus, AssemblyStep, Claims, AssemblerSteps, Assembling, history
  <2>2. CASE status # "READY"
      BY <1>26, <2>2, NoneLeft DEF ClaimSession, AssemblyStep, Stays, Closed, session, history,
         SetStatus, SetRow, Actors, AssemblerSteps, Assembling, Downloading
  <2> QED
      BY <2>1, <2>2
<1>27. ASSUME NEW s \in Slots, ListParts(s) PROVE AssemblyStep
  <2>1. Assemblers' = Assemblers
      BY <1>27 DEF ListParts, ActorsOK, Actors, Assemblers, Assembling
  <2> QED
      BY <1>27, <2>1 DEF ListParts, AssemblyStep, Stays, session, history
<1>28. ASSUME NEW s \in Slots, Concatenate(s) PROVE AssemblyStep
    BY <1>28, SameAssemblers
       DEF Concatenate, AssemblyStep, Stays, Closed, session, history, SetStatus, SetRow,
          Actors, AssemblerSteps, Assembling, Downloading
<1>29. ASSUME NEW s \in Slots, Verify(s) PROVE AssemblyStep
    BY <1>29, SameAssemblers
       DEF Verify, Assemblers, AssemblyStep, Stays, Closed, session, history, SetStatus, SetRow,
          Actors, AssemblerSteps, Assembling, Downloading
<1>30. ASSUME NEW s \in Slots, HandOff(s) PROVE AssemblyStep
    BY <1>30, OneLess
       DEF HandOff, SetStatus, AssemblyStep, Leaves, InAssembly, AssemblerSteps, Assembling,
          history, Steps
<1>31. ASSUME NEW s \in Slots, AuditFails(s) PROVE AssemblyStep
    BY <1>31, NoneRemoved DEF AuditFails, AssemblyStep, Stays, Closed, session, history,
       SetStatus, SetRow, Actors, AssemblerSteps, Assembling, Downloading
<1>32. ASSUME NEW s \in Slots, Disown(s) PROVE AssemblyStep
    BY <1>32, NoneLeft
       DEF Disown, SetStatus, AssemblyStep, Arms, Actors, AssemblerSteps, Assembling
<1>33. ASSUME NEW s \in Slots, FailAssembly(s) PROVE AssemblyStep
    BY <1>33, OneLess
       DEF FailAssembly, SetStatus, AssemblyStep, Leaves, InAssembly, AssemblerSteps,
          Assembling, history, Steps
<1>34. ASSUME NEW s \in Slots, Drop(s) PROVE AssemblyStep
    BY <1>34, OneLess
       DEF Drop, SetStatus, AssemblyStep, Leaves, InAssembly, AssemblerSteps, Assembling,
          history, Steps
<1>35. ASSUME NEW a \in Actors, Check(a) PROVE AssemblyStep
    BY <1>35, NoneLeft, SameAssemblers
       DEF Check, AssemblyStep, Stays, Closed, session, history, SetStatus, SetRow, Actors,
          AssemblerSteps, Assembling, Downloading
<1>36. ASSUME NEW a \in Actors, Arm(a) PROVE AssemblyStep
    BY <1>36, SameAssemblers
       DEF Arm, SetStatus, AssemblyStep, Arms, Actors, AssemblerSteps, Assembling
<1>37. ASSUME NEW a \in Actors, Queue(a) PROVE AssemblyStep
    BY <1>37, NoneLeft DEF Queue, AssemblyStep, Stays, Closed, session, history, SetStatus,
       SetRow, Actors, AssemblerSteps, Assembling, Downloading
<1>38. ASSUME NEW a \in Actors, Clean(a) PROVE AssemblyStep
    BY <1>38, NoneRemoved DEF Clean, AssemblyStep, Stays, Closed, session, history, SetStatus,
       SetRow, Actors, AssemblerSteps, Assembling, Downloading
<1>39. CASE Begin
    BY <1>39 DEF Begin, SetStatus, actors, history, AssemblyStep, Stays, Assemblers
<1>40. CASE WorkerCrash
    BY <1>40 DEF WorkerCrash, session, Actors, AssemblyStep, GoesDown, Assemblers, Assembling
<1>41. CASE Restart
  <2>1. Assemblers = {}
      BY <1>41 DEF Restart, Assemblers, ActorsOK, Actors, Plays, Assembling
  <2>2. Assemblers' = {}
      BY <1>41, <2>1 DEF Restart, actors, Assemblers
  <2> QED
      BY <1>41, <2>1, <2>2 DEF Restart, SetStatus, InAssembly, AssemblyStep, ComesBack, history
<1>42. CASE UNCHANGED vars
    BY <1>42 DEF vars, session, actors, history, AssemblyStep, Stays, Assemblers
<1> QED
    BY <1>1, <1>2, <1>3, <1>4, <1>5, <1>6, <1>7, <1>8, <1>9, <1>10, <1>11, <1>12, <1>13, <1>14,
       <1>15, <1>16, <1>17, <1>18, <1>19, <1>20, <1>21, <1>22, <1>23, <1>24, <1>25, <1>26,
       <1>27, <1>28, <1>29, <1>30, <1>31, <1>32, <1>33, <1>34, <1>35, <1>36, <1>37, <1>38,
       <1>39, <1>40, <1>41, <1>42
       DEF Next, NewRequest, RequestStep, ClaimJob, JobStep

\* The lock does what it is for.
LEMMA NextAttended ==
  Typed /\ AssemblyIsAttended /\ [Next]_vars => AssemblyIsAttended'
<1> SUFFICES ASSUME Typed, AssemblyIsAttended, [Next]_vars PROVE AssemblyIsAttended'
    OBVIOUS
<1>1. AssemblyStep
    BY NextAssembly
<1>2. CASE Stays
    BY <1>2 DEF Stays, AssemblyIsAttended, Closed
<1>3. CASE Arms
    BY <1>3 DEF Arms, AssemblyIsAttended
<1>4. CASE Claims
    BY <1>4 DEF Claims, AssemblyIsAttended
<1>5. CASE Leaves
    BY <1>5 DEF Leaves, InAssembly, AssemblyIsAttended
<1>6. CASE GoesDown
    BY <1>6 DEF GoesDown, AssemblyIsAttended
<1>7. CASE ComesBack
    BY <1>7 DEF ComesBack, InAssembly, AssemblyIsAttended
<1> QED
    BY <1>1, <1>2, <1>3, <1>4, <1>5, <1>6, <1>7 DEF AssemblyStep

LEMMA NextExclude ==
  Typed /\ AssembliesExclude /\ [Next]_vars => AssembliesExclude'
<1> SUFFICES ASSUME Typed, AssembliesExclude, [Next]_vars, ~rearmed'
             PROVE  AssembliesExclude'
    BY DEF AssembliesExclude
<1>1. AssemblyStep /\ uploads \in Nat
    BY NextAssembly DEF Typed, TablesOK
<1>2. CASE Stays
    BY <1>1, <1>2 DEF Stays, AssembliesExclude, InAssembly, Closed
<1>3. CASE Arms
    BY <1>1, <1>3 DEF Arms, AssembliesExclude, InAssembly
<1>4. CASE Claims
    BY <1>1, <1>4 DEF Claims, AssembliesExclude, InAssembly
<1>5. CASE Leaves
    BY <1>1, <1>5 DEF Leaves, AssembliesExclude, InAssembly
<1>6. CASE GoesDown
    BY <1>1, <1>6 DEF GoesDown, AssembliesExclude, InAssembly
<1>7. CASE ComesBack
    BY <1>1, <1>7 DEF ComesBack, AssembliesExclude, InAssembly
<1> QED
    BY <1>1, <1>2, <1>3, <1>4, <1>5, <1>6, <1>7 DEF AssemblyStep

LEMMA ExcludeMeansOne == Typed /\ AssembliesExclude => OneAssemblyUnlessRearmed
<1> SUFFICES ASSUME Typed, AssembliesExclude, ~rearmed
             PROVE  Cardinality(Assemblers) <= 1 /\ uploads <= 1
    BY DEF OneAssemblyUnlessRearmed
<1>1. uploads <= 1
    BY DEF Typed, TablesOK, AssembliesExclude
<1>2. Assemblers = {} \/ \E s \in Assemblers : Assemblers = {s}
    BY DEF AssembliesExclude
<1>3. CASE Assemblers = {}
  <2>1. Cardinality(Assemblers) = 0
      BY <1>3, FS_EmptySet, Zenon
  <2> QED
      BY <1>1, <2>1
<1>4. ASSUME NEW s \in Assemblers, Assemblers = {s} PROVE Cardinality(Assemblers) <= 1
  <2>1. Cardinality({s}) = 1
      BY FS_Singleton, Zenon
  <2> QED
      BY <1>4, <2>1
<1> QED
    BY <1>1, <1>2, <1>3, <1>4

-----------------------------------------------------------------------------
(* The job of a READY session *)

Pending == \E a \in Actors : at[a] \in {"queueing", "claiming"}
PendingRequest == \E c \in Requests : at[c] = "queueing"

\* To the job of the session's assembly, a step adds one, or gives it up;
Queued == assemblies' > 0
GivenUp == parked'
\* announces or claims it;
Announced == Pending' /\ (up' \/ status' = "READY")
\* begins the assembly, or does not touch it;
Begun == up' /\ status' # "READY"
Waits ==
  /\ up' = up /\ assemblies' >= assemblies
  /\ Pending => Pending'
  /\ PendingRequest => PendingRequest'
  /\ parked => parked'
  /\ status' = "READY" => status = "READY"
  /\ ~up /\ InAssembly' => InAssembly
\* or is the worker's going down and coming back.
Released ==
  /\ up /\ status' = status /\ assemblies' >= assemblies
  /\ parked => parked'
  /\ Pending => assemblies' > 0 \/ parked' \/ Pending'
  /\ Assemblers # {} => assemblies' > 0
Recovered ==
  /\ ~up /\ up' /\ assemblies' = assemblies /\ (parked => parked')
  /\ Pending => Pending'
  /\ status' = "READY" => status = "READY" \/ InAssembly

JobStepOK ==
  Queued \/ GivenUp \/ Announced \/ Begun \/ Waits \/ Released \/ Recovered

LEMMA StillPending ==
  ASSUME ActorsOK, NEW a \in Actors, NEW step, Goto(a, step),
         at[a] \in {"queueing", "claiming"} => step = at[a]
  PROVE  (Pending => Pending') /\ (PendingRequest => PendingRequest')
BY DEF ActorsOK, Actors, Goto, Pending, PendingRequest

LEMMA StillPendingAfter ==
  ASSUME ActorsOK, NEW a \in Actors, Done(a), at[a] \notin {"queueing", "claiming"}
  PROVE  (Pending => Pending') /\ (PendingRequest => PendingRequest')
BY DEF ActorsOK, Actors, Done, Pending, PendingRequest

LEMMA StillPendingBeside ==
  ASSUME ActorsOK, NEW c \in Requests, NEW step, NEW p, Request(c, step, p)
  PROVE  (Pending => Pending') /\ (PendingRequest => PendingRequest')
BY DEF ActorsOK, Actors, Request, Pending, PendingRequest

LEMMA StillPendingWithout ==
  ASSUME ActorsOK, NEW a \in Actors, NEW step, RemoveDirectory(a, step),
         at[a] \notin {"queueing", "claiming"}
  PROVE  (Pending => Pending') /\ (PendingRequest => PendingRequest')
BY DEF ActorsOK, Actors, RemoveDirectory, Pending, PendingRequest

LEMMA NowPending ==
  ASSUME ActorsOK, NEW a \in Actors, NEW step \in {"queueing", "claiming"}, Goto(a, step)
  PROVE  Pending'
BY DEF ActorsOK, Goto, Pending

\* Every step is one of these.
LEMMA NextJob == Typed /\ [Next]_vars => JobStepOK
<1> SUFFICES ASSUME Typed, [Next]_vars PROVE JobStepOK
    OBVIOUS
<1> USE DEF Typed
<1>1. ASSUME NEW c \in Requests, NEW p \in Parts, PartArrives(c, p) PROVE JobStepOK
    BY <1>1, StillPendingBeside
       DEF PartArrives, JobStepOK, Waits, TablesOK, session, queue, history, SetStatus, SetRow,
          InAssembly, Actors
<1>2. ASSUME NEW c \in Requests, NEW p \in Parts, PutCheck(c, p) PROVE JobStepOK
    BY <1>2, StillPendingBeside
       DEF PutCheck, JobStepOK, Waits, TablesOK, session, queue, history, SetStatus, SetRow,
          InAssembly, Actors
<1>3. ASSUME NEW c \in Requests, Finish(c) PROVE JobStepOK
    BY <1>3, StillPendingBeside
       DEF Finish, JobStepOK, Waits, TablesOK, session, queue, history, SetStatus, SetRow,
          InAssembly, Actors
<1>4. ASSUME NEW c \in Requests, FindExpired(c) PROVE JobStepOK
    BY <1>4, StillPendingBeside
       DEF FindExpired, JobStepOK, Waits, TablesOK, session, queue, history, SetStatus, SetRow,
          InAssembly, Actors
<1>5. ASSUME NEW c \in Requests, Cancel(c) PROVE JobStepOK
  <2>1. (Pending => Pending') /\ (PendingRequest => PendingRequest')
      BY <1>5, StillPendingBeside DEF Cancel, Actors
  <2>2. up' = up /\ assemblies' = assemblies /\ parked' = parked /\ status' = status
      BY <1>5 DEF Cancel, history, session, queue, SetStatus, SetRow
  <2> QED
      BY <2>1, <2>2 DEF JobStepOK, Waits, TablesOK, InAssembly
<1>6. ASSUME NEW c \in Requests, Close(c) PROVE JobStepOK
    BY <1>6, StillPendingBeside
       DEF Close, JobStepOK, Waits, TablesOK, session, queue, history, SetStatus, SetRow,
          InAssembly, Actors
<1>7. ASSUME NEW c \in Requests, Retry(c) PROVE JobStepOK
    BY <1>7, StillPendingBeside
       DEF Retry, JobStepOK, Waits, TablesOK, session, queue, history, SetStatus, SetRow,
          InAssembly, Actors
<1>8. ASSUME NEW c \in Requests, Upsert(c) PROVE JobStepOK
    BY <1>8, StillPending
       DEF Upsert, JobStepOK, Waits, TablesOK, session, queue, history, SetStatus, SetRow,
          InAssembly, Actors
<1>9. ASSUME NEW c \in Requests, EnqueuePart(c) PROVE JobStepOK
    BY <1>9, StillPendingAfter
       DEF EnqueuePart, JobStepOK, Waits, TablesOK, session, queue, history, SetStatus, SetRow,
          InAssembly, Actors
<1>10. ASSUME NEW c \in Requests, Stream(c) PROVE JobStepOK
    BY <1>10, StillPending
       DEF Stream, JobStepOK, Waits, TablesOK, session, queue, history, SetStatus, SetRow,
          InAssembly, Actors
<1>11. ASSUME NEW c \in Requests, Store(c) PROVE JobStepOK
    BY <1>11, StillPendingAfter
       DEF Store, JobStepOK, Waits, TablesOK, session, queue, history, SetStatus, SetRow,
          InAssembly, Actors
<1>12. ASSUME NEW c \in Requests, StreamBreaks(c) PROVE JobStepOK
    BY <1>12, StillPendingAfter
       DEF StreamBreaks, JobStepOK, Waits, TablesOK, session, queue, history, SetStatus, SetRow,
          InAssembly, Actors
<1>13. ASSUME NEW c \in Requests, CancelJobs(c) PROVE JobStepOK
  <2>1. CASE assemblies > 0
      BY <1>13, <2>1 DEF CancelJobs, JobStepOK, GivenUp
  <2>2. CASE ~(assemblies > 0)
    <3>1. (Pending => Pending') /\ (PendingRequest => PendingRequest')
        BY <1>13, StillPending DEF CancelJobs, Actors
    <3>2. up' = up /\ status' = status /\ assemblies' = 0
        BY <1>13 DEF CancelJobs, session
    <3>3. assemblies = 0
        BY <2>2 DEF TablesOK
    <3>4. parked => parked'
        BY <1>13 DEF CancelJobs
    <3> QED
        BY <3>1, <3>2, <3>3, <3>4 DEF JobStepOK, Waits, InAssembly
  <2> QED
      BY <2>1, <2>2
<1>14. ASSUME NEW c \in Requests, CloseRow(c) PROVE JobStepOK
    BY <1>14, StillPending
       DEF CloseRow, JobStepOK, Waits, TablesOK, session, queue, history, SetStatus, SetRow,
          InAssembly, Actors
<1>15. ASSUME NEW c \in Requests, Reopen(c) PROVE JobStepOK
    BY <1>15, StillPending
       DEF Reopen, JobStepOK, Waits, TablesOK, session, queue, history, SetStatus, SetRow,
          InAssembly, Actors
<1>16. ASSUME NEW c \in Requests, Requeue(c) PROVE JobStepOK
    BY <1>16, StillPending, StillPendingAfter
       DEF Requeue, JobStepOK, Waits, TablesOK, session, queue, history, SetStatus, SetRow,
          InAssembly, Actors
<1>17. ASSUME NEW c \in Requests, CutOff(c) PROVE JobStepOK
  <2>1. CASE at[c] = "queueing"
      BY <1>17, <2>1 DEF CutOff, JobStepOK, GivenUp
  <2>2. CASE at[c] # "queueing"
    <3>1. at[c] # "claiming"
        BY <1>17 DEF ActorsOK, Actors, Plays, RequestSteps
    <3>2. (Pending => Pending') /\ (PendingRequest => PendingRequest')
        BY <1>17, <2>2, <3>1, StillPendingAfter DEF CutOff, Actors
    <3>3. up' = up /\ status' = status /\ assemblies' = assemblies
        BY <1>17 DEF CutOff, session, queue
    <3>4. parked => parked'
        BY <1>17 DEF CutOff
    <3> QED
        BY <3>2, <3>3, <3>4 DEF JobStepOK, Waits, InAssembly, TablesOK
  <2> QED
      BY <2>1, <2>2
<1>18. ASSUME NEW s \in Slots, ClaimAssembly(s) PROVE JobStepOK
    BY <1>18, NowPending DEF ClaimAssembly, JobStepOK, Announced, Actors
<1>19. ASSUME NEW s \in Slots, NEW p \in Parts, ClaimDownload(s, p) PROVE JobStepOK
  <2>1. /\ at[s] = "idle" /\ \A a \in Actors \ {s} : at'[a] = at[a]
        /\ s \notin Requests
      BY <1>19, ActorsType DEF ClaimDownload, ActorsOK
  <2>2. (Pending => Pending') /\ (PendingRequest => PendingRequest')
      BY <2>1 DEF Pending, PendingRequest, Actors
  <2>3. up' = up /\ assemblies' = assemblies /\ parked' = parked /\ status' = status
      BY <1>19 DEF ClaimDownload, session
  <2> QED
      BY <2>2, <2>3 DEF JobStepOK, Waits, TablesOK, InAssembly
<1>20. ASSUME NEW s \in Slots, MarkDownloading(s) PROVE JobStepOK
    BY <1>20, StillPending
       DEF MarkDownloading, JobStepOK, Waits, TablesOK, session, queue, history, SetStatus,
          SetRow, InAssembly, Actors
<1>21. ASSUME NEW s \in Slots, Fetch(s) PROVE JobStepOK
    BY <1>21, StillPending, StillPendingAfter
       DEF Fetch, JobStepOK, Waits, TablesOK, session, queue, history, SetStatus, SetRow,
          InAssembly, Actors
<1>22. ASSUME NEW s \in Slots, MarkReady(s) PROVE JobStepOK
    BY <1>22, StillPending
       DEF MarkReady, JobStepOK, Waits, TablesOK, session, queue, history, SetStatus, SetRow,
          InAssembly, Actors
<1>23. ASSUME NEW s \in Slots, MaybeFinalise(s) PROVE JobStepOK
    BY <1>23, StillPending, StillPendingAfter
       DEF MaybeFinalise, JobStepOK, Waits, TablesOK, session, queue, history, SetStatus,
          SetRow, InAssembly, Actors
<1>24. ASSUME NEW s \in Slots, FailDownload(s) PROVE JobStepOK
  <2>1. CASE at[s] = "queueing"
      BY <1>24, <2>1 DEF FailDownload, JobStepOK, GivenUp
  <2>2. CASE at[s] # "queueing"
    <3>1. at[s] \notin {"queueing", "claiming"}
        BY <1>24, <2>2 DEF FailDownload, Downloading
    <3>2. (Pending => Pending') /\ (PendingRequest => PendingRequest')
        BY <1>24, <3>1, StillPending, StillPendingAfter DEF FailDownload, Actors
    <3>3. up' = up /\ status' = status /\ assemblies' = assemblies
        BY <1>24 DEF FailDownload, session
    <3>4. parked => parked'
        BY <1>24 DEF FailDownload
    <3> QED
        BY <3>2, <3>3, <3>4 DEF JobStepOK, Waits, InAssembly, TablesOK
  <2> QED
      BY <2>1, <2>2
<1>25. ASSUME NEW s \in Slots, MarkPartFailed(s) PROVE JobStepOK
  <2>1. (Pending => Pending') /\ (PendingRequest => PendingRequest')
      BY <1>25, StillPendingAfter DEF MarkPartFailed, Actors
  <2>2. up' = up /\ assemblies' = assemblies /\ parked' = parked /\ status' = status
      BY <1>25 DEF MarkPartFailed, history, session, queue, SetStatus, SetRow
  <2> QED
      BY <2>1, <2>2 DEF JobStepOK, Waits, TablesOK, InAssembly
<1>26. ASSUME NEW s \in Slots, ClaimSession(s) PROVE JobStepOK
  <2>1. up
      BY <1>26 DEF ClaimSession, ActorsOK, Actors, Plays
  <2>2. CASE status = "READY"
      BY <1>26, <2>1, <2>2 DEF ClaimSession, SetStatus, JobStepOK, Begun
  <2>3. CASE status # "READY"
      BY <1>26, <2>1, <2>3 DEF ClaimSession, session, JobStepOK, Begun
  <2> QED
      BY <2>2, <2>3
<1>27. ASSUME NEW s \in Slots, ListParts(s) PROVE JobStepOK
  <2>1. /\ at[s] = "listing" /\ \A a \in Actors \ {s} : at'[a] = at[a]
        /\ s \notin Requests
      BY <1>27, ActorsType DEF ListParts, ActorsOK
  <2>2. (Pending => Pending') /\ (PendingRequest => PendingRequest')
      BY <2>1 DEF Pending, PendingRequest, Actors
  <2>3. up' = up /\ assemblies' = assemblies /\ parked' = parked /\ status' = status
      BY <1>27 DEF ListParts, session, queue, history
  <2> QED
      BY <2>2, <2>3 DEF JobStepOK, Waits, TablesOK, InAssembly
<1>28. ASSUME NEW s \in Slots, Concatenate(s) PROVE JobStepOK
    BY <1>28, StillPending
       DEF Concatenate, JobStepOK, Waits, TablesOK, session, queue, history, SetStatus, SetRow,
          InAssembly, Actors
<1>29. ASSUME NEW s \in Slots, Verify(s) PROVE JobStepOK
  <2>1. up
      BY <1>29 DEF Verify, ActorsOK, Actors, Plays
  <2>2. up' /\ status' # "READY"
      BY <1>29, <2>1 DEF Verify, SetStatus
  <2> QED
      BY <2>2 DEF JobStepOK, Begun
<1>30. ASSUME NEW s \in Slots, HandOff(s) PROVE JobStepOK
  <2>1. (Pending => Pending') /\ (PendingRequest => PendingRequest')
      BY <1>30, StillPending DEF HandOff, Actors
  <2>2. up' = up /\ assemblies' = assemblies /\ parked' = parked /\ status' = "COMPLETED"
      BY <1>30 DEF HandOff, history, session, queue, SetStatus, SetRow
  <2> QED
      BY <2>1, <2>2 DEF JobStepOK, Waits, TablesOK, InAssembly
<1>31. ASSUME NEW s \in Slots, AuditFails(s) PROVE JobStepOK
    BY <1>31, StillPendingWithout
       DEF AuditFails, JobStepOK, Waits, TablesOK, session, queue, history, SetStatus, SetRow,
          InAssembly, Actors
<1>32. ASSUME NEW s \in Slots, Disown(s) PROVE JobStepOK
    BY <1>32 DEF Disown, JobStepOK, Queued, GivenUp, TablesOK
<1>33. ASSUME NEW s \in Slots, FailAssembly(s) PROVE JobStepOK
  <2>1. CASE assemblies' = assemblies + 1
      BY <2>1 DEF JobStepOK, Queued, TablesOK
  <2>2. CASE parked'
      BY <2>2 DEF JobStepOK, GivenUp
  <2>3. CASE status' = "FAILED" /\ UNCHANGED assemblies
    <3>1. at[s] \notin {"queueing", "claiming"}
        BY <1>33 DEF FailAssembly, Assembling
    <3>2. (Pending => Pending') /\ (PendingRequest => PendingRequest')
        BY <1>33, <3>1, StillPendingAfter DEF FailAssembly, Actors
    <3>3. up' = up
        BY <1>33 DEF FailAssembly
    <3>4. parked => parked'
        BY <1>33, Zenon DEF FailAssembly
    <3> QED
        BY <2>3, <3>2, <3>3, <3>4 DEF JobStepOK, Waits, InAssembly, TablesOK
  <2>4. status' \in {"READY", "FAILED"}
      BY <1>33 DEF FailAssembly, SetStatus
  <2>5. \/ assemblies' = assemblies + 1
        \/ UNCHANGED assemblies /\ parked' = (parked \/ status' = "READY")
      BY <1>33 DEF FailAssembly
  <2> QED
      BY <2>1, <2>2, <2>3, <2>4, <2>5
<1>34. ASSUME NEW s \in Slots, Drop(s) PROVE JobStepOK
    BY <1>34, StillPending
       DEF Drop, JobStepOK, Waits, TablesOK, session, queue, history, SetStatus, SetRow,
          InAssembly, Actors
<1>35. ASSUME NEW a \in Actors, Check(a) PROVE JobStepOK
    BY <1>35, StillPending, StillPendingAfter
       DEF Check, JobStepOK, Waits, TablesOK, session, queue, history, SetStatus, SetRow,
          InAssembly, Actors
<1>36. ASSUME NEW a \in Actors, Arm(a) PROVE JobStepOK
    BY <1>36, NowPending DEF Arm, SetStatus, JobStepOK, Announced
<1>37. ASSUME NEW a \in Actors, Queue(a) PROVE JobStepOK
    BY <1>37 DEF Queue, JobStepOK, Queued, TablesOK
<1>38. ASSUME NEW a \in Actors, Clean(a) PROVE JobStepOK
    BY <1>38, StillPendingWithout
       DEF Clean, JobStepOK, Waits, TablesOK, session, queue, history, SetStatus, SetRow,
          InAssembly, Actors
<1>39. CASE Begin
    BY <1>39 DEF Begin, actors, Pending, PendingRequest, JobStepOK, Waits, TablesOK, session,
       queue, history, SetStatus, SetRow, InAssembly, Actors
<1>40. CASE WorkerCrash
  <2> DEFINE Lost == {s \in Slots : at[s] # "idle" /\ part[s] = 0}
  <2>1. /\ up /\ status' = status /\ (parked => parked')
        /\ assemblies' = assemblies + Cardinality(Lost)
      BY <1>40 DEF WorkerCrash, session
  <2>2. Cardinality(Lost) \in Nat /\ (Lost # {} => Cardinality(Lost) > 0)
      BY SlotsCount
  <2>3. Assemblers # {} => Lost # {}
      BY DEF Assemblers, Assembling, Downloading, ActorsOK, Actors, Plays
  <2>4. ASSUME NEW a \in Actors, at[a] \in {"queueing", "claiming"}
        PROVE  Lost # {} \/ parked' \/ Pending'
    <3>1. CASE a \in Slots /\ at[a] = "queueing"
        BY <1>40, <3>1 DEF WorkerCrash
    <3>2. CASE a \in Slots /\ at[a] = "claiming"
        BY <3>2 DEF Downloading, ActorsOK, Plays
    <3>3. CASE a \notin Slots
        BY <1>40, <2>4, <3>3 DEF WorkerCrash, Pending
    <3> QED
        BY <2>4, <3>1, <3>2, <3>3
  <2> HIDE DEF Lost
  <2>5. assemblies' >= assemblies /\ (Lost # {} => assemblies' > 0)
      BY <2>1, <2>2 DEF TablesOK
  <2>6. Pending => assemblies' > 0 \/ parked' \/ Pending'
      BY <2>4, <2>5 DEF Pending
  <2> QED
      BY <2>1, <2>3, <2>5, <2>6 DEF JobStepOK, Released
<1>41. CASE Restart
    BY <1>41 DEF Restart, actors, Pending, JobStepOK, Recovered, SetStatus, InAssembly, queue,
       history
<1>42. CASE UNCHANGED vars
    BY <1>42 DEF vars, actors, Pending, PendingRequest, JobStepOK, Waits, TablesOK, session,
       queue, history, SetStatus, SetRow, InAssembly, Actors
<1> QED
    BY <1>1, <1>2, <1>3, <1>4, <1>5, <1>6, <1>7, <1>8, <1>9, <1>10, <1>11, <1>12, <1>13, <1>14,
       <1>15, <1>16, <1>17, <1>18, <1>19, <1>20, <1>21, <1>22, <1>23, <1>24, <1>25, <1>26,
       <1>27, <1>28, <1>29, <1>30, <1>31, <1>32, <1>33, <1>34, <1>35, <1>36, <1>37, <1>38,
       <1>39, <1>40, <1>41, <1>42
       DEF Next, NewRequest, RequestStep, ClaimJob, JobStep

LEMMA NextReady ==
  Typed /\ AssemblyIsAttended /\ ReadyIsAttended /\ [Next]_vars => ReadyIsAttended'
<1> SUFFICES ASSUME Typed, AssemblyIsAttended, ReadyIsAttended, [Next]_vars, ~parked'
             PROVE  ReadyIsAttended'
    BY DEF ReadyIsAttended
<1>1. JobStepOK /\ assemblies \in Nat /\ assemblies' \in Nat
    BY NextJob, NextTables DEF Typed, TablesOK
<1>2. PendingRequest => Pending
    BY DEF PendingRequest, Pending, Actors
<1>3. /\ status = "READY" /\ ~parked => assemblies > 0 \/ Pending
      /\ ~up /\ InAssembly /\ ~parked => assemblies > 0 \/ PendingRequest
      /\ up /\ InAssembly => Assemblers # {}
    BY DEF ReadyIsAttended, AssemblyIsAttended, Pending, PendingRequest, InAssembly
<1> SUFFICES /\ status' = "READY" => assemblies' > 0 \/ Pending'
             /\ ~up' /\ InAssembly' => assemblies' > 0 \/ PendingRequest'
    BY DEF ReadyIsAttended, Pending, PendingRequest
<1>4. CASE Queued
    BY <1>4 DEF Queued
<1>5. CASE Announced
    BY <1>5 DEF Announced, InAssembly
<1>6. CASE Begun
    BY <1>6 DEF Begun
<1>7. CASE Waits
    BY <1>1, <1>3, <1>7 DEF Waits
<1>8. CASE Released
    BY <1>1, <1>3, <1>8 DEF Released, InAssembly
<1>9. CASE Recovered
    BY <1>1, <1>2, <1>3, <1>9 DEF Recovered
<1> QED
    BY <1>1, <1>4, <1>5, <1>6, <1>7, <1>8, <1>9 DEF JobStepOK, GivenUp

-----------------------------------------------------------------------------
(* A part on its way *)

OnItsWay(p) == row[p] \in {"PENDING", "DOWNLOADING"} /\ p \notin orphans
Handled(p) == \E a \in Actors : part[a] = p /\ at[a] \in Handling
Attended(p) == downloads[p] > 0 \/ Handled(p)

\* A step attends to a part, finishes with it, or leaves it as it is.
PartKept(p) ==
  \/ Attended(p)'
  \/ ~OnItsWay(p)'
  \/ (OnItsWay(p)' => OnItsWay(p)) /\ (Attended(p) => Attended(p)')

LEMMA HandledOn ==
  ASSUME ActorsOK, NEW a \in Actors, NEW step, Goto(a, step),
         at[a] \in Handling => step \in Handling, NEW p \in Parts
  PROVE  /\ Handled(p) => Handled(p)'
         /\ part[a] = p /\ step \in Handling => Handled(p)'
BY DEF ActorsOK, Goto, Handled

LEMMA HandledBeside ==
  ASSUME ActorsOK, NEW a \in Actors, NEW p \in Parts, part[a] # p \/ at[a] \notin Handling,
         Done(a) \/ \E step : Goto(a, step)
  PROVE  Handled(p) => Handled(p)'
BY DEF ActorsOK, Goto, Done, Handled

LEMMA HandledThrough ==
  ASSUME ActorsOK, NEW c \in Actors, at[c] \notin Handling, NEW step, NEW q, NEW p \in Parts,
         at' = [at EXCEPT ![c] = step], part' = [part EXCEPT ![c] = q]
  PROVE  /\ Handled(p) => Handled(p)'
         /\ q = p /\ step \in Handling => Handled(p)'
BY DEF ActorsOK, Handled

LEMMA HandledWithout ==
  ASSUME ActorsOK, NEW a \in Actors, NEW step, RemoveDirectory(a, step), NEW p \in Parts,
         at[a] \notin Handling
  PROVE  Handled(p) => Handled(p)'
<1> SUFFICES ASSUME NEW b \in Actors, part[b] = p, at[b] \in Handling PROVE Handled(p)'
    BY DEF Handled
<1>1. b # a
    OBVIOUS
<1>2. part'[b] = p /\ at'[b] \in {at[b], "lost"}
    BY <1>1 DEF ActorsOK, RemoveDirectory
<1> QED
    BY <1>2 DEF Handled, Handling, HoldingPart

\* Every step does, for every part.
LEMMA NextPart == Typed /\ [Next]_vars => \A p \in Parts : PartKept(p)
<1> SUFFICES ASSUME Typed, [Next]_vars, NEW q \in Parts PROVE PartKept(q)
    OBVIOUS
<1> USE DEF Typed
<1>1. ASSUME NEW c \in Requests, NEW p \in Parts, 
             PartArrives(c, p)
      PROVE  PartKept(q)
  <2>1. Handled(q) => Handled(q)'
      BY <1>1, HandledThrough DEF PartArrives, Request, Actors, Handling, HoldingPart
  <2> QED
      BY <1>1, <2>1 DEF PartArrives, files, queue, history, PartKept, OnItsWay, Attended
<1>2. ASSUME NEW c \in Requests, NEW p \in Parts, 
             PutCheck(c, p)
      PROVE  PartKept(q)
  <2>1. Handled(q) => Handled(q)'
      BY <1>2, HandledThrough DEF PutCheck, Request, Actors, Handling, HoldingPart
  <2> QED
      BY <1>2, <2>1 DEF PutCheck, files, queue, history, PartKept, OnItsWay, Attended
<1>3. ASSUME NEW c \in Requests, Finish(c) PROVE PartKept(q)
  <2>1. Handled(q) => Handled(q)'
      BY <1>3, HandledThrough DEF Finish, Request, Actors, Handling, HoldingPart
  <2> QED
      BY <1>3, <2>1 DEF Finish, files, queue, history, PartKept, OnItsWay, Attended
<1>4. ASSUME NEW c \in Requests, FindExpired(c) PROVE PartKept(q)
  <2>1. Handled(q) => Handled(q)'
      BY <1>4, HandledThrough DEF FindExpired, Request, Actors, Handling, HoldingPart
  <2> QED
      BY <1>4, <2>1 DEF FindExpired, files, queue, history, PartKept, OnItsWay, Attended
<1>5. ASSUME NEW c \in Requests, Cancel(c) PROVE PartKept(q)
  <2>1. Handled(q) => Handled(q)'
      BY <1>5, HandledThrough DEF Cancel, Request, Actors, Handling, HoldingPart
  <2> QED
      BY <1>5, <2>1 DEF Cancel, files, queue, history, PartKept, OnItsWay, Attended
<1>6. ASSUME NEW c \in Requests, Close(c) PROVE PartKept(q)
  <2>1. Handled(q) => Handled(q)'
      BY <1>6, HandledThrough DEF Close, Request, Actors, Handling, HoldingPart
  <2> QED
      BY <1>6, <2>1 DEF Close, files, queue, history, PartKept, OnItsWay, Attended
<1>7. ASSUME NEW c \in Requests, Retry(c) PROVE PartKept(q)
  <2>1. Handled(q) => Handled(q)'
      BY <1>7, HandledThrough DEF Retry, Request, Actors, Handling, HoldingPart
  <2> QED
      BY <1>7, <2>1 DEF Retry, files, queue, history, PartKept, OnItsWay, Attended
<1>8. ASSUME NEW c \in Requests, Upsert(c) PROVE PartKept(q)
  <2>1. (Handled(q) => Handled(q)') /\ (part[c] = q => Handled(q)')
      BY <1>8, HandledOn DEF Upsert, Actors, Handling, HoldingPart
  <2>2. part[c] # q => row'[q] = row[q] /\ (q \in orphans' <=> q \in orphans)
      BY <1>8 DEF Upsert, SetRow, TablesOK
  <2> QED
      BY <1>8, <2>1, <2>2 DEF Upsert, queue, PartKept, OnItsWay, Attended
<1>9. ASSUME NEW c \in Requests, EnqueuePart(c) PROVE PartKept(q)
  <2>1. CASE part[c] = q
    <3>1. downloads'[q] > 0
        BY <1>9, <2>1 DEF EnqueuePart, TablesOK
    <3> QED
        BY <3>1 DEF PartKept, OnItsWay, Attended
  <2>2. CASE part[c] # q
    <3>1. Handled(q) => Handled(q)'
        BY <1>9, <2>2, HandledBeside DEF EnqueuePart, Actors
    <3>2. downloads'[q] = downloads[q] /\ row' = row /\ (q \in orphans' <=> q \in orphans)
        BY <1>9, <2>2 DEF EnqueuePart, files, TablesOK
    <3> QED
        BY <3>1, <3>2 DEF PartKept, OnItsWay, Attended
  <2> QED
      BY <2>1, <2>2
<1>10. ASSUME NEW c \in Requests, Stream(c) PROVE PartKept(q)
  <2>1. Handled(q) => Handled(q)'
      BY <1>10, HandledOn DEF Stream, Actors, Handling, HoldingPart
  <2> QED
      BY <1>10, <2>1 DEF Stream, queue, history, PartKept, OnItsWay, Attended
<1>11. ASSUME NEW c \in Requests, Store(c) PROVE PartKept(q)
  <2>1. CASE part[c] = q
    <3>1. row'[q] = "READY"
        BY <1>11, <2>1 DEF Store, SetRow, TablesOK
    <3> QED
        BY <3>1 DEF PartKept, OnItsWay, Attended
  <2>2. CASE part[c] # q
    <3>1. Handled(q) => Handled(q)'
        BY <1>11, <2>2, HandledBeside DEF Store, Actors
    <3>2. row'[q] = row[q] /\ orphans' = orphans /\ downloads' = downloads
        BY <1>11, <2>2 DEF Store, SetRow, queue, TablesOK
    <3> QED
        BY <3>1, <3>2 DEF PartKept, OnItsWay, Attended
  <2> QED
      BY <2>1, <2>2
<1>12. ASSUME NEW c \in Requests, StreamBreaks(c) PROVE PartKept(q)
  <2>1. CASE part[c] = q
    <3>1. row'[q] = "FAILED" \/ q \in orphans'
        BY <1>12, <2>1 DEF StreamBreaks, SetRow, TablesOK
    <3> QED
        BY <3>1 DEF PartKept, OnItsWay, Attended
  <2>2. CASE part[c] # q
    <3>1. Handled(q) => Handled(q)'
        BY <1>12, <2>2, HandledBeside DEF StreamBreaks, Actors
    <3>2. row'[q] = row[q] /\ (q \in orphans' <=> q \in orphans) /\ downloads' = downloads
        BY <1>12, <2>2 DEF StreamBreaks, SetRow, queue, TablesOK
    <3> QED
        BY <3>1, <3>2 DEF PartKept, OnItsWay, Attended
  <2> QED
      BY <2>1, <2>2
<1>13. ASSUME NEW c \in Requests, CancelJobs(c) PROVE PartKept(q)
  <2>1. Handled(q) => Handled(q)'
      BY <1>13, HandledBeside DEF CancelJobs, Actors, Handling, HoldingPart
  <2>2. row' = row /\ (q \in orphans' <=> q \in orphans \/ downloads[q] > 0)
      BY <1>13 DEF CancelJobs, files
  <2> QED
      BY <2>1, <2>2 DEF PartKept, OnItsWay, Attended
<1>14. ASSUME NEW c \in Requests, CloseRow(c) PROVE PartKept(q)
  <2>1. Handled(q) => Handled(q)'
      BY <1>14, HandledBeside DEF CloseRow, Actors, Handling, HoldingPart
  <2> QED
      BY <1>14, <2>1 DEF CloseRow, files, queue, history, PartKept, OnItsWay, Attended
<1>15. ASSUME NEW c \in Requests, Reopen(c) PROVE PartKept(q)
  <2>1. Handled(q) => Handled(q)'
      BY <1>15, HandledBeside DEF Reopen, Actors, Handling, HoldingPart
  <2> QED
      BY <1>15, <2>1 DEF Reopen, files, queue, history, PartKept, OnItsWay, Attended
<1>16. ASSUME NEW c \in Requests, Requeue(c) PROVE PartKept(q)
  <2>1. Handled(q) => Handled(q)'
      BY <1>16, HandledBeside DEF Requeue, Actors, Handling, HoldingPart
  <2>2. CASE row[q] = "FAILED"
    <3>1. downloads'[q] > 0
        BY <1>16, <2>2 DEF Requeue, TablesOK
    <3> QED
        BY <3>1 DEF PartKept, OnItsWay, Attended
  <2>3. CASE row[q] # "FAILED"
    <3>1. row'[q] = row[q] /\ downloads'[q] = downloads[q] /\ (q \in orphans' <=> q \in orphans)
        BY <1>16, <2>3 DEF Requeue, TablesOK
    <3> QED
        BY <2>1, <3>1 DEF PartKept, OnItsWay, Attended
  <2> QED
      BY <2>2, <2>3
<1>17. ASSUME NEW c \in Requests, CutOff(c) PROVE PartKept(q)
  <2>1. CASE part[c] = q
    <3>1. q \in orphans'
        BY <1>17, <2>1 DEF CutOff, Parts
    <3> QED
        BY <3>1 DEF PartKept, OnItsWay, Attended
  <2>2. CASE part[c] # q
    <3>1. Handled(q) => Handled(q)'
        BY <1>17, <2>2, HandledBeside DEF CutOff, Actors
    <3>2. row' = row /\ (q \in orphans' <=> q \in orphans) /\ downloads' = downloads
        BY <1>17, <2>2 DEF CutOff, files, queue
    <3> QED
        BY <3>1, <3>2 DEF PartKept, OnItsWay, Attended
  <2> QED
      BY <2>1, <2>2
<1>18. ASSUME NEW s \in Slots, ClaimAssembly(s) PROVE PartKept(q)
  <2>1. Handled(q) => Handled(q)'
      BY <1>18, HandledBeside DEF ClaimAssembly, Actors, Assembling, Handling, HoldingPart
  <2> QED
      BY <1>18, <2>1 DEF ClaimAssembly, files, queue, history, PartKept, OnItsWay, Attended
<1>19. ASSUME NEW s \in Slots, NEW p \in Parts, 
             ClaimDownload(s, p)
      PROVE  PartKept(q)
  <2>1. CASE cancelRequested \/ status = "CANCELLED"
    <3>1. /\ at' = [at EXCEPT ![s] = "idle"] /\ part' = [part EXCEPT ![s] = 0]
          /\ orphans' = orphans \cup {p} /\ at[s] = "idle"
        BY <1>19, <2>1 DEF ClaimDownload
    <3>2. Handled(q) => Handled(q)'
        BY <3>1, HandledThrough DEF Actors, Handling, HoldingPart
    <3>3. q # p => downloads'[q] = downloads[q] /\ row' = row
        BY <1>19 DEF ClaimDownload, files, TablesOK
    <3> QED
        BY <3>1, <3>2, <3>3 DEF PartKept, OnItsWay, Attended
  <2>2. CASE ~(cancelRequested \/ status = "CANCELLED")
    <3>1. /\ at' = [at EXCEPT ![s] = "marking"] /\ part' = [part EXCEPT ![s] = p]
          /\ orphans' = orphans /\ at[s] = "idle"
        BY <1>19, <2>2 DEF ClaimDownload
    <3>2. (Handled(q) => Handled(q)') /\ (p = q => Handled(q)')
        BY <3>1, HandledThrough DEF Actors, Handling, HoldingPart
    <3>3. q # p => downloads'[q] = downloads[q] /\ row' = row
        BY <1>19 DEF ClaimDownload, files, TablesOK
    <3> QED
        BY <3>1, <3>2, <3>3 DEF PartKept, OnItsWay, Attended
  <2> QED
      BY <2>1, <2>2
<1>20. ASSUME NEW s \in Slots, MarkDownloading(s) PROVE PartKept(q)
  <2>1. (Handled(q) => Handled(q)') /\ (part[s] = q => Handled(q)')
      BY <1>20, HandledOn DEF MarkDownloading, Actors, Handling, HoldingPart
  <2>2. part[s] # q => row'[q] = row[q] /\ orphans' = orphans
      BY <1>20 DEF MarkDownloading, SetRow, TablesOK
  <2> QED
      BY <1>20, <2>1, <2>2 DEF MarkDownloading, queue, PartKept, OnItsWay, Attended
<1>21. ASSUME NEW s \in Slots, Fetch(s) PROVE PartKept(q)
  <2>1. CASE cancelRequested
    <3>1. CASE part[s] = q
        BY <1>21, <2>1, <3>1 DEF Fetch, PartKept, OnItsWay, Attended
    <3>2. CASE part[s] # q
      <4>1. Handled(q) => Handled(q)'
          BY <1>21, <2>1, <3>2, HandledBeside DEF Fetch, Actors
      <4>2. row'[q] = row[q] /\ downloads' = downloads /\ (q \in orphans' <=> q \in orphans)
          BY <1>21, <2>1, <3>2 DEF Fetch, SetRow, queue, TablesOK
      <4> QED
          BY <4>1, <4>2 DEF PartKept, OnItsWay, Attended
    <3> QED
        BY <3>1, <3>2
  <2>2. CASE ~cancelRequested
    <3>1. Handled(q) => Handled(q)'
        BY <1>21, <2>2, HandledOn DEF Fetch, Actors, Handling, HoldingPart
    <3> QED
        BY <1>21, <2>2, <3>1 DEF Fetch, queue, history, PartKept, OnItsWay, Attended
  <2> QED
      BY <2>1, <2>2
<1>22. ASSUME NEW s \in Slots, MarkReady(s) PROVE PartKept(q)
  <2>1. CASE part[s] = q
    <3>1. row'[q] = "READY"
        BY <1>22, <2>1 DEF MarkReady, SetRow, TablesOK
    <3> QED
        BY <3>1 DEF PartKept, OnItsWay, Attended
  <2>2. CASE part[s] # q
    <3>1. Handled(q) => Handled(q)'
        BY <1>22, <2>2, HandledBeside DEF MarkReady, Actors
    <3>2. row'[q] = row[q] /\ orphans' = orphans /\ downloads' = downloads
        BY <1>22, <2>2 DEF MarkReady, SetRow, queue, TablesOK
    <3> QED
        BY <3>1, <3>2 DEF PartKept, OnItsWay, Attended
  <2> QED
      BY <2>1, <2>2
<1>23. ASSUME NEW s \in Slots, MaybeFinalise(s) PROVE PartKept(q)
  <2>1. Handled(q) => Handled(q)'
      BY <1>23, HandledBeside DEF MaybeFinalise, Actors, Assembling, Handling, HoldingPart
  <2> QED
      BY <1>23, <2>1 DEF MaybeFinalise, files, queue, history, PartKept, OnItsWay, Attended
<1>24. ASSUME NEW s \in Slots, FailDownload(s) PROVE PartKept(q)
  <2>1. row' = row /\ orphans' = orphans
      BY <1>24 DEF FailDownload, files
  <2>2. CASE downloads' = [downloads EXCEPT ![part[s]] = @ + 1] /\ Done(s)
    <3>1. CASE part[s] = q
        BY <2>2, <3>1 DEF TablesOK, PartKept, OnItsWay, Attended
    <3>2. CASE part[s] # q
      <4>1. Handled(q) => Handled(q)'
          BY <2>2, <3>2, HandledBeside DEF Actors
      <4> QED
          BY <2>1, <2>2, <3>2, <4>1 DEF TablesOK, PartKept, OnItsWay, Attended
    <3> QED
        BY <3>1, <3>2
  <2>3. CASE downloads' = downloads /\ Goto(s, "giving up")
    <3>1. Handled(q) => Handled(q)'
        BY <2>3, HandledOn DEF Actors, Handling
    <3> QED
        BY <2>1, <2>3, <3>1 DEF PartKept, OnItsWay, Attended
  <2> QED
      BY <1>24, <2>2, <2>3 DEF FailDownload
<1>25. ASSUME NEW s \in Slots, MarkPartFailed(s) PROVE PartKept(q)
  <2>1. CASE part[s] = q
    <3>1. row'[q] = "FAILED"
        BY <1>25, <2>1 DEF MarkPartFailed, SetRow, TablesOK
    <3> QED
        BY <3>1 DEF PartKept, OnItsWay, Attended
  <2>2. CASE part[s] # q
    <3>1. Handled(q) => Handled(q)'
        BY <1>25, <2>2, HandledBeside DEF MarkPartFailed, Actors
    <3>2. row'[q] = row[q] /\ orphans' = orphans /\ downloads' = downloads
        BY <1>25, <2>2 DEF MarkPartFailed, SetRow, queue, TablesOK
    <3> QED
        BY <3>1, <3>2 DEF PartKept, OnItsWay, Attended
  <2> QED
      BY <2>1, <2>2
<1>26. ASSUME NEW s \in Slots, ClaimSession(s) PROVE PartKept(q)
  <2>1. Handled(q) => Handled(q)'
      BY <1>26, HandledBeside DEF ClaimSession, Actors, Assembling, Handling, HoldingPart
  <2> QED
      BY <1>26, <2>1 DEF ClaimSession, files, queue, history, PartKept, OnItsWay, Attended
<1>27. ASSUME NEW s \in Slots, ListParts(s) PROVE PartKept(q)
  <2>1. at' = [at EXCEPT ![s] = "concatenating"] /\ part' = [part EXCEPT ![s] = part[s]]
      BY <1>27 DEF ListParts, ActorsOK, Actors
  <2>2. Handled(q) => Handled(q)'
      BY <1>27, <2>1, HandledThrough DEF ListParts, Actors, Handling, HoldingPart
  <2> QED
      BY <1>27, <2>2 DEF ListParts, files, queue, history, PartKept, OnItsWay, Attended
<1>28. ASSUME NEW s \in Slots, Concatenate(s) PROVE PartKept(q)
  <2>1. Handled(q) => Handled(q)'
      BY <1>28, HandledBeside DEF Concatenate, Actors, Assembling, Handling, HoldingPart
  <2> QED
      BY <1>28, <2>1 DEF Concatenate, files, queue, history, PartKept, OnItsWay, Attended
<1>29. ASSUME NEW s \in Slots, Verify(s) PROVE PartKept(q)
  <2>1. Handled(q) => Handled(q)'
      BY <1>29, HandledBeside DEF Verify, Actors, Assembling, Handling, HoldingPart
  <2> QED
      BY <1>29, <2>1 DEF Verify, files, queue, history, PartKept, OnItsWay, Attended
<1>30. ASSUME NEW s \in Slots, HandOff(s) PROVE PartKept(q)
  <2>1. Handled(q) => Handled(q)'
      BY <1>30, HandledBeside DEF HandOff, Actors, Assembling, Handling, HoldingPart
  <2> QED
      BY <1>30, <2>1 DEF HandOff, files, queue, history, PartKept, OnItsWay, Attended
<1>31. ASSUME NEW s \in Slots, AuditFails(s) PROVE PartKept(q)
  <2>1. Handled(q) => Handled(q)'
      BY <1>31, HandledWithout DEF AuditFails, Actors, Handling, HoldingPart
  <2> QED
      BY <1>31, <2>1 DEF AuditFails, queue, history, PartKept, OnItsWay, Attended
<1>32. ASSUME NEW s \in Slots, Disown(s) PROVE PartKept(q)
  <2>1. Handled(q) => Handled(q)'
      BY <1>32, HandledBeside DEF Disown, Actors, Assembling, Handling, HoldingPart
  <2> QED
      BY <1>32, <2>1 DEF Disown, files, queue, history, PartKept, OnItsWay, Attended
<1>33. ASSUME NEW s \in Slots, FailAssembly(s) PROVE PartKept(q)
  <2>1. Handled(q) => Handled(q)'
      BY <1>33, HandledBeside DEF FailAssembly, Actors, Assembling, Handling, HoldingPart
  <2> QED
      BY <1>33, <2>1 DEF FailAssembly, files, queue, history, PartKept, OnItsWay, Attended
<1>34. ASSUME NEW s \in Slots, Drop(s) PROVE PartKept(q)
  <2>1. Handled(q) => Handled(q)'
      BY <1>34, HandledBeside DEF Drop, Actors, Assembling, Handling, HoldingPart
  <2> QED
      BY <1>34, <2>1 DEF Drop, files, queue, history, PartKept, OnItsWay, Attended
<1>35. ASSUME NEW a \in Actors, Check(a) PROVE PartKept(q)
  <2>1. Handled(q) => Handled(q)'
      BY <1>35, HandledBeside DEF Check, Handling, HoldingPart
  <2> QED
      BY <1>35, <2>1 DEF Check, files, queue, history, PartKept, OnItsWay, Attended
<1>36. ASSUME NEW a \in Actors, Arm(a) PROVE PartKept(q)
  <2>1. Handled(q) => Handled(q)'
      BY <1>36, HandledBeside DEF Arm, Handling, HoldingPart
  <2> QED
      BY <1>36, <2>1 DEF Arm, files, queue, history, PartKept, OnItsWay, Attended
<1>37. ASSUME NEW a \in Actors, Queue(a) PROVE PartKept(q)
  <2>1. Handled(q) => Handled(q)'
      BY <1>37, HandledBeside DEF Queue, Handling, HoldingPart
  <2> QED
      BY <1>37, <2>1 DEF Queue, files, queue, history, PartKept, OnItsWay, Attended
<1>38. ASSUME NEW a \in Actors, Clean(a) PROVE PartKept(q)
  <2>1. Handled(q) => Handled(q)'
      BY <1>38, HandledWithout DEF Clean, Actors, Handling, HoldingPart
  <2> QED
      BY <1>38, <2>1 DEF Clean, queue, history, PartKept, OnItsWay, Attended
<1>39. CASE Begin
    BY <1>39 DEF Begin, actors, files, queue, history, Handled, PartKept, OnItsWay, Attended
<1>40. CASE WorkerCrash
  <2> DEFINE Freed(p) == {s \in Slots : part[s] = p /\ at[s] \in Downloading}
  <2>1. /\ downloads'[q] = downloads[q] + Cardinality(Freed(q)) /\ row' = row
        /\ orphans \subseteq orphans'
      BY <1>40 DEF WorkerCrash, files
  <2>2. Cardinality(Freed(q)) \in Nat /\ (Freed(q) # {} => Cardinality(Freed(q)) > 0)
      BY SlotsCount
  <2>3. ASSUME NEW a \in Actors, part[a] = q, at[a] \in Handling
        PROVE  Freed(q) # {} \/ q \in orphans' \/ Handled(q)'
    <3>1. CASE a \in Slots /\ at[a] = "giving up"
        BY <1>40, <2>3, <3>1 DEF WorkerCrash
    <3>2. CASE a \in Slots /\ at[a] # "giving up"
        BY <2>3, <3>2 DEF Handling, HoldingPart, Downloading, ActorsOK, Plays, SlotSteps,
           Assembling
    <3>3. CASE a \notin Slots
        BY <1>40, <2>3, <3>3 DEF WorkerCrash, Handled
    <3> QED
        BY <3>1, <3>2, <3>3
  <2> HIDE DEF Freed
  <2>4. /\ downloads[q] > 0 => downloads'[q] > 0
        /\ Freed(q) # {} => downloads'[q] > 0
      BY <2>1, <2>2 DEF TablesOK
  <2>5. Handled(q) => Attended(q)' \/ q \in orphans'
      BY <2>3, <2>4 DEF Handled, Attended
  <2> QED
      BY <2>1, <2>4, <2>5 DEF PartKept, OnItsWay, Attended
<1>41. CASE Restart
  <2>1. Handled(q) => Handled(q)'
      BY <1>41 DEF Restart, actors, Handled
  <2>2. row'[q] \in {"PENDING", "DOWNLOADING"} => row[q] \in {"PENDING", "DOWNLOADING"}
      BY <1>41 DEF Restart
  <2> QED
      BY <1>41, <2>1, <2>2 DEF Restart, queue, history, PartKept, OnItsWay, Attended
<1>42. CASE UNCHANGED vars
    BY <1>42 DEF vars, actors, files, queue, history, Handled, PartKept, OnItsWay, Attended
<1> QED
    BY <1>1, <1>2, <1>3, <1>4, <1>5, <1>6, <1>7, <1>8, <1>9, <1>10, <1>11, <1>12, <1>13, <1>14,
       <1>15, <1>16, <1>17, <1>18, <1>19, <1>20, <1>21, <1>22, <1>23, <1>24, <1>25, <1>26,
       <1>27, <1>28, <1>29, <1>30, <1>31, <1>32, <1>33, <1>34, <1>35, <1>36, <1>37, <1>38,
       <1>39, <1>40, <1>41, <1>42
       DEF Next, NewRequest, RequestStep, ClaimJob, JobStep

LEMMA NextAttendance ==
  Typed /\ PartsAreAttended /\ [Next]_vars => PartsAreAttended'
<1> SUFFICES ASSUME Typed, PartsAreAttended, [Next]_vars, NEW p \in Parts, OnItsWay(p)'
             PROVE  Attended(p)'
    BY DEF PartsAreAttended, OnItsWay, Attended, Handled
<1>1. PartKept(p)
    BY NextPart
<1>2. OnItsWay(p) => Attended(p)
    BY DEF PartsAreAttended, OnItsWay, Attended, Handled
<1> QED
    BY <1>1, <1>2 DEF PartKept

-----------------------------------------------------------------------------
(* What is assembled *)

\* A part that stops being READY after it was promised is noticed.
LEMMA SetRowKeeps ==
  ASSUME TablesOK, NEW p \in Parts, NEW st, SetRow(p, st), PromiseIsKept
  PROVE  PromiseIsKept'
<1>1. promised' = promised
    BY DEF SetRow
<1>2. CASE disturbed
    BY <1>2 DEF SetRow, PromiseIsKept
<1>3. CASE ~disturbed /\ p \in promised /\ st # "READY"
    BY <1>3 DEF SetRow, PromiseIsKept, Ready
<1>4. CASE ~disturbed /\ (p \notin promised \/ st = "READY")
    BY <1>1, <1>4 DEF SetRow, PromiseIsKept, Ready, TablesOK
<1> QED
    BY <1>2, <1>3, <1>4

\* What beginAssembly found READY stays so, or its change is noticed.
LEMMA NextPromise == Typed /\ PromiseIsKept /\ [Next]_vars => PromiseIsKept'
<1> SUFFICES ASSUME Typed /\ PromiseIsKept, [Next]_vars PROVE PromiseIsKept'
    OBVIOUS
<1> USE DEF Typed
<1>1. ASSUME NEW c \in Requests, NEW p \in Parts, PartArrives(c, p) PROVE PromiseIsKept'
    BY <1>1 DEF PartArrives, files, history, PromiseIsKept, Ready
<1>2. ASSUME NEW c \in Requests, NEW p \in Parts, PutCheck(c, p) PROVE PromiseIsKept'
    BY <1>2 DEF PutCheck, files, history, PromiseIsKept, Ready
<1>3. ASSUME NEW c \in Requests, Finish(c) PROVE PromiseIsKept'
    BY <1>3 DEF Finish, files, history, PromiseIsKept, Ready
<1>4. ASSUME NEW c \in Requests, FindExpired(c) PROVE PromiseIsKept'
    BY <1>4 DEF FindExpired, files, history, PromiseIsKept, Ready
<1>5. ASSUME NEW c \in Requests, Cancel(c) PROVE PromiseIsKept'
    BY <1>5 DEF Cancel, files, history, PromiseIsKept, Ready
<1>6. ASSUME NEW c \in Requests, Close(c) PROVE PromiseIsKept'
    BY <1>6 DEF Close, files, history, PromiseIsKept, Ready
<1>7. ASSUME NEW c \in Requests, Retry(c) PROVE PromiseIsKept'
    BY <1>7 DEF Retry, files, history, PromiseIsKept, Ready
<1>8. ASSUME NEW c \in Requests, Upsert(c) PROVE PromiseIsKept'
  <2>1. part[c] \in Parts
      BY <1>8, InHand DEF Upsert, Actors, HoldingPart, Downloading
  <2> QED
      BY <1>8, <2>1, SetRowKeeps DEF Upsert
<1>9. ASSUME NEW c \in Requests, EnqueuePart(c) PROVE PromiseIsKept'
    BY <1>9 DEF EnqueuePart, files, history, PromiseIsKept, Ready
<1>10. ASSUME NEW c \in Requests, Stream(c) PROVE PromiseIsKept'
    BY <1>10 DEF Stream, files, history, PromiseIsKept, Ready
<1>11. ASSUME NEW c \in Requests, Store(c) PROVE PromiseIsKept'
  <2>1. part[c] \in Parts
      BY <1>11, InHand DEF Store, Actors, HoldingPart, Downloading
  <2> QED
      BY <1>11, <2>1, SetRowKeeps DEF Store
<1>12. ASSUME NEW c \in Requests, StreamBreaks(c) PROVE PromiseIsKept'
  <2>1. part[c] \in Parts
      BY <1>12, InHand DEF StreamBreaks, Actors, HoldingPart
  <2>2. CASE SetRow(part[c], "FAILED")
      BY <2>1, <2>2, SetRowKeeps
  <2>3. CASE UNCHANGED <<row, promised, disturbed>>
      BY <2>3 DEF PromiseIsKept, Ready
  <2> QED
      BY <1>12, <2>2, <2>3 DEF StreamBreaks
<1>13. ASSUME NEW c \in Requests, CancelJobs(c) PROVE PromiseIsKept'
    BY <1>13 DEF CancelJobs, files, history, PromiseIsKept, Ready
<1>14. ASSUME NEW c \in Requests, CloseRow(c) PROVE PromiseIsKept'
    BY <1>14 DEF CloseRow, files, history, PromiseIsKept, Ready
<1>15. ASSUME NEW c \in Requests, Reopen(c) PROVE PromiseIsKept'
    BY <1>15 DEF Reopen, files, history, PromiseIsKept, Ready
<1>16. ASSUME NEW c \in Requests, Requeue(c) PROVE PromiseIsKept'
  <2>1. Ready \subseteq Ready'
      BY <1>16 DEF Requeue, Ready
  <2>2. UNCHANGED <<promised, disturbed>>
      BY <1>16 DEF Requeue, history
  <2> QED
      BY <2>1, <2>2 DEF PromiseIsKept
<1>17. ASSUME NEW c \in Requests, CutOff(c) PROVE PromiseIsKept'
    BY <1>17 DEF CutOff, files, history, PromiseIsKept, Ready
<1>18. ASSUME NEW s \in Slots, ClaimAssembly(s) PROVE PromiseIsKept'
    BY <1>18 DEF ClaimAssembly, files, history, PromiseIsKept, Ready
<1>19. ASSUME NEW s \in Slots, NEW p \in Parts, ClaimDownload(s, p) PROVE PromiseIsKept'
    BY <1>19 DEF ClaimDownload, files, history, PromiseIsKept, Ready
<1>20. ASSUME NEW s \in Slots, MarkDownloading(s) PROVE PromiseIsKept'
  <2>1. part[s] \in Parts
      BY <1>20, InHand DEF MarkDownloading, Actors, HoldingPart, Downloading
  <2> QED
      BY <1>20, <2>1, SetRowKeeps DEF MarkDownloading
<1>21. ASSUME NEW s \in Slots, Fetch(s) PROVE PromiseIsKept'
  <2>1. part[s] \in Parts
      BY <1>21, InHand DEF Fetch, Actors, Downloading
  <2>2. CASE SetRow(part[s], "PENDING")
      BY <2>1, <2>2, SetRowKeeps
  <2>3. CASE UNCHANGED <<row, promised, disturbed>>
      BY <2>3 DEF PromiseIsKept, Ready
  <2> QED
      BY <1>21, <2>2, <2>3 DEF Fetch, history
<1>22. ASSUME NEW s \in Slots, MarkReady(s) PROVE PromiseIsKept'
  <2>1. part[s] \in Parts
      BY <1>22, InHand DEF MarkReady, Actors, HoldingPart, Downloading
  <2> QED
      BY <1>22, <2>1, SetRowKeeps DEF MarkReady
<1>23. ASSUME NEW s \in Slots, MaybeFinalise(s) PROVE PromiseIsKept'
    BY <1>23 DEF MaybeFinalise, files, history, PromiseIsKept, Ready
<1>24. ASSUME NEW s \in Slots, FailDownload(s) PROVE PromiseIsKept'
    BY <1>24 DEF FailDownload, files, history, PromiseIsKept, Ready
<1>25. ASSUME NEW s \in Slots, MarkPartFailed(s) PROVE PromiseIsKept'
  <2>1. part[s] \in Parts
      BY <1>25, InHand DEF MarkPartFailed, Actors, HoldingPart, Downloading
  <2> QED
      BY <1>25, <2>1, SetRowKeeps DEF MarkPartFailed
<1>26. ASSUME NEW s \in Slots, ClaimSession(s) PROVE PromiseIsKept'
    BY <1>26 DEF ClaimSession, files, history, PromiseIsKept, Ready
<1>27. ASSUME NEW s \in Slots, ListParts(s) PROVE PromiseIsKept'
    BY <1>27 DEF ListParts, files, history, PromiseIsKept, Ready
<1>28. ASSUME NEW s \in Slots, Concatenate(s) PROVE PromiseIsKept'
    BY <1>28 DEF Concatenate, files, history, PromiseIsKept, Ready
<1>29. ASSUME NEW s \in Slots, Verify(s) PROVE PromiseIsKept'
    BY <1>29 DEF Verify, files, history, PromiseIsKept, Ready
<1>30. ASSUME NEW s \in Slots, HandOff(s) PROVE PromiseIsKept'
    BY <1>30 DEF HandOff, files, history, PromiseIsKept, Ready
<1>31. ASSUME NEW s \in Slots, AuditFails(s) PROVE PromiseIsKept'
    BY <1>31 DEF AuditFails, files, history, PromiseIsKept, Ready
<1>32. ASSUME NEW s \in Slots, Disown(s) PROVE PromiseIsKept'
    BY <1>32 DEF Disown, files, history, PromiseIsKept, Ready
<1>33. ASSUME NEW s \in Slots, FailAssembly(s) PROVE PromiseIsKept'
    BY <1>33 DEF FailAssembly, files, history, PromiseIsKept, Ready
<1>34. ASSUME NEW s \in Slots, Drop(s) PROVE PromiseIsKept'
    BY <1>34 DEF Drop, files, history, PromiseIsKept, Ready
<1>35. ASSUME NEW a \in Actors, Check(a) PROVE PromiseIsKept'
  <2>1. Ready' = Ready
      BY <1>35 DEF Check, files, Ready
  <2>2. promised' = Ready \/ UNCHANGED <<promised, disturbed>>
      BY <1>35 DEF Check
  <2> QED
      BY <2>1, <2>2 DEF PromiseIsKept
<1>36. ASSUME NEW a \in Actors, Arm(a) PROVE PromiseIsKept'
    BY <1>36 DEF Arm, files, history, PromiseIsKept, Ready
<1>37. ASSUME NEW a \in Actors, Queue(a) PROVE PromiseIsKept'
    BY <1>37 DEF Queue, files, history, PromiseIsKept, Ready
<1>38. ASSUME NEW a \in Actors, Clean(a) PROVE PromiseIsKept'
    BY <1>38 DEF Clean, files, history, PromiseIsKept, Ready
<1>39. CASE Begin
    BY <1>39 DEF Begin, files, history, PromiseIsKept, Ready
<1>40. CASE WorkerCrash
    BY <1>40 DEF WorkerCrash, files, history, PromiseIsKept, Ready
<1>41. CASE Restart
  <2>1. Ready \subseteq Ready'
      BY <1>41 DEF Restart, Ready
  <2>2. UNCHANGED <<promised, disturbed>>
      BY <1>41 DEF Restart, history
  <2> QED
      BY <2>1, <2>2 DEF PromiseIsKept
<1>42. CASE UNCHANGED vars
    BY <1>42 DEF vars, files, history, PromiseIsKept, Ready
<1> QED
    BY <1>1, <1>2, <1>3, <1>4, <1>5, <1>6, <1>7, <1>8, <1>9, <1>10, <1>11, <1>12, <1>13, <1>14,
       <1>15, <1>16, <1>17, <1>18, <1>19, <1>20, <1>21, <1>22, <1>23, <1>24, <1>25, <1>26,
       <1>27, <1>28, <1>29, <1>30, <1>31, <1>32, <1>33, <1>34, <1>35, <1>36, <1>37, <1>38,
       <1>39, <1>40, <1>41, <1>42
       DEF Next, NewRequest, RequestStep, ClaimJob, JobStep

\* The list is taken from the rows as they are then.
LEMMA NextListing ==
  Typed /\ [Next]_vars =>
    \A s \in Slots : at[s] = "listing" /\ at'[s] = "concatenating" => list'[s] = Ready
<1> SUFFICES ASSUME Typed, [Next]_vars, NEW t \in Slots, at[t] = "listing", at'[t] = "concatenating"
             PROVE  list'[t] = Ready
    OBVIOUS
<1> USE DEF Typed
<1>1. ASSUME NEW c \in Requests, NEW p \in Parts, PartArrives(c, p) PROVE list'[t] = Ready
    BY <1>1 DEF PartArrives, Request, Goto, Done, RemoveDirectory, ActorsOK, Actors
<1>2. ASSUME NEW c \in Requests, NEW p \in Parts, PutCheck(c, p) PROVE list'[t] = Ready
    BY <1>2 DEF PutCheck, Request, Goto, Done, RemoveDirectory, ActorsOK, Actors
<1>3. ASSUME NEW c \in Requests, Finish(c) PROVE list'[t] = Ready
    BY <1>3 DEF Finish, Request, Goto, Done, RemoveDirectory, ActorsOK, Actors
<1>4. ASSUME NEW c \in Requests, FindExpired(c) PROVE list'[t] = Ready
    BY <1>4 DEF FindExpired, Request, Goto, Done, RemoveDirectory, ActorsOK, Actors
<1>5. ASSUME NEW c \in Requests, Cancel(c) PROVE list'[t] = Ready
    BY <1>5 DEF Cancel, Request, Goto, Done, RemoveDirectory, ActorsOK, Actors
<1>6. ASSUME NEW c \in Requests, Close(c) PROVE list'[t] = Ready
    BY <1>6 DEF Close, Request, Goto, Done, RemoveDirectory, ActorsOK, Actors
<1>7. ASSUME NEW c \in Requests, Retry(c) PROVE list'[t] = Ready
    BY <1>7 DEF Retry, Request, Goto, Done, RemoveDirectory, ActorsOK, Actors
<1>8. ASSUME NEW c \in Requests, Upsert(c) PROVE list'[t] = Ready
    BY <1>8 DEF Upsert, Request, Goto, Done, RemoveDirectory, ActorsOK, Actors
<1>9. ASSUME NEW c \in Requests, EnqueuePart(c) PROVE list'[t] = Ready
    BY <1>9 DEF EnqueuePart, Request, Goto, Done, RemoveDirectory, ActorsOK, Actors
<1>10. ASSUME NEW c \in Requests, Stream(c) PROVE list'[t] = Ready
    BY <1>10 DEF Stream, Request, Goto, Done, RemoveDirectory, ActorsOK, Actors
<1>11. ASSUME NEW c \in Requests, Store(c) PROVE list'[t] = Ready
    BY <1>11 DEF Store, Request, Goto, Done, RemoveDirectory, ActorsOK, Actors
<1>12. ASSUME NEW c \in Requests, StreamBreaks(c) PROVE list'[t] = Ready
    BY <1>12 DEF StreamBreaks, Request, Goto, Done, RemoveDirectory, ActorsOK, Actors
<1>13. ASSUME NEW c \in Requests, CancelJobs(c) PROVE list'[t] = Ready
    BY <1>13 DEF CancelJobs, Request, Goto, Done, RemoveDirectory, ActorsOK, Actors
<1>14. ASSUME NEW c \in Requests, CloseRow(c) PROVE list'[t] = Ready
    BY <1>14 DEF CloseRow, Request, Goto, Done, RemoveDirectory, ActorsOK, Actors
<1>15. ASSUME NEW c \in Requests, Reopen(c) PROVE list'[t] = Ready
    BY <1>15 DEF Reopen, Request, Goto, Done, RemoveDirectory, ActorsOK, Actors
<1>16. ASSUME NEW c \in Requests, Requeue(c) PROVE list'[t] = Ready
    BY <1>16 DEF Requeue, Request, Goto, Done, RemoveDirectory, ActorsOK, Actors
<1>17. ASSUME NEW c \in Requests, CutOff(c) PROVE list'[t] = Ready
    BY <1>17 DEF CutOff, Request, Goto, Done, RemoveDirectory, ActorsOK, Actors
<1>18. ASSUME NEW s \in Slots, ClaimAssembly(s) PROVE list'[t] = Ready
    BY <1>18 DEF ClaimAssembly, Request, Goto, Done, RemoveDirectory, ActorsOK, Actors
<1>19. ASSUME NEW s \in Slots, NEW p \in Parts, ClaimDownload(s, p) PROVE list'[t] = Ready
    BY <1>19 DEF ClaimDownload, ActorsOK, Actors
<1>20. ASSUME NEW s \in Slots, MarkDownloading(s) PROVE list'[t] = Ready
    BY <1>20 DEF MarkDownloading, Request, Goto, Done, RemoveDirectory, ActorsOK, Actors
<1>21. ASSUME NEW s \in Slots, Fetch(s) PROVE list'[t] = Ready
    BY <1>21 DEF Fetch, Request, Goto, Done, RemoveDirectory, ActorsOK, Actors
<1>22. ASSUME NEW s \in Slots, MarkReady(s) PROVE list'[t] = Ready
    BY <1>22 DEF MarkReady, Request, Goto, Done, RemoveDirectory, ActorsOK, Actors
<1>23. ASSUME NEW s \in Slots, MaybeFinalise(s) PROVE list'[t] = Ready
    BY <1>23 DEF MaybeFinalise, Request, Goto, Done, RemoveDirectory, ActorsOK, Actors
<1>24. ASSUME NEW s \in Slots, FailDownload(s) PROVE list'[t] = Ready
    BY <1>24 DEF FailDownload, Request, Goto, Done, RemoveDirectory, ActorsOK, Actors
<1>25. ASSUME NEW s \in Slots, MarkPartFailed(s) PROVE list'[t] = Ready
    BY <1>25 DEF MarkPartFailed, Request, Goto, Done, RemoveDirectory, ActorsOK, Actors
<1>26. ASSUME NEW s \in Slots, ClaimSession(s) PROVE list'[t] = Ready
    BY <1>26 DEF ClaimSession, Request, Goto, Done, RemoveDirectory, ActorsOK, Actors
<1>27. ASSUME NEW s \in Slots, ListParts(s) PROVE list'[t] = Ready
    BY <1>27 DEF ListParts, ActorsOK, Actors
<1>28. ASSUME NEW s \in Slots, Concatenate(s) PROVE list'[t] = Ready
    BY <1>28 DEF Concatenate, Request, Goto, Done, RemoveDirectory, ActorsOK, Actors
<1>29. ASSUME NEW s \in Slots, Verify(s) PROVE list'[t] = Ready
    BY <1>29 DEF Verify, Request, Goto, Done, RemoveDirectory, ActorsOK, Actors
<1>30. ASSUME NEW s \in Slots, HandOff(s) PROVE list'[t] = Ready
    BY <1>30 DEF HandOff, Request, Goto, Done, RemoveDirectory, ActorsOK, Actors
<1>31. ASSUME NEW s \in Slots, AuditFails(s) PROVE list'[t] = Ready
    BY <1>31 DEF AuditFails, Request, Goto, Done, RemoveDirectory, ActorsOK, Actors
<1>32. ASSUME NEW s \in Slots, Disown(s) PROVE list'[t] = Ready
    BY <1>32 DEF Disown, Request, Goto, Done, RemoveDirectory, ActorsOK, Actors
<1>33. ASSUME NEW s \in Slots, FailAssembly(s) PROVE list'[t] = Ready
    BY <1>33 DEF FailAssembly, Request, Goto, Done, RemoveDirectory, ActorsOK, Actors
<1>34. ASSUME NEW s \in Slots, Drop(s) PROVE list'[t] = Ready
    BY <1>34 DEF Drop, Request, Goto, Done, RemoveDirectory, ActorsOK, Actors
<1>35. ASSUME NEW a \in Actors, Check(a) PROVE list'[t] = Ready
    BY <1>35 DEF Check, Request, Goto, Done, RemoveDirectory, ActorsOK, Actors
<1>36. ASSUME NEW a \in Actors, Arm(a) PROVE list'[t] = Ready
    BY <1>36 DEF Arm, Request, Goto, Done, RemoveDirectory, ActorsOK, Actors
<1>37. ASSUME NEW a \in Actors, Queue(a) PROVE list'[t] = Ready
    BY <1>37 DEF Queue, Request, Goto, Done, RemoveDirectory, ActorsOK, Actors
<1>38. ASSUME NEW a \in Actors, Clean(a) PROVE list'[t] = Ready
    BY <1>38 DEF Clean, Request, Goto, Done, RemoveDirectory, ActorsOK, Actors
<1>39. CASE Begin
    BY <1>39 DEF Begin, actors
<1>40. CASE WorkerCrash
    BY <1>40 DEF WorkerCrash, Actors
<1>41. CASE Restart
    BY <1>41 DEF Restart, actors
<1>42. CASE UNCHANGED vars
    BY <1>42 DEF vars, actors
<1> QED
    BY <1>1, <1>2, <1>3, <1>4, <1>5, <1>6, <1>7, <1>8, <1>9, <1>10, <1>11, <1>12, <1>13, <1>14,
       <1>15, <1>16, <1>17, <1>18, <1>19, <1>20, <1>21, <1>22, <1>23, <1>24, <1>25, <1>26,
       <1>27, <1>28, <1>29, <1>30, <1>31, <1>32, <1>33, <1>34, <1>35, <1>36, <1>37, <1>38,
       <1>39, <1>40, <1>41, <1>42
       DEF Next, NewRequest, RequestStep, ClaimJob, JobStep

-----------------------------------------------------------------------------
(* The theorems *)

LEMMA InitIInv == Init => IInv
<1> SUFFICES ASSUME Init PROVE IInv
    OBVIOUS
<1>1. Typed
    BY InitTyped
<1>2. AssemblyIsAttended /\ ReadyIsAttended
    BY DEF Init, AssemblyIsAttended, ReadyIsAttended, InAssembly
<1>3. AssembliesExclude
    BY DEF Init, AssembliesExclude, Assemblers, Assembling, Actors
<1>4. PartsAreAttended /\ PromiseIsKept
    BY DEF Init, PartsAreAttended, PromiseIsKept
<1> QED
    BY <1>1, <1>2, <1>3, <1>4 DEF IInv

LEMMA NextIInv == IInv /\ [Next]_vars => IInv'
BY NextTables, NextFlags, NextActors, NextAttended, NextExclude, NextReady, NextAttendance,
   NextPromise DEF IInv, Typed

THEOREM Invariance == Spec => []IInv
BY InitIInv, NextIInv, PTL DEF Spec

\* Whatever the processes and crashes, the session's rows, its files and what everybody is doing
\* are as their types say.
THEOREM TypeCorrect == Spec => []TypeOK
<1>1. IInv => TypeOK
    BY TypedIsTypeOK DEF IInv
<1> QED
    BY <1>1, Invariance, PTL

\* A session that reads ASSEMBLING or VERIFYING while the worker runs has an assembler: every
\* way out of an assembly sets the status, and a restart resets it.
THEOREM AssembliesAreAttended == Spec => []AssemblyIsAttended
<1>1. IInv => AssemblyIsAttended
    BY DEF IInv
<1> QED
    BY <1>1, Invariance, PTL

\* claimForAssembly is a lock for everybody who does not set the session READY over it: one
\* assembler at a time, and one upload from a session.
THEOREM AssembliesAreSingle == Spec => []OneAssemblyUnlessRearmed
<1>1. IInv => OneAssemblyUnlessRearmed
    BY ExcludeMeansOne DEF IInv
<1> QED
    BY <1>1, Invariance, PTL

\* A READY session's assembly is queued, claimed or about to be queued, unless it was given up,
\* cancelled or cut off.
THEOREM ReadySessionsAreQueued == Spec => []ReadyIsQueued
<1>1. IInv => ReadyIsQueued
    BY DEF IInv, ReadyIsAttended, ReadyIsQueued
<1> QED
    BY <1>1, Invariance, PTL

\* A part that is PENDING or DOWNLOADING has somebody at work on it, unless a cancellation or a
\* crash took it from them.
THEOREM PartsAreWorkedOn == Spec => []NoPartForgotten
<1>1. IInv => NoPartForgotten
    BY DEF IInv, PartsAreAttended, NoPartForgotten, AtWork
<1> QED
    BY <1>1, Invariance, PTL

\* An assembler sets out to concatenate every part beginAssembly found, unless one was replaced
\* or failed in between.
THEOREM AssembliesAreWhole == Spec => AssembledWholeUnlessDisturbed
<1>1. IInv /\ [Next]_vars =>
        [\A s \in Slots : at[s] = "listing" /\ at'[s] = "concatenating" /\ ~disturbed =>
           promised \subseteq list'[s]]_vars
    BY NextListing DEF IInv, PromiseIsKept
<1> QED
    BY <1>1, Invariance, PTL DEF Spec, AssembledWholeUnlessDisturbed

=============================================================================
