---------------------------- MODULE StagingProofs ----------------------------
(***************************************************************************)
(* What Staging guarantees for any number of uploads, runs and crashes.    *)
(*                                                                         *)
(* Everything the invariant says, it says of one upload: which names it    *)
(* may have files under, which of them its run or its ingestion holds,     *)
(* which the reaper's query has seen, and so which are there.  A step of   *)
(* one upload touches no other (SameFor), so each needs to be looked at    *)
(* for its own upload only; the reaper's steps are looked at for all.      *)
(***************************************************************************)
EXTENDS Staging, TLAPS

-----------------------------------------------------------------------------
(* The inductive invariant *)

\* What the row and the run of an upload know of each other: only an unfinished upload has a
\* run, and the name in the row is that of an earlier run until this one has recorded its own.
Role(u) ==
  /\ Busy(u) => status[u] = "unfinished" /\ runs[u] >= 1
  /\ source[u] # NoFile => source[u] <= runs[u]
  /\ u \in staged =>
       /\ status[u] = "unfinished" => source[u] # NoFile
       /\ pc[u] \notin {"fetch", "copying"}
       /\ Busy(u) => sourceSeen[u] = source[u]
       /\ pc[u] \in {"take", "taken"} => source[u] < runs[u]
       /\ pc[u] = "work" => source[u] = runs[u]
  /\ u \notin staged => status[u] # "writing" /\ session[u] = "none"

\* The names an upload may have files under: a run's is new when it takes the file.
Names(u) ==
  /\ \A n \in 0..MaxRuns : <<u, n>> \in disk =>
       n <= runs[u] /\ (pc[u] \in {"fetch", "take"} => n < runs[u])
  /\ <<u, Server>> \in disk => u \notin staged
  /\ <<u, Parts>> \in disk => session[u] \notin {"none", "open"}

\* A file in somebody's hands is there and is young; but for a copy that was old when it was
\* asked for.
Held(u) ==
  /\ status[u] = "writing" => <<u, 0>> \in disk \ old
  /\ pc[u] \in {"copying", "taken", "work"} => Temp(u) \in disk \ old
  /\ pc[u] = "take" /\ <<u, Server>> \in old => u \in late

\* While the reaper deletes, what a row protects was seen by its query, or is young, or is late.
Spared(u) ==
  reaper = "sweeping" /\ u \in staged \ late =>
    /\ status[u] = "unfinished" /\ Source(u) \in listing \cap old => Source(u) \in live
    /\ session[u] \in {"open", "live"} /\ <<u, Parts>> \in listing \cap old =>
         <<u, Parts>> \in live

Kept(u) ==
  /\ u \in staged \ (late \cup stranded) =>
       (status[u] = "unfinished" => Source(u) \in disk \/ pc[u] = "taken")
  /\ u \in staged \ late => (session[u] = "live" => <<u, Parts>> \in disk)
  /\ u \notin staged \cup late => (pc[u] = "take" => <<u, Server>> \in disk)

Safe(u) == Role(u) /\ Names(u) /\ Held(u) /\ Spared(u) /\ Kept(u)

IInv == TypeOK /\ listing \subseteq There /\ \A u \in Uploads : Safe(u)

-----------------------------------------------------------------------------
(* Types and frames *)

\* What a step of another upload leaves alone.
SameFor(u) ==
  /\ status'[u] = status[u] /\ session'[u] = session[u] /\ source'[u] = source[u]
  /\ runs'[u] = runs[u] /\ pc'[u] = pc[u] /\ sourceSeen'[u] = sourceSeen[u]
  /\ \A n \in 0..Parts : /\ <<u, n>> \in disk' <=> <<u, n>> \in disk
                         /\ <<u, n>> \in old' <=> <<u, n>> \in old
  /\ u \in late' <=> u \in late
  /\ u \in stranded' <=> u \in stranded
  /\ UNCHANGED <<staged, reaper, listing, live>>

LEMMA SameIsSafe ==
  ASSUME TypeOK, NEW u \in Uploads, SameFor(u), Safe(u)
  PROVE  Safe(u)'
<1> USE BoundsType DEF SameFor, Safe, TypeOK, NoFile, Server, Parts
<1>1. Role(u)'
    BY DEF Role, Busy
<1>2. Names(u)'
    BY DEF Names
<1>3. Held(u)'
    BY DEF Held, Temp
<1>4. Spared(u)'
    BY DEF Spared, Source
<1>5. Kept(u)'
    BY DEF Kept, Source
<1> QED
    BY <1>1, <1>2, <1>3, <1>4, <1>5

\* Every step keeps the types.
LEMMA NextTypes == TypeOK /\ [Next]_vars => TypeOK'
<1> SUFFICES ASSUME TypeOK, [Next]_vars PROVE TypeOK'
    OBVIOUS
<1> USE BoundsType DEF TypeOK, Files, Scratch, Copies, PartsOf, NoFile, Server, Parts, Terminal,
   rows, run,
       reaping, KeepFiles, Unlink, Touch, Temp, SourceSeen, Busy, There, Named, LiveSources,
          LiveParts, Source
<1>1. ASSUME NEW u \in Uploads, OpenSession(u) PROVE TypeOK'
    BY <1>1 DEF OpenSession
<1>2. ASSUME NEW u \in Uploads, PartsArrive(u) PROVE TypeOK'
    BY <1>2 DEF PartsArrive
<1>3. ASSUME NEW u \in Uploads, AssemblyFails(u) PROVE TypeOK'
    BY <1>3 DEF AssemblyFails
<1>4. ASSUME NEW u \in Uploads, CloseSession(u) PROVE TypeOK'
    BY <1>4 DEF CloseSession
<1>5. ASSUME NEW u \in Uploads, CleanParts(u) PROVE TypeOK'
    BY <1>5 DEF CleanParts
<1>6. ASSUME NEW u \in Uploads, RetrySession(u) PROVE TypeOK'
    BY <1>6 DEF RetrySession
<1>7. ASSUME NEW u \in Uploads, Write(u) PROVE TypeOK'
    BY <1>7 DEF Write
<1>8. ASSUME NEW u \in Uploads, Record(u) PROVE TypeOK'
    BY <1>8 DEF Record
<1>9. ASSUME NEW u \in Uploads, Accept(u) PROVE TypeOK'
    BY <1>9 DEF Accept
<1>10. ASSUME NEW u \in Uploads, GiveUpWriting(u) PROVE TypeOK'
    BY <1>10 DEF GiveUpWriting
<1>11. ASSUME NEW u \in Uploads, Retry(u) PROVE TypeOK'
    BY <1>11 DEF Retry
<1>12. ASSUME NEW u \in Uploads, Begin(u) PROVE TypeOK'
    BY <1>12 DEF Begin
<1>13. ASSUME NEW u \in Uploads, Fetch(u) PROVE TypeOK'
    BY <1>13 DEF Fetch
<1>14. ASSUME NEW u \in Uploads, Take(u) PROVE TypeOK'
    BY <1>14 DEF Take
<1>15. ASSUME NEW u \in Uploads, TakeCopy(u) PROVE TypeOK'
    BY <1>15 DEF TakeCopy
<1>16. ASSUME NEW u \in Uploads, Stream(u) PROVE TypeOK'
    BY <1>16 DEF Stream
<1>17. ASSUME NEW u \in Uploads, FinishCopy(u) PROVE TypeOK'
    BY <1>17 DEF FinishCopy
<1>18. ASSUME NEW u \in Uploads, NothingToTake(u) PROVE TypeOK'
    BY <1>18 DEF NothingToTake
<1>19. ASSUME NEW u \in Uploads, RecordTake(u) PROVE TypeOK'
    BY <1>19 DEF RecordTake
<1>20. ASSUME NEW u \in Uploads, Finish(u) PROVE TypeOK'
    BY <1>20 DEF Finish
<1>21. ASSUME NEW u \in Uploads, Fail(u) PROVE TypeOK'
    BY <1>21 DEF Fail
<1>22. ASSUME NEW u \in Uploads, Close(u) PROVE TypeOK'
    BY <1>22 DEF Close
<1>23. ASSUME NEW f \in Files, Reap(f) PROVE TypeOK'
    BY <1>23 DEF Reap
<1>24. ASSUME NEW f \in Files, ReapParts(f) PROVE TypeOK'
    BY <1>24 DEF ReapParts
<1>25. ASSUME NEW f \in Files, Age(f) PROVE TypeOK'
    BY <1>25 DEF Age
<1>26. CASE List
    BY <1>26 DEF List
<1>27. CASE Query
    BY <1>27 DEF Query
<1>28. CASE EndPass
    BY <1>28 DEF EndPass
<1>29. CASE Crash
    BY <1>29 DEF Crash
<1>30. CASE UNCHANGED vars
    BY <1>30 DEF vars
<1> QED
    BY <1>1, <1>2, <1>3, <1>4, <1>5, <1>6, <1>7, <1>8, <1>9, <1>10, <1>11, <1>12, <1>13, <1>14,
       <1>15, <1>16, <1>17, <1>18, <1>19, <1>20, <1>21, <1>22, <1>23, <1>24, <1>25, <1>26,
       <1>27, <1>28, <1>29, <1>30 DEF Next, Pass, GracePasses

\* The reaper deletes only where it has listed.
LEMMA NextListing ==
  TypeOK /\ listing \subseteq There /\ [Next]_vars => (listing \subseteq There)'
<1> SUFFICES ASSUME TypeOK, listing \subseteq There, [Next]_vars PROVE (listing \subseteq There)'
    OBVIOUS
<1>1. CASE UNCHANGED <<place, listing>>
    BY <1>1 DEF There
<1>2. CASE place' = place /\ listing' \subseteq listing
    BY <1>2 DEF There
<1>3. CASE List
    BY <1>3 DEF List, There
<1>4. CASE EndPass \/ Crash
    BY <1>4 DEF EndPass, Crash
<1>5. ASSUME NEW f \in Files, Reap(f) \/ ReapParts(f)
      PROVE  place' = place /\ listing' \subseteq listing
    BY <1>5 DEF Reap, ReapParts
<1>6. CASE Query
    BY <1>1, <1>6 DEF Query
<1>7. UNCHANGED <<place, listing>> \/ Pass \/ Crash
    BY DEF Next, vars, reaping, OpenSession, PartsArrive, AssemblyFails, CloseSession,
       CleanParts,
       RetrySession, Write, Record, Accept, GiveUpWriting, Retry, Begin, Fetch, Take, TakeCopy,
       Stream, FinishCopy, NothingToTake, RecordTake, Finish, Fail, Close, GracePasses, Age
<1> QED
    BY <1>1, <1>2, <1>3, <1>4, <1>5, <1>6, <1>7 DEF Pass

\* Every step keeps every upload safe.
LEMMA NextSafe ==
  IInv /\ [Next]_vars => \A u \in Uploads : Safe(u)'
<1> SUFFICES ASSUME IInv, [Next]_vars PROVE \A u \in Uploads : Safe(u)'
    OBVIOUS
<1> USE BoundsType
    DEF IInv, TypeOK, rows, run, reaping, KeepFiles, Unlink, Touch, Temp, Source, SourceSeen,
       Busy,
        NoFile, Server, Parts
<1>1. ASSUME NEW u \in Uploads, OpenSession(u) PROVE \A v \in Uploads : Safe(v)'
  <2>1. \A v \in Uploads \ {u} : SameFor(v)
      BY <1>1 DEF OpenSession, SameFor
  <2>2. Role(u)'
      BY <1>1 DEF OpenSession, Safe, Role
  <2>3. Names(u)'
      BY <1>1 DEF OpenSession, Safe, Names, Role
  <2>4. Held(u)'
      BY <1>1 DEF OpenSession, Safe, Held, Role
  <2>5. Spared(u)'
      BY <1>1 DEF OpenSession, Safe, Spared, Names
  <2>6. Kept(u)'
      BY <1>1 DEF OpenSession, Safe, Kept, Role
  <2> QED
      BY <2>1, <2>2, <2>3, <2>4, <2>5, <2>6, SameIsSafe DEF Safe
<1>2. ASSUME NEW u \in Uploads, PartsArrive(u) PROVE \A v \in Uploads : Safe(v)'
  <2>1. \A v \in Uploads \ {u} : SameFor(v)
      BY <1>2 DEF PartsArrive, SameFor
  <2>2. Role(u)'
      BY <1>2 DEF PartsArrive, Safe, Role
  <2>3. Names(u)'
    <3>1. \A n \in 0..MaxRuns : <<u, n>> \in disk' => <<u, n>> \in disk
        BY <1>2 DEF PartsArrive
    <3>2. pc' = pc /\ runs' = runs /\ session'[u] = "live" /\ staged' = staged /\ u \in staged
        BY <1>2 DEF PartsArrive
    <3>3. <<u, Server>> \notin disk
        BY <3>2 DEF Safe, Names
    <3>4. <<u, Server>> \notin disk'
        BY <1>2, <3>3 DEF PartsArrive
    <3> QED
        BY <3>1, <3>2, <3>4 DEF Safe, Names
  <2>4. Held(u)'
      BY <1>2 DEF PartsArrive, Safe, Held, Role
  <2>5. Spared(u)'
      BY <1>2 DEF PartsArrive, Safe, Spared, Role
  <2>6. Kept(u)'
      BY <1>2 DEF PartsArrive, Safe, Kept, Role
  <2> QED
      BY <2>1, <2>2, <2>3, <2>4, <2>5, <2>6, SameIsSafe DEF Safe
<1>3. ASSUME NEW u \in Uploads, AssemblyFails(u) PROVE \A v \in Uploads : Safe(v)'
  <2>1. \A v \in Uploads \ {u} : SameFor(v)
      BY <1>3 DEF AssemblyFails, SameFor
  <2>2. Role(u)'
      BY <1>3 DEF AssemblyFails, Safe, Role
  <2>3. Names(u)'
      BY <1>3 DEF AssemblyFails, Safe, Names, Role
  <2>4. Held(u)'
      BY <1>3 DEF AssemblyFails, Safe, Held, Role
  <2>5. Spared(u)'
      BY <1>3 DEF AssemblyFails, Safe, Spared, Role
  <2>6. Kept(u)'
      BY <1>3 DEF AssemblyFails, Safe, Kept, Role
  <2> QED
      BY <2>1, <2>2, <2>3, <2>4, <2>5, <2>6, SameIsSafe DEF Safe
<1>4. ASSUME NEW u \in Uploads, CloseSession(u) PROVE \A v \in Uploads : Safe(v)'
  <2>1. \A v \in Uploads \ {u} : SameFor(v)
      BY <1>4 DEF CloseSession, SameFor
  <2>2. Role(u)'
      BY <1>4 DEF CloseSession, Safe, Role
  <2>3. Names(u)'
      BY <1>4 DEF CloseSession, Safe, Names, Role
  <2>4. Held(u)'
      BY <1>4 DEF CloseSession, Safe, Held, Role
  <2>5. Spared(u)'
      BY <1>4 DEF CloseSession, Safe, Spared, Role
  <2>6. Kept(u)'
      BY <1>4 DEF CloseSession, Safe, Kept, Role
  <2> QED
      BY <2>1, <2>2, <2>3, <2>4, <2>5, <2>6, SameIsSafe DEF Safe
<1>5. ASSUME NEW u \in Uploads, CleanParts(u) PROVE \A v \in Uploads : Safe(v)'
  <2>1. \A v \in Uploads \ {u} : SameFor(v)
      BY <1>5 DEF CleanParts, SameFor
  <2>2. Role(u)'
      BY <1>5 DEF CleanParts, Safe, Role
  <2>3. Names(u)'
      BY <1>5 DEF CleanParts, Safe, Names, Role
  <2>4. Held(u)'
      BY <1>5 DEF CleanParts, Safe, Held, Role
  <2>5. Spared(u)'
      BY <1>5 DEF CleanParts, Safe, Spared, Role
  <2>6. Kept(u)'
      BY <1>5 DEF CleanParts, Safe, Kept, Role
  <2> QED
      BY <2>1, <2>2, <2>3, <2>4, <2>5, <2>6, SameIsSafe DEF Safe
<1>6. ASSUME NEW u \in Uploads, RetrySession(u) PROVE \A v \in Uploads : Safe(v)'
  <2>1. \A v \in Uploads \ {u} : SameFor(v)
      BY <1>6 DEF RetrySession, SameFor
  <2>2. Role(u)'
      BY <1>6 DEF RetrySession, Safe, Role
  <2>3. Names(u)'
      BY <1>6 DEF RetrySession, Safe, Names, Role
  <2>4. Held(u)'
      BY <1>6 DEF RetrySession, Safe, Held, Role
  <2>5. Spared(u)'
      BY <1>6 DEF RetrySession, Safe, Spared, Role
  <2>6. Kept(u)'
      BY <1>6 DEF RetrySession, Safe, Kept, Role
  <2> QED
      BY <2>1, <2>2, <2>3, <2>4, <2>5, <2>6, SameIsSafe DEF Safe
<1>7. ASSUME NEW u \in Uploads, Write(u) PROVE \A v \in Uploads : Safe(v)'
  <2>1. \A v \in Uploads \ {u} : SameFor(v)
      BY <1>7 DEF Write, SameFor
  <2>2. Role(u)'
      BY <1>7 DEF Write, Safe, Role
  <2>3. Names(u)'
      BY <1>7 DEF Write, Safe, Names, Role
  <2>4. Held(u)'
      BY <1>7 DEF Write, Safe, Held, Role
  <2>5. Spared(u)'
      BY <1>7 DEF Write, Safe, Spared, Role
  <2>6. Kept(u)'
      BY <1>7 DEF Write, Safe, Kept, Role
  <2> QED
      BY <2>1, <2>2, <2>3, <2>4, <2>5, <2>6, SameIsSafe DEF Safe
<1>8. ASSUME NEW u \in Uploads, Record(u) PROVE \A v \in Uploads : Safe(v)'
  <2>1. \A v \in Uploads \ {u} : SameFor(v)
      BY <1>8 DEF Record, SameFor
  <2>2. Role(u)'
      BY <1>8 DEF Record, Safe, Role
  <2>3. Names(u)'
      BY <1>8 DEF Record, Safe, Names, Role
  <2>4. Held(u)'
      BY <1>8 DEF Record, Safe, Held, Role
  <2>5. Spared(u)'
      BY <1>8 DEF Record, Safe, Spared, Held, Role
  <2>6. Kept(u)'
      BY <1>8 DEF Record, Safe, Kept, Held, Role
  <2> QED
      BY <2>1, <2>2, <2>3, <2>4, <2>5, <2>6, SameIsSafe DEF Safe
<1>9. ASSUME NEW u \in Uploads, Accept(u) PROVE \A v \in Uploads : Safe(v)'
  <2>1. \A v \in Uploads \ {u} : SameFor(v)
      BY <1>9 DEF Accept, SameFor
  <2>2. Role(u)'
      BY <1>9 DEF Accept, Safe, Role
  <2>3. Names(u)'
      BY <1>9 DEF Accept, Safe, Names, Role
  <2>4. Held(u)'
      BY <1>9 DEF Accept, Safe, Held, Role
  <2>5. Spared(u)'
      BY <1>9 DEF Accept, Safe, Spared, Role
  <2>6. Kept(u)'
      BY <1>9 DEF Accept, Safe, Kept, Role
  <2> QED
      BY <2>1, <2>2, <2>3, <2>4, <2>5, <2>6, SameIsSafe DEF Safe
<1>10. ASSUME NEW u \in Uploads, GiveUpWriting(u) PROVE \A v \in Uploads : Safe(v)'
  <2>1. \A v \in Uploads \ {u} : SameFor(v)
      BY <1>10 DEF GiveUpWriting, SameFor
  <2>2. Role(u)'
      BY <1>10 DEF GiveUpWriting, Safe, Role
  <2>3. Names(u)'
      BY <1>10 DEF GiveUpWriting, Safe, Names, Role
  <2>4. Held(u)'
      BY <1>10 DEF GiveUpWriting, Safe, Held, Role
  <2>5. Spared(u)'
      BY <1>10 DEF GiveUpWriting, Safe, Spared, Role
  <2>6. Kept(u)'
    <3>1. status'[u] \in {"none", "failed"} /\ pc'[u] # "take"
        BY <1>10 DEF GiveUpWriting, Safe, Role
    <3>2. <<u, Parts>> \in disk => <<u, Parts>> \in disk'
        BY <1>10 DEF GiveUpWriting
    <3>3. UNCHANGED <<staged, late, session>>
        BY <1>10 DEF GiveUpWriting
    <3> QED
        BY <3>1, <3>2, <3>3 DEF Safe, Kept
  <2> QED
      BY <2>1, <2>2, <2>3, <2>4, <2>5, <2>6, SameIsSafe DEF Safe
<1>11. ASSUME NEW u \in Uploads, Retry(u) PROVE \A v \in Uploads : Safe(v)'
  <2>1. \A v \in Uploads \ {u} : SameFor(v)
      BY <1>11 DEF Retry, SameFor
  <2>2. Role(u)'
      BY <1>11 DEF Retry, Safe, Role
  <2>3. Names(u)'
      BY <1>11 DEF Retry, Safe, Names, Role
  <2>4. Held(u)'
      BY <1>11 DEF Retry, Safe, Held, Role
  <2>5. Spared(u)'
      BY <1>11 DEF Retry, Safe, Spared, Role
  <2>6. Kept(u)'
      BY <1>11 DEF Retry, Safe, Kept, Role
  <2> QED
      BY <2>1, <2>2, <2>3, <2>4, <2>5, <2>6, SameIsSafe DEF Safe
<1>12. ASSUME NEW u \in Uploads, Begin(u) PROVE \A v \in Uploads : Safe(v)'
  <2>1. \A v \in Uploads \ {u} : SameFor(v)
      BY <1>12 DEF Begin, SameFor
  <2>2. Role(u)'
      BY <1>12 DEF Begin, Safe, Role
  <2>3. Names(u)'
      BY <1>12 DEF Begin, Safe, Names, Role
  <2>4. Held(u)'
    <3>1. status'[u] = "unfinished" /\ pc'[u] = (IF u \in staged THEN "take" ELSE "fetch")
        BY <1>12 DEF Begin
    <3>2. u \in staged => <<u, Server>> \notin old'
        BY <1>12 DEF Begin, Safe, Names
    <3> QED
        BY <3>1, <3>2 DEF Held
  <2>5. Spared(u)'
      BY <1>12 DEF Begin, Safe, Spared, Role
  <2>6. Kept(u)'
      BY <1>12 DEF Begin, Safe, Kept, Role
  <2> QED
      BY <2>1, <2>2, <2>3, <2>4, <2>5, <2>6, SameIsSafe DEF Safe
<1>13. ASSUME NEW u \in Uploads, Fetch(u) PROVE \A v \in Uploads : Safe(v)'
  <2>1. \A v \in Uploads \ {u} : SameFor(v)
      BY <1>13 DEF Fetch, SameFor
  <2>2. Role(u)'
      BY <1>13 DEF Fetch, Safe, Role
  <2>3. Names(u)'
      BY <1>13 DEF Fetch, Safe, Names, Role
  <2>4. Held(u)'
      BY <1>13 DEF Fetch, Safe, Held, Role
  <2>5. Spared(u)'
      BY <1>13 DEF Fetch, Safe, Spared, Role
  <2>6. Kept(u)'
      BY <1>13 DEF Fetch, Safe, Kept, Role
  <2> QED
      BY <2>1, <2>2, <2>3, <2>4, <2>5, <2>6, SameIsSafe DEF Safe
<1>14. ASSUME NEW u \in Uploads, Take(u) PROVE \A v \in Uploads : Safe(v)'
  <2>1. \A v \in Uploads \ {u} : SameFor(v)
      BY <1>14 DEF Take, SameFor
  <2>2. Role(u)'
      BY <1>14 DEF Take, Safe, Role
  <2>3. Names(u)'
      BY <1>14 DEF Take, Safe, Names, Role
  <2>4. Held(u)'
    <3>1. status'[u] = "unfinished" /\ pc'[u] = "taken" /\ runs' = runs
        BY <1>14 DEF Take, Safe, Role
    <3>2. pc[u] = "take" /\ runs[u] \in 0..MaxRuns
        BY <1>14 DEF Take
    <3>3. ASSUME NEW n \in 0..MaxRuns, <<u, n>> \in disk PROVE n < runs[u]
        BY <3>2, <3>3 DEF Safe, Names
    <3>4. Temp(u) \notin disk
        BY <3>2, <3>3
    <3>5. Temp(u) \in disk' /\ Temp(u) \notin old'
        BY <1>14, <3>4 DEF Take
    <3> QED
        BY <3>1, <3>5 DEF Held
  <2>5. Spared(u)'
      BY <1>14 DEF Take, Safe, Spared, Role
  <2>6. Kept(u)'
    <3>1. pc'[u] = "taken" /\ <<u, Parts>> # SourceSeen(u)
        BY <1>14 DEF Take
    <3>2. <<u, Parts>> \in disk => <<u, Parts>> \in disk'
        BY <1>14, <3>1 DEF Take
    <3>3. UNCHANGED <<staged, late, session>>
        BY <1>14 DEF Take
    <3> QED
        BY <3>1, <3>2, <3>3 DEF Safe, Kept
  <2> QED
      BY <2>1, <2>2, <2>3, <2>4, <2>5, <2>6, SameIsSafe DEF Safe
<1>15. ASSUME NEW u \in Uploads, TakeCopy(u) PROVE \A v \in Uploads : Safe(v)'
  <2>1. \A v \in Uploads \ {u} : SameFor(v)
      BY <1>15 DEF TakeCopy, SameFor
  <2>2. Role(u)'
      BY <1>15 DEF TakeCopy, Safe, Role
  <2>3. Names(u)'
      BY <1>15 DEF TakeCopy, Safe, Names, Role
  <2>4. Held(u)'
      BY <1>15 DEF TakeCopy, Safe, Held, Role
  <2>5. Spared(u)'
      BY <1>15 DEF TakeCopy, Safe, Spared, Role
  <2>6. Kept(u)'
      BY <1>15 DEF TakeCopy, Safe, Kept, Role
  <2> QED
      BY <2>1, <2>2, <2>3, <2>4, <2>5, <2>6, SameIsSafe DEF Safe
<1>16. ASSUME NEW u \in Uploads, Stream(u) PROVE \A v \in Uploads : Safe(v)'
  <2>1. \A v \in Uploads \ {u} : SameFor(v)
      BY <1>16 DEF Stream, SameFor
  <2>2. Role(u)'
      BY <1>16 DEF Stream, Safe, Role
  <2>3. Names(u)'
      BY <1>16 DEF Stream, Safe, Names, Role
  <2>4. Held(u)'
      BY <1>16 DEF Stream, Safe, Held, Role
  <2>5. Spared(u)'
      BY <1>16 DEF Stream, Safe, Spared, Role
  <2>6. Kept(u)'
      BY <1>16 DEF Stream, Safe, Kept, Role
  <2> QED
      BY <2>1, <2>2, <2>3, <2>4, <2>5, <2>6, SameIsSafe DEF Safe
<1>17. ASSUME NEW u \in Uploads, FinishCopy(u) PROVE \A v \in Uploads : Safe(v)'
  <2>1. \A v \in Uploads \ {u} : SameFor(v)
      BY <1>17 DEF FinishCopy, SameFor
  <2>2. Role(u)'
      BY <1>17 DEF FinishCopy, Safe, Role
  <2>3. Names(u)'
      BY <1>17 DEF FinishCopy, Safe, Names, Role
  <2>4. Held(u)'
    <3>1. status'[u] = "unfinished" /\ pc'[u] = "taken" /\ runs' = runs /\ u \notin staged
        BY <1>17 DEF FinishCopy, Safe, Role
    <3>2. Temp(u) \in disk \ old
        BY <1>17 DEF FinishCopy, Safe, Held
    <3>3. Temp(u) # SourceSeen(u)
        BY <3>1
    <3>4. Temp(u) \in disk' \ old'
        BY <1>17, <3>2, <3>3 DEF FinishCopy
    <3> QED
        BY <3>1, <3>4 DEF Held
  <2>5. Spared(u)'
      BY <1>17 DEF FinishCopy, Safe, Spared, Role
  <2>6. Kept(u)'
      BY <1>17 DEF FinishCopy, Safe, Kept, Role
  <2> QED
      BY <2>1, <2>2, <2>3, <2>4, <2>5, <2>6, SameIsSafe DEF Safe
<1>18. ASSUME NEW u \in Uploads, NothingToTake(u) PROVE \A v \in Uploads : Safe(v)'
  <2>1. \A v \in Uploads \ {u} : SameFor(v)
      BY <1>18 DEF NothingToTake, SameFor
  <2>2. Role(u)'
      BY <1>18 DEF NothingToTake, Safe, Role
  <2>3. Names(u)'
      BY <1>18 DEF NothingToTake, Safe, Names, Role
  <2>4. Held(u)'
      BY <1>18 DEF NothingToTake, Safe, Held, Role
  <2>5. Spared(u)'
      BY <1>18 DEF NothingToTake, Safe, Spared, Role
  <2>6. Kept(u)'
      BY <1>18 DEF NothingToTake, Safe, Kept, Role
  <2> QED
      BY <2>1, <2>2, <2>3, <2>4, <2>5, <2>6, SameIsSafe DEF Safe
<1>19. ASSUME NEW u \in Uploads, RecordTake(u) PROVE \A v \in Uploads : Safe(v)'
  <2>1. \A v \in Uploads \ {u} : SameFor(v)
      BY <1>19 DEF RecordTake, SameFor
  <2>2. Role(u)'
      BY <1>19 DEF RecordTake, Safe, Role
  <2>3. Names(u)'
      BY <1>19 DEF RecordTake, Safe, Names, Role
  <2>4. Held(u)'
      BY <1>19 DEF RecordTake, Safe, Held, Role
  <2>5. Spared(u)'
    <3>1. CASE u \in staged
      <4>1. Source(u)' = Temp(u) /\ Temp(u) \notin old
          BY <1>19, <3>1 DEF RecordTake, Safe, Held
      <4> QED
          BY <1>19, <3>1, <4>1 DEF RecordTake, Safe, Spared
    <3>2. CASE u \notin staged
        BY <1>19, <3>2 DEF RecordTake, Safe, Spared
    <3> QED
        BY <3>1, <3>2
  <2>6. Kept(u)'
    <3>1. Temp(u) \in disk /\ pc'[u] = "work" /\ UNCHANGED <<staged, late, stranded, session, disk>>
        BY <1>19 DEF RecordTake, Safe, Held
    <3>2. u \in staged => Source(u)' = Temp(u)
        BY <1>19 DEF RecordTake
    <3> QED
        BY <3>1, <3>2 DEF Safe, Kept
  <2> QED
      BY <2>1, <2>2, <2>3, <2>4, <2>5, <2>6, SameIsSafe DEF Safe
<1>20. ASSUME NEW u \in Uploads, Finish(u) PROVE \A v \in Uploads : Safe(v)'
  <2>1. \A v \in Uploads \ {u} : SameFor(v)
      BY <1>20 DEF Finish, SameFor
  <2>2. Role(u)'
      BY <1>20 DEF Finish, Safe, Role
  <2>3. Names(u)'
      BY <1>20 DEF Finish, Safe, Names, Role
  <2>4. Held(u)'
      BY <1>20 DEF Finish, Safe, Held, Role
  <2>5. Spared(u)'
      BY <1>20 DEF Finish, Safe, Spared, Role
  <2>6. Kept(u)'
    <3>1. status'[u] = "done" /\ pc'[u] = "idle" /\ <<u, Parts>> # Temp(u)
        BY <1>20 DEF Finish
    <3>2. <<u, Parts>> \in disk => <<u, Parts>> \in disk'
        BY <1>20, <3>1 DEF Finish
    <3>3. UNCHANGED <<staged, late, session>>
        BY <1>20 DEF Finish
    <3> QED
        BY <3>1, <3>2, <3>3 DEF Safe, Kept
  <2> QED
      BY <2>1, <2>2, <2>3, <2>4, <2>5, <2>6, SameIsSafe DEF Safe
<1>21. ASSUME NEW u \in Uploads, Fail(u) PROVE \A v \in Uploads : Safe(v)'
  <2>1. \A v \in Uploads \ {u} : SameFor(v)
      BY <1>21 DEF Fail, SameFor
  <2>2. Role(u)'
      BY <1>21 DEF Fail, Safe, Role
  <2>3. Names(u)'
      BY <1>21 DEF Fail, Safe, Names, Role
  <2>4. Held(u)'
      BY <1>21 DEF Fail, Safe, Held, Role
  <2>5. Spared(u)'
      BY <1>21 DEF Fail, Safe, Spared, Role
  <2>6. Kept(u)'
    <3>1. pc'[u] = "idle" /\ <<u, Parts>> # Temp(u) /\ UNCHANGED <<staged, late, session, source>>
        BY <1>21 DEF Fail
    <3>2. <<u, Parts>> \in disk => <<u, Parts>> \in disk'
        BY <1>21, <3>1 DEF Fail
    <3>3. ASSUME u \in staged \ (late \cup stranded'), status'[u] = "unfinished"
          PROVE  Source(u) \in disk'
      <4>1. pc[u] \in {"take", "work"} /\ u \notin stranded
          BY <1>21, <3>3 DEF Fail, Safe, Role
      <4>2. Source(u) \in disk
          BY <3>3, <4>1 DEF Safe, Kept, Role
      <4>3. pc[u] = "work" => sourceSeen[u] = runs[u]
          BY <3>3, <4>1 DEF Safe, Role
      <4>4. disk' = disk
          BY <1>21, <3>3, <4>1, <4>3 DEF Fail
      <4> QED
          BY <4>2, <4>4
    <3> QED
        BY <3>1, <3>2, <3>3 DEF Safe, Kept
  <2> QED
      BY <2>1, <2>2, <2>3, <2>4, <2>5, <2>6, SameIsSafe DEF Safe
<1>22. ASSUME NEW u \in Uploads, Close(u) PROVE \A v \in Uploads : Safe(v)'
  <2>1. \A v \in Uploads \ {u} : SameFor(v)
      BY <1>22 DEF Close, SameFor
  <2>2. Role(u)'
      BY <1>22 DEF Close, Safe, Role
  <2>3. Names(u)'
      BY <1>22 DEF Close, Safe, Names, Role
  <2>4. Held(u)'
      BY <1>22 DEF Close, Safe, Held, Role
  <2>5. Spared(u)'
      BY <1>22 DEF Close, Safe, Spared, Role
  <2>6. Kept(u)'
      BY <1>22 DEF Close, Safe, Kept, Role
  <2> QED
      BY <2>1, <2>2, <2>3, <2>4, <2>5, <2>6, SameIsSafe DEF Safe
<1>23. ASSUME NEW f \in Files, Reap(f) PROVE \A v \in Uploads : Safe(v)'
  <2> SUFFICES ASSUME NEW v \in Uploads PROVE Safe(v)'
      OBVIOUS
  <2>1. Role(v)'
      BY <1>23 DEF Reap, Safe, Role
  <2>2. Names(v)'
      BY <1>23 DEF Reap, Safe, Names, Role
  <2>3. Held(v)'
      BY <1>23 DEF Reap, Safe, Held, Role
  <2>4. Spared(v)'
      BY <1>23 DEF Reap, Safe, Spared, Role
  <2>5. Kept(v)'
      BY <1>23 DEF Reap, Safe, Kept, Role, Spared, Held
  <2> QED
      BY <2>1, <2>2, <2>3, <2>4, <2>5 DEF Safe
<1>24. ASSUME NEW f \in Files, ReapParts(f) PROVE \A v \in Uploads : Safe(v)'
  <2> SUFFICES ASSUME NEW v \in Uploads PROVE Safe(v)'
      OBVIOUS
  <2>1. Role(v)'
      BY <1>24 DEF ReapParts, Safe, Role
  <2>2. Names(v)'
      BY <1>24 DEF ReapParts, Safe, Names, Role
  <2>3. Held(v)'
      BY <1>24 DEF ReapParts, Safe, Held, Role
  <2>4. Spared(v)'
      BY <1>24 DEF ReapParts, Safe, Spared, Role
  <2>5. Kept(v)'
    <3>1. /\ f \in PartsOf /\ f \in listing /\ reaper = "sweeping"
          /\ UNCHANGED <<staged, status, session, source, pc, late, stranded>>
        BY <1>24 DEF ReapParts
    <3>2. Source(v) \in disk => Source(v) \in disk'
        BY <1>24, <3>1 DEF ReapParts, PartsOf
    <3>3. <<v, Server>> \in disk => <<v, Server>> \in disk'
        BY <1>24, <3>1 DEF ReapParts, PartsOf
    <3>4. v \in staged \ late /\ session[v] = "live" /\ <<v, Parts>> \in disk =>
            <<v, Parts>> \in disk'
        BY <1>24, <3>1 DEF ReapParts, Safe, Spared
    <3> QED
        BY <3>1, <3>2, <3>3, <3>4 DEF Safe, Kept
  <2> QED
      BY <2>1, <2>2, <2>3, <2>4, <2>5 DEF Safe
<1>25. ASSUME NEW f \in Files, Age(f) PROVE \A v \in Uploads : Safe(v)'
  <2> SUFFICES ASSUME NEW v \in Uploads PROVE Safe(v)'
      OBVIOUS
  <2>1. Role(v)'
      BY <1>25 DEF Age, Safe, Role
  <2>2. Names(v)'
      BY <1>25 DEF Age, Safe, Names, Role
  <2>3. Held(v)'
    <3>1. UNCHANGED <<status, pc, runs, disk, late>> /\ old' = old \cup {f} /\ ~InFlight(f)
        BY <1>25 DEF Age
    <3>2. status[v] = "writing" => f # <<v, 0>>
        BY <3>1 DEF InFlight
    <3>3. pc[v] \in {"copying", "taken", "work"} => f # Temp(v)
        BY <3>1 DEF InFlight
    <3>4. pc[v] = "take" => f # <<v, Server>>
        BY <3>1 DEF InFlight
    <3> QED
        BY <3>1, <3>2, <3>3, <3>4 DEF Safe, Held
  <2>4. Spared(v)'
      BY <1>25 DEF Age, Safe, Spared, Role
  <2>5. Kept(v)'
      BY <1>25 DEF Age, Safe, Kept, Role
  <2> QED
      BY <2>1, <2>2, <2>3, <2>4, <2>5 DEF Safe
<1>26. CASE List
  <2> SUFFICES ASSUME NEW v \in Uploads PROVE Safe(v)'
      OBVIOUS
  <2>1. Role(v)'
      BY <1>26 DEF List, Safe, Role
  <2>2. Names(v)'
      BY <1>26 DEF List, Safe, Names, Role
  <2>3. Held(v)'
      BY <1>26 DEF List, Safe, Held, Role
  <2>4. Spared(v)'
    <3> SUFFICES ASSUME reaper' = "sweeping", v \in staged
                 PROVE  Source(v) \notin listing' /\ <<v, Parts>> \notin listing'
        BY <1>26 DEF List, Spared
    <3>1. listing' \subseteq Copies
        BY <1>26 DEF List, There
    <3> QED
        BY <3>1 DEF Copies
  <2>5. Kept(v)'
      BY <1>26 DEF List, Safe, Kept, Role
  <2> QED
      BY <2>1, <2>2, <2>3, <2>4, <2>5 DEF Safe
<1>27. CASE Query
  <2> SUFFICES ASSUME NEW v \in Uploads PROVE Safe(v)'
      OBVIOUS
  <2>1. Role(v)'
      BY <1>27 DEF Query, Safe, Role
  <2>2. Names(v)'
      BY <1>27 DEF Query, Safe, Names, Role
  <2>3. Held(v)'
      BY <1>27 DEF Query, Safe, Held, Role
  <2>4. Spared(v)'
    <3>1. UNCHANGED <<staged, status, session, source, listing, old, late>>
        BY <1>27 DEF Query
    <3>2. live' = Named \cap There
        BY <1>27 DEF Query
    <3>3. v \in staged /\ status[v] = "unfinished" => Source(v) \in Named
        BY DEF Named, LiveSources
    <3>4. v \in staged /\ session[v] \in {"open", "live"} => <<v, Parts>> \in Named
        BY DEF Named, LiveParts
    <3> QED
        BY <3>1, <3>2, <3>3, <3>4 DEF Spared
  <2>5. Kept(v)'
      BY <1>27 DEF Query, Safe, Kept, Role
  <2> QED
      BY <2>1, <2>2, <2>3, <2>4, <2>5 DEF Safe
<1>28. CASE EndPass
  <2> SUFFICES ASSUME NEW v \in Uploads PROVE Safe(v)'
      OBVIOUS
  <2>1. Role(v)'
      BY <1>28 DEF EndPass, Safe, Role
  <2>2. Names(v)'
      BY <1>28 DEF EndPass, Safe, Names, Role
  <2>3. Held(v)'
      BY <1>28 DEF EndPass, Safe, Held, Role
  <2>4. Spared(v)'
      BY <1>28 DEF EndPass, Safe, Spared, Role
  <2>5. Kept(v)'
      BY <1>28 DEF EndPass, Safe, Kept, Role
  <2> QED
      BY <2>1, <2>2, <2>3, <2>4, <2>5 DEF Safe
<1>29. CASE Crash
  <2> SUFFICES ASSUME NEW v \in Uploads PROVE Safe(v)'
      OBVIOUS
  <2>1. Role(v)'
      BY <1>29 DEF Crash, Safe, Role
  <2>2. Names(v)'
      BY <1>29 DEF Crash, Safe, Names, Role
  <2>3. Held(v)'
      BY <1>29 DEF Crash, Safe, Held, Role
  <2>4. Spared(v)'
      BY <1>29 DEF Crash, Safe, Spared, Role
  <2>5. Kept(v)'
      BY <1>29 DEF Crash, Safe, Kept, Role
  <2> QED
      BY <2>1, <2>2, <2>3, <2>4, <2>5 DEF Safe
<1>30. CASE UNCHANGED vars
  <2> SUFFICES ASSUME NEW v \in Uploads PROVE Safe(v)'
      OBVIOUS
  <2>1. Role(v)'
      BY <1>30 DEF vars, Safe, Role
  <2>2. Names(v)'
      BY <1>30 DEF vars, Safe, Names, Role
  <2>3. Held(v)'
      BY <1>30 DEF vars, Safe, Held, Role
  <2>4. Spared(v)'
      BY <1>30 DEF vars, Safe, Spared, Role
  <2>5. Kept(v)'
      BY <1>30 DEF vars, Safe, Kept, Role
  <2> QED
      BY <2>1, <2>2, <2>3, <2>4, <2>5 DEF Safe
<1> QED
    BY <1>1, <1>2, <1>3, <1>4, <1>5, <1>6, <1>7, <1>8, <1>9, <1>10, <1>11, <1>12, <1>13, <1>14,
       <1>15, <1>16, <1>17, <1>18, <1>19, <1>20, <1>21, <1>22, <1>23, <1>24, <1>25, <1>26,
       <1>27, <1>28, <1>29, <1>30 DEF Next, Pass, GracePasses

-----------------------------------------------------------------------------
(* The theorems *)

LEMMA InitIInv == Init => IInv
<1> SUFFICES ASSUME Init PROVE IInv
    OBVIOUS
<1>1. TypeOK
    BY BoundsType DEF Init, TypeOK, NoFile
<1>2. ASSUME NEW u \in Uploads PROVE Safe(u)
    BY DEF Init, Safe, Role, Names, Held, Spared, Kept, Busy, NoFile
<1> QED
    BY <1>1, <1>2 DEF Init, IInv

THEOREM Invariance == Spec => []IInv
<1>1. IInv /\ [Next]_vars => IInv'
    BY NextTypes, NextListing, NextSafe DEF IInv
<1> QED
    BY InitIInv, <1>1, PTL DEF Spec

\* Whatever is uploaded, run, reaped and crashed, rows, runs and files are as their types say;
\* above all no file is old that is not there, and none lies outside the three places.
THEOREM TypeCorrect == Spec => []TypeOK
<1>1. IInv => TypeOK
    BY DEF IInv
<1> QED
    BY <1>1, Invariance, PTL

\* "Kept when the failure will be retried": no interleaving of ingestion, run, reaper and crash
\* takes the bytes somebody will still ask for, but for the exceptions BytesAreKept names.
THEOREM WaitingBytesAreKept == Spec => []BytesAreKept
<1>1. IInv => BytesAreKept
    BY DEF IInv, Safe, Kept, BytesAreKept, StagedFileIsKept, TypeOK
<1> QED
    BY <1>1, Invariance, PTL

\* The reaper's query, made behind its listing, is enough: what it then deletes no row protects
\* and no run holds.
THEOREM ReaperIsCareful == Spec => ReaperSparesWork
<1> DEFINE Spares ==
      \A f \in disk : f \notin disk' /\ listing' # listing =>
        /\ InFlight(f) => f[2] = Server /\ f[1] \in late
        /\ f \in Named => f[1] \in late
<1>1. ASSUME IInv, NEW f \in old \ live, f \in listing, reaper = "sweeping"
      PROVE  /\ InFlight(f) => f[2] = Server /\ f[1] \in late
             /\ f \in Named => f[1] \in late
  <2>1. f \in Files /\ f[1] \in Uploads /\ f = <<f[1], f[2]>>
      BY <1>1 DEF IInv, TypeOK, Files, Scratch, Copies, PartsOf
  <2>2. Safe(f[1])
      BY <1>1, <2>1 DEF IInv
  <2>3. InFlight(f) => f[2] = Server /\ f[1] \in late
      BY <1>1, <2>1, <2>2 DEF InFlight, Safe, Held, Temp
  <2>4. f \in LiveSources => f[1] \in late
      BY <1>1, <2>1, <2>2 DEF LiveSources, Source, Safe, Spared
  <2>5. f \in LiveParts => f[1] \in late
      BY <1>1, <2>1, <2>2 DEF LiveParts, Safe, Spared
  <2> QED
      BY <2>3, <2>4, <2>5 DEF Named
<1>2. IInv /\ [Next]_vars => [Spares]_vars
  <2> SUFFICES ASSUME IInv, [Next]_vars, NEW g \in disk, g \notin disk', listing' # listing
               PROVE  /\ InFlight(g) => g[2] = Server /\ g[1] \in late
                      /\ g \in Named => g[1] \in late
      OBVIOUS
  <2>1. \E f \in Files : Reap(f) \/ ReapParts(f)
      BY DEF Next, vars, reaping, OpenSession, PartsArrive, AssemblyFails, CloseSession,
         CleanParts,
         RetrySession, Write, Record, Accept, GiveUpWriting, Retry, Begin, Fetch, Take,
            TakeCopy,
         Stream, FinishCopy, NothingToTake, RecordTake, Finish, Fail, Close, GracePasses, Age,
         Pass, List, Query, EndPass, Crash, KeepFiles
  <2>2. g \in old \ live /\ g \in listing /\ reaper = "sweeping"
      BY <2>1 DEF Reap, ReapParts, Unlink, KeepFiles
  <2> QED
      BY <1>1, <2>2
<1> QED
    BY <1>2, Invariance, PTL DEF Spec, ReaperSparesWork

=============================================================================
