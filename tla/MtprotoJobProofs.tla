--------------------------- MODULE MtprotoJobProofs ---------------------------
(***************************************************************************)
(* What MtprotoJob guarantees for any number of queue entries, slots,      *)
(* requests, attempts and crashes.                                         *)
(***************************************************************************)
EXTENDS MtprotoJob, FiniteSetTheorems, TLAPS

-----------------------------------------------------------------------------
(* The inductive invariant *)

\* A busy slot alone holds an active entry, and runs only while the worker does.
Holdings ==
  /\ \A s \in Slots : IF pc[s] = "idle" THEN held[s] = None
                      ELSE up /\ held[s] \in Jobs /\ jobStatus[held[s]] = "active"
  /\ \A s, t \in Slots : pc[s] # "idle" /\ held[s] = held[t] => s = t

\* Nothing happens before the row is inserted; a claim of an entry is counted.
Beginnings ==
  /\ status = "NONE" => /\ attempts = 0
                        /\ \A c \in Requests : at[c] = "idle"
                        /\ \A j \in Jobs : jobStatus[j] = "free"
  /\ \A j \in Jobs : /\ jobStatus[j] = "free" => jobAttempts[j] = 0
                     /\ jobStatus[j] = "active" => jobAttempts[j] > 0

\* While the row was not reopened over a fetch, a fetch closes it to every other.
FetchesExclude ==
  ~overrun => /\ Fetchers # {} => status # "PENDING"
              /\ \A s, t \in Fetchers : s = t

\* A request that will reset the counts or queue an entry, once it has set the row PENDING.
Renewing == {c \in Requests : at[c] \in {"clearing", "enqueueing"}}

\* While no retry met an older entry, there is one entry or one request about to queue it.
EntriesAreSingle ==
  ~stale =>
    /\ \A j, k \in Jobs : Live(j) /\ Live(k) => j = k
    /\ \A c \in Renewing : /\ status = "PENDING"
                           /\ \A j \in Jobs : ~Live(j)
                           /\ \A d \in Renewing : c = d

\* The row's count is not ahead of the failures when an entry may claim it, and by one at most
\* while a run is on.
AttemptsFail ==
  ~stale =>
    /\ attempts <= failures + 1
    /\ \A s \in Fetchers : attempt[s] <= failures + 1
    /\ status = "PENDING"
         /\ ((\E c \in Requests : at[c] = "enqueueing") \/ \E j \in Jobs : Live(j))
         => attempts <= failures

Typed == TypeOK /\ Holdings /\ Beginnings
Safe == Typed /\ FetchesExclude /\ EntriesAreSingle /\ AttemptsFail

\* None of the named races has happened.
Orderly == ~stale /\ ~crossed /\ ~severed

\* The entry's count never exceeds the row's, but for a claim whose row is not claimed yet.
CountsAgree ==
  \A j \in Jobs :
    /\ status = "PENDING" /\ jobStatus[j] = "pending" => jobAttempts[j] <= attempts
    /\ status = "PENDING" /\ jobStatus[j] = "active" => jobAttempts[j] <= attempts + 1
    /\ status \in MidFlight /\ Live(j) => jobStatus[j] = "active" /\ jobAttempts[j] <= attempts

\* A run that is to end its entry for good leaves a row that is closed, or flagged; one that
\* fails for now has an attempt left in the entry if it has one in the row.
EndingsAgree ==
  \A s \in Slots :
    /\ pc[s] \in {"handed", "burning"} => status \notin Active
    /\ pc[s] = "done" => status \notin Active \/ cancelRequested
    /\ pc[s] = "failing" => status \notin MidFlight
    /\ pc[s] = "failing" /\ status = "PENDING" =>
         jobAttempts[held[s]] < MaxAttempts /\ jobAttempts[held[s]] <= attempts
    /\ pc[s] \in Fetching => status \in MidFlight /\ attempt[s] = attempts

AttendedOrderly ==
  Orderly =>
    /\ ~overrun
    /\ \A c \in Requests : at[c] = "sweeping" => cancelRequested
    /\ up /\ status \in MidFlight => Fetchers # {}
    /\ CountsAgree
    /\ EndingsAgree
    /\ status \in Active /\ ~cancelRequested => Renewing # {} \/ \E j \in Jobs : Live(j)

\* What the row still holds in store: a fetch under way, one that may be claimed, and one
\* that a restart gives back.
Running == Cardinality(Fetchers)
InStore ==
  IF status \in {"NONE", "PENDING"} \/ (status \in MidFlight /\ Running = 0) THEN 1 ELSE 0

UploadsAreOwed == uploads + Running + InStore <= 1 + resets + disowned

IInv == Safe /\ AttendedOrderly /\ UploadsAreOwed

-----------------------------------------------------------------------------
(* Types and holdings *)

\* What Fail leaves: the fetch has ended, the row reads FAILED, or PENDING if there is an attempt
\* left and the entry may be tried again.
Failed(s) ==
  /\ pc[s] \in Fetching
  /\ \/ status' = "FAILED"
     \/ status' = "PENDING" /\ attempt[s] < MaxAttempts /\ pc'[s] = "failing"
  /\ \E next \in {"failing", "burning"} : Goto(s, next)
  /\ failures' = failures + 1
  /\ UNCHANGED <<cancelRequested, attempts, queue, up, at, uploads, crashes, resets, overrun,
                 stale, crossed, severed, disowned>>

\* Fail, whatever the error, does no more than that.
LEMMA FailFails ==
  ASSUME Typed, NEW s \in Slots, Fail(s)
  PROVE  Failed(s)
<1>1. PICK retryable, recurs \in BOOLEAN :
        /\ ~retryable => recurs
        /\ SetStatus(IF recurs \/ attempt[s] >= MaxAttempts THEN "FAILED" ELSE "PENDING")
        /\ Goto(s, IF retryable THEN "failing" ELSE "burning")
    BY DEF Fail
<1>2. pc[s] \in Fetching /\ attempt[s] \in Nat /\ pc'[s] \in {"failing", "burning"}
    BY <1>1 DEF Fail, Typed, TypeOK, Fetching, Goto
<1>3. CASE recurs \/ attempt[s] >= MaxAttempts
  <2>1. status' = "FAILED" /\ (Goto(s, "failing") \/ Goto(s, "burning"))
      BY <1>1, <1>3, Zenon DEF SetStatus
  <2> QED
      BY <1>1, <1>2, <2>1 DEF Fail, Failed, Goto, SetStatus
<1>4. CASE ~(recurs \/ attempt[s] >= MaxAttempts)
  <2>1. attempt[s] < MaxAttempts
      BY <1>2, <1>4, AttemptsType
  <2>2. status' = "PENDING" /\ Goto(s, "failing")
      BY <1>1, <1>4, Zenon DEF SetStatus
  <2>3. pc'[s] = "failing"
      BY <2>2 DEF Goto, Typed, TypeOK
  <2> QED
      BY <1>1, <1>2, <2>1, <2>2, <2>3 DEF Fail, Failed, Goto, SetStatus
<1> QED
    BY <1>3, <1>4

\* The types, the holdings and the beginnings hold at the start ...
LEMMA InitTyped == Init => Typed
<1> SUFFICES ASSUME Init PROVE Typed
    OBVIOUS
<1>1. TypeOK
    BY DEF Init, TypeOK, Active, MidFlight, Closed, Fetching
<1>2. Holdings /\ Beginnings
    BY DEF Init, Holdings, Beginnings
<1> QED
    BY <1>1, <1>2 DEF Typed

\* ... and every step keeps them.
LEMMA NextTyped == Typed /\ [Next]_vars => Typed'
<1> SUFFICES ASSUME Typed, [Next]_vars PROVE Typed'
    OBVIOUS
<1> USE AttemptsType, CrashesType, NoneIsNoJob
    DEF Typed, TypeOK, Holdings, Beginnings, Active, MidFlight, Closed, Fetching, Refund,
        row, queue, slots, history, Goto, Release, SetStatus, Step
<1>1. ASSUME NEW c \in Requests, Create(c) PROVE Typed'
    BY <1>1 DEF Create
<1>2. ASSUME NEW c \in Requests, Enqueue(c) PROVE Typed'
    BY <1>2 DEF Enqueue
<1>3. ASSUME NEW c \in Requests, Retry(c) PROVE Typed'
    BY <1>3 DEF Retry
<1>4. ASSUME NEW c \in Requests, Reset(c) PROVE Typed'
    BY <1>4 DEF Reset
<1>5. ASSUME NEW c \in Requests, Clear(c) PROVE Typed'
    BY <1>5 DEF Clear
<1>6. ASSUME NEW c \in Requests, Cancel(c) PROVE Typed'
    BY <1>6 DEF Cancel
<1>7. ASSUME NEW c \in Requests, Sweep(c) PROVE Typed'
    BY <1>7 DEF Sweep
<1>8. ASSUME NEW c \in Requests, CutOff(c) PROVE Typed'
    BY <1>8 DEF CutOff
<1>9. ASSUME NEW s \in Slots, ClaimEntry(s) PROVE Typed'
    BY <1>9 DEF ClaimEntry
<1>10. ASSUME NEW s \in Slots, Read(s) PROVE Typed'
    BY <1>10 DEF Read
<1>11. ASSUME NEW s \in Slots, ClaimRow(s) PROVE Typed'
    BY <1>11 DEF ClaimRow
<1>12. ASSUME NEW s \in Slots, BeginDownload(s) PROVE Typed'
    BY <1>12 DEF BeginDownload
<1>13. ASSUME NEW s \in Slots, Download(s) PROVE Typed'
    BY <1>13 DEF Download
<1>14. ASSUME NEW s \in Slots, Verify(s) PROVE Typed'
    BY <1>14 DEF Verify
<1>15. ASSUME NEW s \in Slots, HandOff(s) PROVE Typed'
    BY <1>15 DEF HandOff
<1>16. ASSUME NEW s \in Slots, Disown(s) PROVE Typed'
    BY <1>16 DEF Disown
<1>17. ASSUME NEW s \in Slots, MarkCancelled(s) PROVE Typed'
    BY <1>17 DEF MarkCancelled
<1>18. ASSUME NEW s \in Slots, Fail(s) PROVE Typed'
    BY <1>18, FailFails DEF Failed
<1>19. ASSUME NEW s \in Slots, Break(s) PROVE Typed'
    BY <1>19 DEF Break
<1>20. ASSUME NEW s \in Slots, Settle(s) PROVE Typed'
    BY <1>20 DEF Settle
<1>21. ASSUME NEW s \in Slots, Drop(s) PROVE Typed'
    BY <1>21 DEF Drop
<1>22. CASE Crash
  <2>1. up' \in BOOLEAN
      BY <1>22, Zenon DEF Crash
  <2> QED
      BY <1>22, <2>1 DEF Crash
<1>23. CASE Restart
    BY <1>23 DEF Restart
<1>24. CASE UNCHANGED vars
    BY <1>24 DEF vars, row, queue, slots, history
<1> QED
    BY <1>1, <1>2, <1>3, <1>4, <1>5, <1>6, <1>7, <1>8, <1>9, <1>10, <1>11, <1>12, <1>13,
       <1>14, <1>15, <1>16, <1>17, <1>18, <1>19, <1>20, <1>21, <1>22, <1>23, <1>24
       DEF Next

\* Every variable keeps its type.
THEOREM TypeCorrect == Spec => []TypeOK
<1>1. Typed => TypeOK
    BY DEF Typed
<1> QED
    BY InitTyped, NextTyped, <1>1, PTL DEF Spec

-----------------------------------------------------------------------------
(* One fetch at a time *)

\* ClaimRow takes the row only as PENDING and leaves it otherwise, so that, until a reset reopens
\* it over a fetch, no second slot gets past the claim.
LEMMA NextFetchesExclude == Typed /\ FetchesExclude /\ [Next]_vars => FetchesExclude'
<1> SUFFICES ASSUME Typed /\ FetchesExclude, [Next]_vars PROVE FetchesExclude'
    OBVIOUS
<1> USE AttemptsType, NoneIsNoJob
    DEF Typed, TypeOK, Holdings, Beginnings, FetchesExclude, Fetchers, Active, MidFlight,
       Closed, Fetching,
        row, queue, slots, history, Goto, Release, SetStatus, Step
<1>1. ASSUME NEW c \in Requests, Create(c) PROVE FetchesExclude'
    BY <1>1 DEF Create
<1>2. ASSUME NEW c \in Requests, Enqueue(c) PROVE FetchesExclude'
    BY <1>2 DEF Enqueue
<1>3. ASSUME NEW c \in Requests, Retry(c) PROVE FetchesExclude'
    BY <1>3 DEF Retry
<1>4. ASSUME NEW c \in Requests, Reset(c) PROVE FetchesExclude'
    BY <1>4 DEF Reset
<1>5. ASSUME NEW c \in Requests, Clear(c) PROVE FetchesExclude'
    BY <1>5 DEF Clear
<1>6. ASSUME NEW c \in Requests, Cancel(c) PROVE FetchesExclude'
    BY <1>6 DEF Cancel
<1>7. ASSUME NEW c \in Requests, Sweep(c) PROVE FetchesExclude'
    BY <1>7 DEF Sweep
<1>8. ASSUME NEW c \in Requests, CutOff(c) PROVE FetchesExclude'
    BY <1>8 DEF CutOff
<1>9. ASSUME NEW s \in Slots, ClaimEntry(s) PROVE FetchesExclude'
    BY <1>9 DEF ClaimEntry
<1>10. ASSUME NEW s \in Slots, Read(s) PROVE FetchesExclude'
    BY <1>10 DEF Read
<1>11. ASSUME NEW s \in Slots, ClaimRow(s) PROVE FetchesExclude'
    BY <1>11 DEF ClaimRow
<1>12. ASSUME NEW s \in Slots, BeginDownload(s) PROVE FetchesExclude'
    BY <1>12 DEF BeginDownload
<1>13. ASSUME NEW s \in Slots, Download(s) PROVE FetchesExclude'
    BY <1>13 DEF Download
<1>14. ASSUME NEW s \in Slots, Verify(s) PROVE FetchesExclude'
    BY <1>14 DEF Verify
<1>15. ASSUME NEW s \in Slots, HandOff(s) PROVE FetchesExclude'
    BY <1>15 DEF HandOff
<1>16. ASSUME NEW s \in Slots, Disown(s) PROVE FetchesExclude'
    BY <1>16 DEF Disown
<1>17. ASSUME NEW s \in Slots, MarkCancelled(s) PROVE FetchesExclude'
    BY <1>17 DEF MarkCancelled
<1>18. ASSUME NEW s \in Slots, Fail(s) PROVE FetchesExclude'
    BY <1>18, FailFails DEF Failed
<1>19. ASSUME NEW s \in Slots, Break(s) PROVE FetchesExclude'
    BY <1>19 DEF Break
<1>20. ASSUME NEW s \in Slots, Settle(s) PROVE FetchesExclude'
    BY <1>20 DEF Settle
<1>21. ASSUME NEW s \in Slots, Drop(s) PROVE FetchesExclude'
    BY <1>21 DEF Drop
<1>22. CASE Crash
    BY <1>22 DEF Crash
<1>23. CASE Restart
    BY <1>23 DEF Restart
<1>24. CASE UNCHANGED vars
    BY <1>24 DEF vars, row, queue, slots, history
<1> QED
    BY <1>1, <1>2, <1>3, <1>4, <1>5, <1>6, <1>7, <1>8, <1>9, <1>10, <1>11, <1>12, <1>13,
       <1>14, <1>15, <1>16, <1>17, <1>18, <1>19, <1>20, <1>21, <1>22, <1>23, <1>24 DEF Next

-----------------------------------------------------------------------------
(* Entries and counts *)

\* A reset that meets no live entry and no PENDING row is alone until its own entry is queued.
LEMMA NextEntriesAreSingle == Typed /\ EntriesAreSingle /\ [Next]_vars => EntriesAreSingle'
<1> SUFFICES ASSUME Typed /\ EntriesAreSingle, [Next]_vars PROVE EntriesAreSingle'
    OBVIOUS
<1> USE AttemptsType, NoneIsNoJob
    DEF Typed, TypeOK, Holdings, Beginnings, EntriesAreSingle, Renewing, Live, Fetchers, Active,
       MidFlight, Closed, Fetching,
        row, queue, slots, history, Goto, Release, SetStatus, Step
<1>1. ASSUME NEW c \in Requests, Create(c) PROVE EntriesAreSingle'
    BY <1>1 DEF Create
<1>2. ASSUME NEW c \in Requests, Enqueue(c) PROVE EntriesAreSingle'
    BY <1>2 DEF Enqueue
<1>3. ASSUME NEW c \in Requests, Retry(c) PROVE EntriesAreSingle'
    BY <1>3 DEF Retry
<1>4. ASSUME NEW c \in Requests, Reset(c) PROVE EntriesAreSingle'
    BY <1>4 DEF Reset
<1>5. ASSUME NEW c \in Requests, Clear(c) PROVE EntriesAreSingle'
    BY <1>5 DEF Clear
<1>6. ASSUME NEW c \in Requests, Cancel(c) PROVE EntriesAreSingle'
    BY <1>6 DEF Cancel
<1>7. ASSUME NEW c \in Requests, Sweep(c) PROVE EntriesAreSingle'
    BY <1>7 DEF Sweep
<1>8. ASSUME NEW c \in Requests, CutOff(c) PROVE EntriesAreSingle'
    BY <1>8 DEF CutOff
<1>9. ASSUME NEW s \in Slots, ClaimEntry(s) PROVE EntriesAreSingle'
    BY <1>9 DEF ClaimEntry
<1>10. ASSUME NEW s \in Slots, Read(s) PROVE EntriesAreSingle'
    BY <1>10 DEF Read
<1>11. ASSUME NEW s \in Slots, ClaimRow(s) PROVE EntriesAreSingle'
    BY <1>11 DEF ClaimRow
<1>12. ASSUME NEW s \in Slots, BeginDownload(s) PROVE EntriesAreSingle'
    BY <1>12 DEF BeginDownload
<1>13. ASSUME NEW s \in Slots, Download(s) PROVE EntriesAreSingle'
    BY <1>13 DEF Download
<1>14. ASSUME NEW s \in Slots, Verify(s) PROVE EntriesAreSingle'
    BY <1>14 DEF Verify
<1>15. ASSUME NEW s \in Slots, HandOff(s) PROVE EntriesAreSingle'
    BY <1>15 DEF HandOff
<1>16. ASSUME NEW s \in Slots, Disown(s) PROVE EntriesAreSingle'
    BY <1>16 DEF Disown
<1>17. ASSUME NEW s \in Slots, MarkCancelled(s) PROVE EntriesAreSingle'
    BY <1>17 DEF MarkCancelled
<1>18. ASSUME NEW s \in Slots, Fail(s) PROVE EntriesAreSingle'
    BY <1>18, FailFails DEF Failed
<1>19. ASSUME NEW s \in Slots, Break(s) PROVE EntriesAreSingle'
    BY <1>19 DEF Break
<1>20. ASSUME NEW s \in Slots, Settle(s) PROVE EntriesAreSingle'
    BY <1>20 DEF Settle
<1>21. ASSUME NEW s \in Slots, Drop(s) PROVE EntriesAreSingle'
    BY <1>21 DEF Drop
<1>22. CASE Crash
    BY <1>22 DEF Crash
<1>23. CASE Restart
    BY <1>23 DEF Restart
<1>24. CASE UNCHANGED vars
    BY <1>24 DEF vars, row, queue, slots, history
<1> QED
    BY <1>1, <1>2, <1>3, <1>4, <1>5, <1>6, <1>7, <1>8, <1>9, <1>10, <1>11, <1>12, <1>13,
       <1>14, <1>15, <1>16, <1>17, <1>18, <1>19, <1>20, <1>21, <1>22, <1>23, <1>24 DEF Next

\* The row counts an attempt where a run begins, and gives it back, or sees a failure counted,
\* before another entry may claim it: a restart refunds what it interrupts.
LEMMA NextAttemptsFail == Typed /\ EntriesAreSingle /\ AttemptsFail /\ [Next]_vars => AttemptsFail'
<1> SUFFICES ASSUME Typed /\ EntriesAreSingle /\ AttemptsFail, [Next]_vars PROVE AttemptsFail'
    OBVIOUS
<1> USE AttemptsType, NoneIsNoJob
    DEF Typed, TypeOK, Holdings, Beginnings, EntriesAreSingle,
        AttemptsFail, Refund, Renewing, Live, Fetchers, Active, MidFlight, Closed, Fetching,
        row, queue, slots, history, Goto, Release, SetStatus, Step
<1>1. ASSUME NEW c \in Requests, Create(c) PROVE AttemptsFail'
    BY <1>1 DEF Create
<1>2. ASSUME NEW c \in Requests, Enqueue(c) PROVE AttemptsFail'
    BY <1>2 DEF Enqueue
<1>3. ASSUME NEW c \in Requests, Retry(c) PROVE AttemptsFail'
    BY <1>3 DEF Retry
<1>4. ASSUME NEW c \in Requests, Reset(c) PROVE AttemptsFail'
    BY <1>4 DEF Reset
<1>5. ASSUME NEW c \in Requests, Clear(c) PROVE AttemptsFail'
    BY <1>5 DEF Clear
<1>6. ASSUME NEW c \in Requests, Cancel(c) PROVE AttemptsFail'
    BY <1>6 DEF Cancel
<1>7. ASSUME NEW c \in Requests, Sweep(c) PROVE AttemptsFail'
    BY <1>7 DEF Sweep
<1>8. ASSUME NEW c \in Requests, CutOff(c) PROVE AttemptsFail'
    BY <1>8 DEF CutOff
<1>9. ASSUME NEW s \in Slots, ClaimEntry(s) PROVE AttemptsFail'
    BY <1>9 DEF ClaimEntry
<1>10. ASSUME NEW s \in Slots, Read(s) PROVE AttemptsFail'
    BY <1>10 DEF Read
<1>11. ASSUME NEW s \in Slots, ClaimRow(s) PROVE AttemptsFail'
    BY <1>11 DEF ClaimRow
<1>12. ASSUME NEW s \in Slots, BeginDownload(s) PROVE AttemptsFail'
    BY <1>12 DEF BeginDownload
<1>13. ASSUME NEW s \in Slots, Download(s) PROVE AttemptsFail'
    BY <1>13 DEF Download
<1>14. ASSUME NEW s \in Slots, Verify(s) PROVE AttemptsFail'
    BY <1>14 DEF Verify
<1>15. ASSUME NEW s \in Slots, HandOff(s) PROVE AttemptsFail'
    BY <1>15 DEF HandOff
<1>16. ASSUME NEW s \in Slots, Disown(s) PROVE AttemptsFail'
    BY <1>16 DEF Disown
<1>17. ASSUME NEW s \in Slots, MarkCancelled(s) PROVE AttemptsFail'
    BY <1>17 DEF MarkCancelled
<1>18. ASSUME NEW s \in Slots, Fail(s) PROVE AttemptsFail'
    BY <1>18, FailFails DEF Failed
<1>19. ASSUME NEW s \in Slots, Break(s) PROVE AttemptsFail'
    BY <1>19 DEF Break
<1>20. ASSUME NEW s \in Slots, Settle(s) PROVE AttemptsFail'
    BY <1>20 DEF Settle
<1>21. ASSUME NEW s \in Slots, Drop(s) PROVE AttemptsFail'
    BY <1>21 DEF Drop
<1>22. CASE Crash
    BY <1>22 DEF Crash
<1>23. CASE Restart
    BY <1>23 DEF Restart
<1>24. CASE UNCHANGED vars
    BY <1>24 DEF vars, row, queue, slots, history
<1> QED
    BY <1>1, <1>2, <1>3, <1>4, <1>5, <1>6, <1>7, <1>8, <1>9, <1>10, <1>11, <1>12, <1>13,
       <1>14, <1>15, <1>16, <1>17, <1>18, <1>19, <1>20, <1>21, <1>22, <1>23, <1>24 DEF Next

-----------------------------------------------------------------------------
(* Attendance *)

\* Where none of the named races happened, the entry's count stays within the row's, so the
\* queue does not give the entry up while the row asks for another attempt.
LEMMA NextAttended == Safe /\ AttendedOrderly /\ [Next]_vars => AttendedOrderly'
<1> SUFFICES ASSUME Safe /\ AttendedOrderly, [Next]_vars PROVE AttendedOrderly'
    OBVIOUS
<1> USE AttemptsType, NoneIsNoJob
    DEF Typed, TypeOK, Holdings, Beginnings, Safe, FetchesExclude, EntriesAreSingle,
       AttendedOrderly,
        Orderly, CountsAgree, EndingsAgree, Refund, Renewing, Live, Fetchers, Active, MidFlight,
           Closed, Fetching,
        row, queue, slots, history, Goto, Release, SetStatus, Step
<1>1. ASSUME NEW c \in Requests, Create(c) PROVE AttendedOrderly'
    BY <1>1 DEF Create
<1>2. ASSUME NEW c \in Requests, Enqueue(c) PROVE AttendedOrderly'
    BY <1>2 DEF Enqueue
<1>3. ASSUME NEW c \in Requests, Retry(c) PROVE AttendedOrderly'
    BY <1>3 DEF Retry
<1>4. ASSUME NEW c \in Requests, Reset(c) PROVE AttendedOrderly'
    BY <1>4 DEF Reset
<1>5. ASSUME NEW c \in Requests, Clear(c) PROVE AttendedOrderly'
    BY <1>5 DEF Clear
<1>6. ASSUME NEW c \in Requests, Cancel(c) PROVE AttendedOrderly'
    BY <1>6 DEF Cancel
<1>7. ASSUME NEW c \in Requests, Sweep(c) PROVE AttendedOrderly'
    BY <1>7 DEF Sweep
<1>8. ASSUME NEW c \in Requests, CutOff(c) PROVE AttendedOrderly'
    BY <1>8 DEF CutOff
<1>9. ASSUME NEW s \in Slots, ClaimEntry(s) PROVE AttendedOrderly'
    BY <1>9 DEF ClaimEntry
<1>10. ASSUME NEW s \in Slots, Read(s) PROVE AttendedOrderly'
    BY <1>10 DEF Read
<1>11. ASSUME NEW s \in Slots, ClaimRow(s) PROVE AttendedOrderly'
    BY <1>11 DEF ClaimRow
<1>12. ASSUME NEW s \in Slots, BeginDownload(s) PROVE AttendedOrderly'
    BY <1>12 DEF BeginDownload
<1>13. ASSUME NEW s \in Slots, Download(s) PROVE AttendedOrderly'
    BY <1>13 DEF Download
<1>14. ASSUME NEW s \in Slots, Verify(s) PROVE AttendedOrderly'
    BY <1>14 DEF Verify
<1>15. ASSUME NEW s \in Slots, HandOff(s) PROVE AttendedOrderly'
    BY <1>15 DEF HandOff
<1>16. ASSUME NEW s \in Slots, Disown(s) PROVE AttendedOrderly'
    BY <1>16 DEF Disown
<1>17. ASSUME NEW s \in Slots, MarkCancelled(s) PROVE AttendedOrderly'
    BY <1>17 DEF MarkCancelled
<1>18. ASSUME NEW s \in Slots, Fail(s) PROVE AttendedOrderly'
    BY <1>18, FailFails DEF Failed
<1>19. ASSUME NEW s \in Slots, Break(s) PROVE AttendedOrderly'
    BY <1>19 DEF Break
<1>20. ASSUME NEW s \in Slots, Settle(s) PROVE AttendedOrderly'
    BY <1>20 DEF Settle
<1>21. ASSUME NEW s \in Slots, Drop(s) PROVE AttendedOrderly'
    BY <1>21 DEF Drop
<1>22. CASE Crash
    BY <1>22 DEF Crash
<1>23. CASE Restart
    BY <1>23 DEF Restart
<1>24. CASE UNCHANGED vars
    BY <1>24 DEF vars, row, queue, slots, history
<1> QED
    BY <1>1, <1>2, <1>3, <1>4, <1>5, <1>6, <1>7, <1>8, <1>9, <1>10, <1>11, <1>12, <1>13,
       <1>14, <1>15, <1>16, <1>17, <1>18, <1>19, <1>20, <1>21, <1>22, <1>23, <1>24 DEF Next

-----------------------------------------------------------------------------
(* Uploads *)

\* The slots are finitely many, so the runs can be counted ...
LEMMA RunningType == IsFiniteSet(Fetchers) /\ Running \in Nat /\ (Running = 0 <=> Fetchers = {})
BY SlotsFinite, FS_Subset, FS_CardinalityType, FS_EmptySet DEF Fetchers, Running

\* ... a claim adds one ...
LEMMA RunningRises ==
  ASSUME NEW s \in Slots, s \notin Fetchers, Fetchers' = Fetchers \cup {s}
  PROVE  Running' = Running + 1
BY RunningType, FS_AddElement DEF Running

\* ... and an ending takes one away.
LEMMA RunningFalls ==
  ASSUME NEW s \in Slots, s \in Fetchers, Fetchers' = Fetchers \ {s}
  PROVE  Running' = Running - 1
BY RunningType, FS_RemoveElement DEF Running

\* Only a reset or a disowned hand-off puts an upload in store; a claim takes it out, and a
\* hand-off delivers what a claim took.
LEMMA NextOwed == Typed /\ UploadsAreOwed /\ [Next]_vars => UploadsAreOwed'
<1> SUFFICES ASSUME Typed /\ UploadsAreOwed, [Next]_vars PROVE UploadsAreOwed'
    OBVIOUS
<1>0. Running \in Nat /\ Running' \in Nat
    BY SlotsFinite, FS_Subset, FS_CardinalityType DEF Running, Fetchers
<1>a. Fetchers' = Fetchers => Running' = Running
    BY DEF Running
<1>c. pc' = pc => Fetchers' = Fetchers
    BY DEF Fetchers
<1>d. ASSUME NEW s \in Slots, pc[s] \in Fetching PROVE s \in Fetchers /\ Running > 0
    BY <1>d, RunningType DEF Fetchers
<1>b. uploads \in Nat /\ resets \in Nat /\ disowned \in Nat
    BY DEF Typed, TypeOK
<1> USE <1>0, <1>a, <1>b, <1>c DEF UploadsAreOwed, InStore, Active, MidFlight, Closed,
        row, queue, slots, history, Goto, Release, SetStatus, Step
<1>1. ASSUME NEW c \in Requests, Create(c) PROVE UploadsAreOwed'
    BY <1>1 DEF Create
<1>2. ASSUME NEW c \in Requests, Enqueue(c) PROVE UploadsAreOwed'
    BY <1>2 DEF Enqueue
<1>3. ASSUME NEW c \in Requests, Retry(c) PROVE UploadsAreOwed'
    BY <1>3 DEF Retry
<1>4. ASSUME NEW c \in Requests, Reset(c) PROVE UploadsAreOwed'
    BY <1>4 DEF Reset
<1>5. ASSUME NEW c \in Requests, Clear(c) PROVE UploadsAreOwed'
    BY <1>5 DEF Clear
<1>6. ASSUME NEW c \in Requests, Cancel(c) PROVE UploadsAreOwed'
    BY <1>6 DEF Cancel
<1>7. ASSUME NEW c \in Requests, Sweep(c) PROVE UploadsAreOwed'
    BY <1>7 DEF Sweep
<1>8. ASSUME NEW c \in Requests, CutOff(c) PROVE UploadsAreOwed'
    BY <1>8 DEF CutOff
<1>9. ASSUME NEW s \in Slots, ClaimEntry(s) PROVE UploadsAreOwed'
  <2>1. Fetchers' = Fetchers
      BY <1>9 DEF ClaimEntry, Fetchers, Fetching, Typed, TypeOK
  <2> QED
      BY <1>9, <2>1 DEF ClaimEntry
<1>10. ASSUME NEW s \in Slots, Read(s) PROVE UploadsAreOwed'
  <2>1. Fetchers' = Fetchers
      BY <1>10 DEF Read, Fetchers, Fetching, Typed, TypeOK
  <2> QED
      BY <1>10, <2>1 DEF Read
<1>11. ASSUME NEW s \in Slots, ClaimRow(s) PROVE UploadsAreOwed'
  <2>1. CASE status = "PENDING"
    <3>1. s \notin Fetchers /\ Fetchers' = Fetchers \cup {s}
        BY <1>11, <2>1 DEF ClaimRow, Fetchers, Fetching, Typed, TypeOK
    <3>2. Running' = Running + 1
        BY <3>1, RunningRises
    <3> QED
        BY <1>11, <2>1, <3>2 DEF ClaimRow
  <2>2. CASE status # "PENDING"
    <3>1. Fetchers' = Fetchers
        BY <1>11, <2>2 DEF ClaimRow, Fetchers, Fetching, Typed, TypeOK
    <3> QED
        BY <1>11, <2>2, <3>1 DEF ClaimRow
  <2> QED
      BY <2>1, <2>2
<1>12. ASSUME NEW s \in Slots, BeginDownload(s) PROVE UploadsAreOwed'
  <2>1. Fetchers' = Fetchers
      BY <1>12 DEF BeginDownload, Fetchers, Fetching, Typed, TypeOK
  <2>2. Running > 0
      BY <1>12, <1>d DEF BeginDownload, Fetching
  <2> QED
      BY <1>12, <2>1, <2>2 DEF BeginDownload
<1>13. ASSUME NEW s \in Slots, Download(s) PROVE UploadsAreOwed'
  <2>1. Fetchers' = Fetchers
      BY <1>13 DEF Download, Fetchers, Fetching, Typed, TypeOK
  <2> QED
      BY <1>13, <2>1 DEF Download
<1>14. ASSUME NEW s \in Slots, Verify(s) PROVE UploadsAreOwed'
  <2>1. Fetchers' = Fetchers
      BY <1>14 DEF Verify, Fetchers, Fetching, Typed, TypeOK
  <2>2. Running > 0
      BY <1>14, <1>d DEF Verify, Fetching
  <2> QED
      BY <1>14, <2>1, <2>2 DEF Verify
<1>15. ASSUME NEW s \in Slots, HandOff(s) PROVE UploadsAreOwed'
  <2>1. s \in Fetchers /\ Fetchers' = Fetchers \ {s}
      BY <1>15 DEF HandOff, Fetchers, Fetching, Typed, TypeOK
  <2>2. Running' = Running - 1
      BY <2>1, RunningFalls
  <2> QED
      BY <1>15, <2>2 DEF HandOff
<1>16. ASSUME NEW s \in Slots, Disown(s) PROVE UploadsAreOwed'
  <2>1. Fetchers' = Fetchers
      BY <1>16 DEF Disown, Fetchers, Fetching, Typed, TypeOK
  <2> QED
      BY <1>16, <2>1 DEF Disown
<1>17. ASSUME NEW s \in Slots, MarkCancelled(s) PROVE UploadsAreOwed'
  <2>1. s \in Fetchers /\ Fetchers' = Fetchers \ {s}
      BY <1>17 DEF MarkCancelled, Fetchers, Fetching, Typed, TypeOK
  <2>2. Running' = Running - 1
      BY <2>1, RunningFalls
  <2> QED
      BY <1>17, <2>2 DEF MarkCancelled
<1>18. ASSUME NEW s \in Slots, Fail(s) PROVE UploadsAreOwed'
  <2>1. Failed(s)
      BY <1>18, FailFails
  <2>2. s \in Fetchers /\ Fetchers' = Fetchers \ {s}
      BY <2>1 DEF Failed, Fetchers, Fetching, Typed, TypeOK
  <2>3. Running' = Running - 1
      BY <2>2, RunningFalls
  <2> QED
      BY <2>1, <2>3 DEF Failed
<1>19. ASSUME NEW s \in Slots, Break(s) PROVE UploadsAreOwed'
  <2>1. CASE s \in Fetchers
    <3>1. Fetchers' = Fetchers \ {s}
        BY <1>19, <2>1 DEF Break, Fetchers, Fetching, Typed, TypeOK
    <3>2. Running' = Running - 1
        BY <2>1, <3>1, RunningFalls
    <3> QED
        BY <1>19, <3>2 DEF Break
  <2>2. CASE s \notin Fetchers
    <3>1. Fetchers' = Fetchers
        BY <1>19, <2>2 DEF Break, Fetchers, Fetching, Typed, TypeOK
    <3> QED
        BY <1>19, <3>1 DEF Break
  <2> QED
      BY <2>1, <2>2
<1>20. ASSUME NEW s \in Slots, Settle(s) PROVE UploadsAreOwed'
  <2>1. Fetchers' = Fetchers
      BY <1>20 DEF Settle, Fetchers, Fetching, Typed, TypeOK
  <2> QED
      BY <1>20, <2>1 DEF Settle
<1>21. ASSUME NEW s \in Slots, Drop(s) PROVE UploadsAreOwed'
  <2>1. Fetchers' = Fetchers
      BY <1>21 DEF Drop, Fetchers, Fetching, Typed, TypeOK
  <2> QED
      BY <1>21, <2>1 DEF Drop
<1>22. CASE Crash
  <2>1. Fetchers' = {}
      BY <1>22 DEF Crash, Fetchers, Fetching
  <2>2. Running' = 0
      BY <2>1, FS_EmptySet DEF Running
  <2>3. Running = 0 => Fetchers' = Fetchers
      BY <2>1, RunningType
  <2> QED
      BY <1>22, <2>2, <2>3 DEF Crash
<1>23. CASE Restart
  <2>1. Fetchers = {} /\ Fetchers' = Fetchers
      BY <1>23 DEF Restart, Holdings, Fetchers, Fetching, Typed, TypeOK
  <2>2. Running = 0
      BY <2>1, RunningType
  <2> QED
      BY <1>23, <2>1, <2>2 DEF Restart
<1>24. CASE UNCHANGED vars
    BY <1>24 DEF vars
<1> QED
    BY <1>1, <1>2, <1>3, <1>4, <1>5, <1>6, <1>7, <1>8, <1>9, <1>10, <1>11, <1>12, <1>13, <1>14,
       <1>15,
       <1>16, <1>17, <1>18, <1>19, <1>20, <1>21, <1>22, <1>23, <1>24 DEF Next

-----------------------------------------------------------------------------
(* The theorems *)

LEMMA InitIInv == Init => IInv
<1> SUFFICES ASSUME Init PROVE IInv
    OBVIOUS
<1>1. Typed
    BY InitTyped
<1>2. Fetchers = {} /\ Renewing = {}
    BY DEF Init, Fetchers, Renewing, Fetching
<1>3. FetchesExclude /\ EntriesAreSingle /\ AttemptsFail
    BY <1>2 DEF Init, FetchesExclude, EntriesAreSingle, AttemptsFail, Live
<1>4. AttendedOrderly
    BY <1>2 DEF Init, AttendedOrderly, CountsAgree, EndingsAgree, Live, Active, MidFlight,
       Fetching
<1>5. UploadsAreOwed
    BY <1>2, RunningType DEF Init, UploadsAreOwed, InStore
<1> QED
    BY <1>1, <1>3, <1>4, <1>5 DEF IInv, Safe

\* The invariant is inductive.
LEMMA NextIInv == IInv /\ [Next]_vars => IInv'
BY NextTyped, NextFetchesExclude, NextEntriesAreSingle, NextAttemptsFail, NextAttended, NextOwed
   DEF IInv, Safe

\* However many slots claim however many entries of the row, two fetch at the same time only
\* once a retry set the row PENDING over a fetch (claimForDownload: "the status transition is
\* the lock").
THEOREM FetchesAreSingle == Spec => []OneFetchUnlessOverrun
<1>1. IInv => OneFetchUnlessOverrun
  <2> SUFFICES ASSUME IInv, ~overrun PROVE Cardinality(Fetchers) <= 1
      BY DEF OneFetchUnlessOverrun
  <2>1. CASE Fetchers = {}
      BY <2>1, FS_EmptySet
  <2>2. CASE Fetchers # {}
    <3>1. PICK s \in Fetchers : TRUE
        BY <2>2
    <3>2. Fetchers = {s}
        BY <3>1 DEF IInv, Safe, FetchesExclude
    <3>3. Cardinality({s}) = 1
        BY FS_Singleton, Zenon
    <3> QED
        BY <3>2, <3>3
  <2> QED
      BY <2>1, <2>2
<1> QED
    BY InitIInv, NextIInv, <1>1, PTL DEF Spec

\* The bot's request and each retry give one upload at most, whatever crashes, cancels, fails or
\* is claimed twice (worker/mtproto.ts, the transaction of the hand-off).
THEOREM UploadsAreSingle == Spec => []OneUploadPerRequest
<1>1. IInv => OneUploadPerRequest
  <2> SUFFICES ASSUME IInv PROVE OneUploadPerRequest
      OBVIOUS
  <2>1. uploads \in Nat /\ resets \in Nat /\ disowned \in Nat
      BY DEF IInv, Safe, Typed, TypeOK
  <2>2. Running \in Nat /\ InStore \in {0, 1}
      BY RunningType DEF InStore
  <2> QED
      BY <2>1, <2>2 DEF IInv, UploadsAreOwed, OneUploadPerRequest
<1> QED
    BY InitIInv, NextIInv, <1>1, PTL DEF Spec

\* A run's attempt is one more than the failures before it at most: no restart uses one up
\* (resetStale: "a restart during a multi-hour download is not a failed attempt").
THEOREM RestartsAreFree == Spec => []RestartIsNoFailure
<1>1. IInv => RestartIsNoFailure
    BY DEF IInv, Safe, AttemptsFail, RestartIsNoFailure
<1> QED
    BY InitIInv, NextIInv, <1>1, PTL DEF Spec

\* A row in flight, unless one of the named races reached it, has an entry or a request that
\* will bring it to its end, with every number of attempts.
THEOREM FetchesAreAttended == Spec => []FetchIsAttended
<1>1. IInv => FetchIsAttended
  <2> SUFFICES ASSUME IInv, status \in Active, ~cancelRequested, Orderly
               PROVE  \/ \E j \in Jobs : jobStatus[j] = "pending"
                      \/ \E j \in Jobs : /\ jobStatus[j] = "active"
                                         /\ \A s \in Slots :
                                              held[s] = j => pc[s] \notin {"handed", "done"}
                      \/ \E c \in Requests : at[c] \in {"clearing", "enqueueing"}
      BY DEF FetchIsAttended, Orderly
  <2>1. Renewing # {} \/ \E j \in Jobs : Live(j)
      BY DEF IInv, AttendedOrderly
  <2>2. \A s \in Slots : pc[s] \notin {"handed", "done"}
      BY DEF IInv, AttendedOrderly, EndingsAgree
  <2> QED
      BY <2>1, <2>2 DEF Renewing, Live
<1> QED
    BY InitIInv, NextIInv, <1>1, PTL DEF Spec

=============================================================================
