----------------------------- MODULE FilingProofs -----------------------------
(***************************************************************************)
(* What Filing guarantees for any number of uploads, titles, names, slots, *)
(* crashes and deletions, wherever the libraries lie.                      *)
(***************************************************************************)
EXTENDS Filing, FiniteSetTheorems, TLAPS

-----------------------------------------------------------------------------
(* The inductive invariant *)

\* A path is one of the title of whatever names it, and a run that has decided is over.
Places ==
  /\ \A u \in Uploads : /\ media[u] # None => media[u][1] = Title[u]
                        /\ pc[u] \in {"insert", "move", "copy", "unreserve", "filed"} =>
                             path[u] \in Paths /\ path[u][1] = Title[u]
                        /\ pc[u] = "match" => path[u] \in Paths
                        /\ pc[u] = "copy" => Title[u] \in OtherFilesystem
                        /\ outcome[u] # "open" => pc[u] = "idle"
  /\ \A p \in Paths : Exists(p) => /\ Title[library[p].of] = p[1]
                                   /\ library[p].whole \/ p[1] \in OtherFilesystem

\* A title has one row at most; a run that has looked for its own and not reserved again has
\* none; one that moves has it at its path; one that found a row has not lost it.
Rows ==
  /\ \A u, v \in Uploads : media[u] # None /\ media[v] # None /\ Title[u] = Title[v] => u = v
  /\ \A u \in Uploads :
       /\ pc[u] \in {"dedupe", "match", "stale", "pick", "insert"} => media[u] = None
       /\ pc[u] \in {"move", "copy", "unreserve"} => media[u] \in {None, path[u]}
       /\ found[u] # None => media[found[u]] # None

Typed == TypeOK /\ Places /\ Rows

WholeAt(p) == Exists(p) /\ library[p].whole

\* While a title is not usurped, its reservations hold: the path a run is moving to is in its
\* row, and nothing whole lies there; and a file that lies at the path a run is about to
\* reserve is still in its owner's row, so that the insert will fail.
ReservationsHold ==
  \A u \in Uploads : Title[u] \notin usurped =>
    /\ Moving(u) => media[u] = path[u]
    /\ pc[u] \in {"move", "copy", "unreserve"} /\ media[u] # None => ~WholeAt(path[u])
    /\ pc[u] = "insert" /\ WholeAt(path[u]) => media[library[path[u]].of] = path[u]

\* A whole file at the path in a row is that of the row's upload.
RowsOwnFiles ==
  \A u \in Uploads : Title[u] \notin usurped /\ media[u] # None /\ WholeAt(media[u]) =>
    library[media[u]].of = u

\* What CompletedIsFiled says, of a run too that is past the move.
Filed(u) ==
  /\ media[u] # None /\ Exists(media[u])
  /\ library[media[u]] = Whole(u) \/ Title[u] \in OtherFilesystem

PastTheMove ==
  \A u \in Uploads : /\ outcome[u] = "completed" \/ pc[u] = "filed"
                     /\ u \notin touched /\ Title[u] \notin usurped
                     => Filed(u)

IInv == Typed /\ ReservationsHold /\ FilesAreKnown /\ RowsOwnFiles /\ PastTheMove

-----------------------------------------------------------------------------
(* The shapes of some steps *)

\* FindDuplicate finds a row, whichever key it matched, or goes on.
LEMMA Lookup ==
  ASSUME NEW u \in Uploads, FindDuplicate(u)
  PROVE  /\ pc[u] = "dedupe"
         /\ \/ Goto(u, "pick", None) /\ UNCHANGED found
            \/ \E v \in Uploads : /\ media[v] # None /\ found' = [found EXCEPT ![u] = v]
                                 /\ Goto(u, "match", media[v])
         /\ UNCHANGED <<outcome, media, library, bounds, usurped>>
BY DEF FindDuplicate, SameContent, SameTitle

\* PickPath takes a path of its title where nothing lies.
LEMMA Pick ==
  ASSUME Typed, NEW u \in Uploads, PickPath(u)
  PROVE  /\ pc[u] = "pick"
         /\ \E q \in Paths : q[1] = Title[u] /\ ~Exists(q) /\ Goto(u, "insert", q)
         /\ UNCHANGED <<outcome, found, media, library, bounds, usurped>>
<1>1. PICK k \in FreeNames(Title[u]) : Goto(u, "insert", <<Title[u], k>>)
    BY DEF PickPath
<1>2. k \in 0..(Suffixes - 1) /\ ~Exists(<<Title[u], k>>)
    BY <1>1 DEF FreeNames
<1>3. <<Title[u], k>> \in Paths /\ <<Title[u], k>>[1] = Title[u]
    BY <1>2, TitleType DEF Paths
<1> QED
    BY <1>1, <1>2, <1>3 DEF PickPath

\* The two kinds of file a run leaves in the library.
LEMMA FilesType ==
  ASSUME NEW u \in Uploads
  PROVE  /\ Whole(u) \in [of : Uploads, whole : BOOLEAN]
         /\ Partial(u) \in [of : Uploads, whole : BOOLEAN]
         /\ Whole(u).of = u /\ Whole(u).whole /\ Partial(u).of = u /\ ~Partial(u).whole
         /\ Whole(u) # None /\ Partial(u) # None
<1>1. /\ Whole(u) \in [of : Uploads, whole : BOOLEAN]
      /\ Partial(u) \in [of : Uploads, whole : BOOLEAN]
      /\ Whole(u).of = u /\ Whole(u).whole /\ Partial(u).of = u /\ ~Partial(u).whole
    BY DEF Whole, Partial
<1>2. Whole(u) # None /\ Partial(u) # None
    BY <1>1, NoneIsNothing, Zenon
<1> QED
    BY <1>1, <1>2

LEMMA WholeFile ==
  ASSUME TypeOK, NEW p \in Paths, WholeAt(p)
  PROVE  library[p] = Whole(library[p].of)
<1>1. library[p] \in [of : Uploads, whole : BOOLEAN]
    BY DEF TypeOK, WholeAt, Exists
<1>2. library[p].whole = TRUE
    BY <1>1, Zenon DEF WholeAt
<1>3. library[p] = [of |-> library[p].of, whole |-> library[p].whole]
    BY <1>1
<1> QED
    BY <1>2, <1>3 DEF Whole

-----------------------------------------------------------------------------
(* Types, places and rows *)

\* The types, the places and the rows hold at the start ...
LEMMA InitTyped == Init => Typed
<1> SUFFICES ASSUME Init PROVE Typed
    OBVIOUS
<1>1. TypeOK
    BY DEF Init, TypeOK
<1>2. Places /\ Rows
    BY DEF Init, Places, Rows, Exists
<1> QED
    BY <1>1, <1>2 DEF Typed

\* ... every step keeps the types ...
LEMMA NextTypeOK == Typed /\ [Next]_vars => TypeOK'
<1> SUFFICES ASSUME Typed, [Next]_vars PROVE TypeOK'
    OBVIOUS
<1> USE NoneIsNothing, TitleType, BoundsType DEF Typed, TypeOK, Places, Rows,
        Statements, Goto, RemoveRow, locals, bounds
<1>1. ASSUME NEW u \in Uploads, Claim(u) PROVE TypeOK'
    BY <1>1 DEF Claim
<1>2. ASSUME NEW u \in Uploads, CheckPrior(u) PROVE TypeOK'
    BY <1>2 DEF CheckPrior
<1>3. ASSUME NEW u \in Uploads, FindDuplicate(u) PROVE TypeOK'
    BY <1>3, Lookup
<1>4. ASSUME NEW u \in Uploads, CheckMatch(u) PROVE TypeOK'
    BY <1>4 DEF CheckMatch
<1>5. ASSUME NEW u \in Uploads, DropStale(u) PROVE TypeOK'
    BY <1>5 DEF DropStale
<1>6. ASSUME NEW u \in Uploads, PickPath(u) PROVE TypeOK'
    BY <1>6, Pick
<1>7. ASSUME NEW u \in Uploads, Reserve(u) PROVE TypeOK'
    BY <1>7 DEF Reserve
<1>8. ASSUME NEW u \in Uploads, Move(u) PROVE TypeOK'
  <2>1. path[u] \in Paths
      BY <1>8 DEF Move
  <2>2. library' \in [Paths -> [of : Uploads, whole : BOOLEAN] \cup {None}]
      BY <1>8, <2>1, FilesType DEF Move
  <2> QED
      BY <1>8, <2>2 DEF Move
<1>9. ASSUME NEW u \in Uploads, FinishCopy(u) PROVE TypeOK'
  <2>1. path[u] \in Paths
      BY <1>9 DEF FinishCopy
  <2>2. library' \in [Paths -> [of : Uploads, whole : BOOLEAN] \cup {None}]
      BY <1>9, <2>1, FilesType DEF FinishCopy
  <2> QED
      BY <1>9, <2>2 DEF FinishCopy
<1>10. ASSUME NEW u \in Uploads, MoveFails(u) PROVE TypeOK'
    BY <1>10 DEF MoveFails, Moving
<1>11. ASSUME NEW u \in Uploads, Finish(u) PROVE TypeOK'
    BY <1>11 DEF Finish
<1>12. ASSUME NEW u \in Uploads, Fail(u) PROVE TypeOK'
    BY <1>12 DEF Fail
<1>13. ASSUME NEW u \in Uploads, DeleteRow(u) PROVE TypeOK'
    BY <1>13 DEF DeleteRow
<1>14. ASSUME NEW p \in Paths, UnlinkDeleted(p) PROVE TypeOK'
  <2>1. Owners(p) \subseteq Uploads
      BY DEF Owners
  <2> QED
      BY <1>14, <2>1 DEF UnlinkDeleted
<1>15. ASSUME NEW p \in Paths, Vanish(p) PROVE TypeOK'
  <2>1. Owners(p) \subseteq Uploads
      BY DEF Owners
  <2> QED
      BY <1>15, <2>1 DEF Vanish
<1>16. CASE Crash
    BY <1>16 DEF Crash
<1>17. CASE UNCHANGED vars
    BY <1>17 DEF vars, locals, bounds
<1> QED
    BY <1>1, <1>2, <1>3, <1>4, <1>5, <1>6, <1>7, <1>8, <1>9, <1>10, <1>11, <1>12, <1>13, <1>14,
       <1>15, <1>16, <1>17 DEF Next

\* ... the places ...
LEMMA NextPlaces == Typed /\ [Next]_vars => Places'
<1> SUFFICES ASSUME Typed, [Next]_vars PROVE Places'
    OBVIOUS
<1> USE NoneIsNothing, TitleType, BoundsType DEF Typed, TypeOK, Places, Rows, Exists, Whole,
   Partial,
        Statements, Goto, RemoveRow, locals, bounds
<1>1. ASSUME NEW u \in Uploads, Claim(u) PROVE Places'
    BY <1>1 DEF Claim
<1>2. ASSUME NEW u \in Uploads, CheckPrior(u) PROVE Places'
    BY <1>2 DEF CheckPrior
<1>3. ASSUME NEW u \in Uploads, FindDuplicate(u) PROVE Places'
    BY <1>3, Lookup
<1>4. ASSUME NEW u \in Uploads, CheckMatch(u) PROVE Places'
    BY <1>4 DEF CheckMatch
<1>5. ASSUME NEW u \in Uploads, DropStale(u) PROVE Places'
    BY <1>5 DEF DropStale
<1>6. ASSUME NEW u \in Uploads, PickPath(u) PROVE Places'
    BY <1>6, Pick
<1>7. ASSUME NEW u \in Uploads, Reserve(u) PROVE Places'
    BY <1>7 DEF Reserve
<1>8. ASSUME NEW u \in Uploads, Move(u) PROVE Places'
    BY <1>8 DEF Move
<1>9. ASSUME NEW u \in Uploads, FinishCopy(u) PROVE Places'
    BY <1>9 DEF FinishCopy
<1>10. ASSUME NEW u \in Uploads, MoveFails(u) PROVE Places'
    BY <1>10 DEF MoveFails, Moving
<1>11. ASSUME NEW u \in Uploads, Finish(u) PROVE Places'
    BY <1>11 DEF Finish
<1>12. ASSUME NEW u \in Uploads, Fail(u) PROVE Places'
    BY <1>12 DEF Fail
<1>13. ASSUME NEW u \in Uploads, DeleteRow(u) PROVE Places'
    BY <1>13 DEF DeleteRow
<1>14. ASSUME NEW p \in Paths, UnlinkDeleted(p) PROVE Places'
    BY <1>14 DEF UnlinkDeleted
<1>15. ASSUME NEW p \in Paths, Vanish(p) PROVE Places'
    BY <1>15 DEF Vanish
<1>16. CASE Crash
    BY <1>16 DEF Crash
<1>17. CASE UNCHANGED vars
    BY <1>17 DEF vars, locals, bounds
<1> QED
    BY <1>1, <1>2, <1>3, <1>4, <1>5, <1>6, <1>7, <1>8, <1>9, <1>10, <1>11, <1>12, <1>13, <1>14,
       <1>15, <1>16, <1>17 DEF Next

\* ... and the rows: the unique index on titles is what Reserve asks.
LEMMA NextRows == Typed /\ [Next]_vars => Rows'
<1> SUFFICES ASSUME Typed, [Next]_vars PROVE Rows'
    OBVIOUS
<1> USE NoneIsNothing, TitleType DEF Typed, TypeOK, Places, Rows, SameTitle,
        Goto, RemoveRow, locals, bounds
<1>1. ASSUME NEW u \in Uploads, Claim(u) PROVE Rows'
    BY <1>1 DEF Claim
<1>2. ASSUME NEW u \in Uploads, CheckPrior(u) PROVE Rows'
    BY <1>2 DEF CheckPrior
<1>3. ASSUME NEW u \in Uploads, FindDuplicate(u) PROVE Rows'
    BY <1>3, Lookup
<1>4. ASSUME NEW u \in Uploads, CheckMatch(u) PROVE Rows'
    BY <1>4 DEF CheckMatch
<1>5. ASSUME NEW u \in Uploads, DropStale(u) PROVE Rows'
    BY <1>5 DEF DropStale
<1>6. ASSUME NEW u \in Uploads, PickPath(u) PROVE Rows'
    BY <1>6, Pick
<1>7. ASSUME NEW u \in Uploads, Reserve(u) PROVE Rows'
    BY <1>7 DEF Reserve
<1>8. ASSUME NEW u \in Uploads, Move(u) PROVE Rows'
    BY <1>8 DEF Move
<1>9. ASSUME NEW u \in Uploads, FinishCopy(u) PROVE Rows'
    BY <1>9 DEF FinishCopy
<1>10. ASSUME NEW u \in Uploads, MoveFails(u) PROVE Rows'
    BY <1>10 DEF MoveFails, Moving
<1>11. ASSUME NEW u \in Uploads, Finish(u) PROVE Rows'
    BY <1>11 DEF Finish
<1>12. ASSUME NEW u \in Uploads, Fail(u) PROVE Rows'
    BY <1>12 DEF Fail
<1>13. ASSUME NEW u \in Uploads, DeleteRow(u) PROVE Rows'
    BY <1>13 DEF DeleteRow
<1>14. ASSUME NEW p \in Paths, UnlinkDeleted(p) PROVE Rows'
    BY <1>14 DEF UnlinkDeleted
<1>15. ASSUME NEW p \in Paths, Vanish(p) PROVE Rows'
    BY <1>15 DEF Vanish
<1>16. CASE Crash
    BY <1>16 DEF Crash
<1>17. CASE UNCHANGED vars
    BY <1>17 DEF vars, locals, bounds
<1> QED
    BY <1>1, <1>2, <1>3, <1>4, <1>5, <1>6, <1>7, <1>8, <1>9, <1>10, <1>11, <1>12, <1>13, <1>14,
       <1>15, <1>16, <1>17 DEF Next

-----------------------------------------------------------------------------
(* Reservations and files *)

\* Only a deletion over a move or a path in hand undoes a reservation, and that is to usurp it.
LEMMA NextReservations == Typed /\ ReservationsHold /\ [Next]_vars => ReservationsHold'
<1> SUFFICES ASSUME Typed /\ ReservationsHold, [Next]_vars PROVE ReservationsHold'
    OBVIOUS
<1> USE NoneIsNothing, TitleType DEF Typed, TypeOK, Places, Rows, WholeAt, Exists, Whole, Partial,
        Moving, Goto, RemoveRow, locals, bounds, ReservationsHold, InHand, SameTitle
<1>1. ASSUME NEW u \in Uploads, Claim(u) PROVE ReservationsHold'
    BY <1>1 DEF Claim
<1>2. ASSUME NEW u \in Uploads, CheckPrior(u) PROVE ReservationsHold'
    BY <1>2 DEF CheckPrior
<1>3. ASSUME NEW u \in Uploads, FindDuplicate(u) PROVE ReservationsHold'
    BY <1>3, Lookup
<1>4. ASSUME NEW u \in Uploads, CheckMatch(u) PROVE ReservationsHold'
    BY <1>4 DEF CheckMatch
<1>5. ASSUME NEW u \in Uploads, DropStale(u) PROVE ReservationsHold'
    BY <1>5 DEF DropStale
<1>6. ASSUME NEW u \in Uploads, PickPath(u) PROVE ReservationsHold'
    BY <1>6, Pick
<1>7. ASSUME NEW u \in Uploads, Reserve(u) PROVE ReservationsHold'
  <2>1. path[u] \in Paths /\ path[u][1] = Title[u] /\ media[u] = None
      BY <1>7 DEF Reserve
  <2>2. ASSUME Title[u] \notin usurped, WholeAt(path[u]) PROVE FALSE
    <3>1. library[path[u]].of \in SameTitle(u)
        BY <1>7, <2>1, <2>2 DEF Reserve
    <3> QED
        BY <1>7, <3>1 DEF Reserve
  <2> QED
      BY <1>7, <2>1, <2>2 DEF Reserve
<1>8. ASSUME NEW u \in Uploads, Move(u) PROVE ReservationsHold'
    BY <1>8 DEF Move
<1>9. ASSUME NEW u \in Uploads, FinishCopy(u) PROVE ReservationsHold'
    BY <1>9 DEF FinishCopy
<1>10. ASSUME NEW u \in Uploads, MoveFails(u) PROVE ReservationsHold'
    BY <1>10 DEF MoveFails, Moving
<1>11. ASSUME NEW u \in Uploads, Finish(u) PROVE ReservationsHold'
    BY <1>11 DEF Finish
<1>12. ASSUME NEW u \in Uploads, Fail(u) PROVE ReservationsHold'
    BY <1>12 DEF Fail
<1>13. ASSUME NEW u \in Uploads, DeleteRow(u) PROVE ReservationsHold'
    BY <1>13 DEF DeleteRow
<1>14. ASSUME NEW p \in Paths, UnlinkDeleted(p) PROVE ReservationsHold'
    BY <1>14 DEF UnlinkDeleted
<1>15. ASSUME NEW p \in Paths, Vanish(p) PROVE ReservationsHold'
    BY <1>15 DEF Vanish
<1>16. CASE Crash
    BY <1>16 DEF Crash
<1>17. CASE UNCHANGED vars
    BY <1>17 DEF vars, locals, bounds
<1> QED
    BY <1>1, <1>2, <1>3, <1>4, <1>5, <1>6, <1>7, <1>8, <1>9, <1>10, <1>11, <1>12, <1>13, <1>14,
       <1>15, <1>16, <1>17 DEF Next

\* A row goes before its whole file only by a deletion from outside, or as stale by a usurper.
LEMMA NextFilesAreKnown ==
  Typed /\ ReservationsHold /\ FilesAreKnown /\ [Next]_vars => FilesAreKnown'
<1> SUFFICES ASSUME Typed /\ ReservationsHold /\ FilesAreKnown, [Next]_vars PROVE FilesAreKnown'
    OBVIOUS
<1> USE NoneIsNothing, TitleType DEF Typed, TypeOK, Places, Rows, WholeAt, Exists, Whole, Partial,
        Moving, Goto, RemoveRow, locals, bounds,
        ReservationsHold, FilesAreKnown, InHand, Owners
<1>1. ASSUME NEW u \in Uploads, Claim(u) PROVE FilesAreKnown'
    BY <1>1 DEF Claim
<1>2. ASSUME NEW u \in Uploads, CheckPrior(u) PROVE FilesAreKnown'
    BY <1>2 DEF CheckPrior
<1>3. ASSUME NEW u \in Uploads, FindDuplicate(u) PROVE FilesAreKnown'
    BY <1>3, Lookup
<1>4. ASSUME NEW u \in Uploads, CheckMatch(u) PROVE FilesAreKnown'
    BY <1>4 DEF CheckMatch
<1>5. ASSUME NEW u \in Uploads, DropStale(u) PROVE FilesAreKnown'
    BY <1>5 DEF DropStale
<1>6. ASSUME NEW u \in Uploads, PickPath(u) PROVE FilesAreKnown'
    BY <1>6, Pick
<1>7. ASSUME NEW u \in Uploads, Reserve(u) PROVE FilesAreKnown'
  <2>1. path[u] \in Paths /\ media[u] = None
      BY <1>7 DEF Reserve
  <2>2. \A p \in Paths, v \in Uploads : media[v] = p => media'[v] = p
      BY <1>7, <2>1 DEF Reserve
  <2> QED
      BY <1>7, <2>2 DEF Reserve
<1>8. ASSUME NEW u \in Uploads, Move(u) PROVE FilesAreKnown'
    BY <1>8 DEF Move
<1>9. ASSUME NEW u \in Uploads, FinishCopy(u) PROVE FilesAreKnown'
    BY <1>9 DEF FinishCopy
<1>10. ASSUME NEW u \in Uploads, MoveFails(u) PROVE FilesAreKnown'
    BY <1>10 DEF MoveFails, Moving
<1>11. ASSUME NEW u \in Uploads, Finish(u) PROVE FilesAreKnown'
    BY <1>11 DEF Finish
<1>12. ASSUME NEW u \in Uploads, Fail(u) PROVE FilesAreKnown'
    BY <1>12 DEF Fail
<1>13. ASSUME NEW u \in Uploads, DeleteRow(u) PROVE FilesAreKnown'
    BY <1>13 DEF DeleteRow
<1>14. ASSUME NEW p \in Paths, UnlinkDeleted(p) PROVE FilesAreKnown'
    BY <1>14 DEF UnlinkDeleted
<1>15. ASSUME NEW p \in Paths, Vanish(p) PROVE FilesAreKnown'
    BY <1>15 DEF Vanish
<1>16. CASE Crash
    BY <1>16 DEF Crash
<1>17. CASE UNCHANGED vars
    BY <1>17 DEF vars, locals, bounds
<1> QED
    BY <1>1, <1>2, <1>3, <1>4, <1>5, <1>6, <1>7, <1>8, <1>9, <1>10, <1>11, <1>12, <1>13, <1>14,
       <1>15, <1>16, <1>17 DEF Next

\* A reservation is made where nothing whole lies, and only its run moves a file there.
LEMMA NextRowsOwnFiles == Typed /\ ReservationsHold /\ RowsOwnFiles /\ [Next]_vars => RowsOwnFiles'
<1> SUFFICES ASSUME Typed /\ ReservationsHold /\ RowsOwnFiles, [Next]_vars PROVE RowsOwnFiles'
    OBVIOUS
<1> USE NoneIsNothing, TitleType DEF Typed, TypeOK, Places, Rows, WholeAt, Exists, Whole, Partial,
        Moving, Goto, RemoveRow, locals, bounds,
        ReservationsHold, RowsOwnFiles, SameTitle
<1>1. ASSUME NEW u \in Uploads, Claim(u) PROVE RowsOwnFiles'
    BY <1>1 DEF Claim
<1>2. ASSUME NEW u \in Uploads, CheckPrior(u) PROVE RowsOwnFiles'
    BY <1>2 DEF CheckPrior
<1>3. ASSUME NEW u \in Uploads, FindDuplicate(u) PROVE RowsOwnFiles'
    BY <1>3, Lookup
<1>4. ASSUME NEW u \in Uploads, CheckMatch(u) PROVE RowsOwnFiles'
    BY <1>4 DEF CheckMatch
<1>5. ASSUME NEW u \in Uploads, DropStale(u) PROVE RowsOwnFiles'
    BY <1>5 DEF DropStale
<1>6. ASSUME NEW u \in Uploads, PickPath(u) PROVE RowsOwnFiles'
    BY <1>6, Pick
<1>7. ASSUME NEW u \in Uploads, Reserve(u) PROVE RowsOwnFiles'
    BY <1>7 DEF Reserve
<1>8. ASSUME NEW u \in Uploads, Move(u) PROVE RowsOwnFiles'
    BY <1>8 DEF Move
<1>9. ASSUME NEW u \in Uploads, FinishCopy(u) PROVE RowsOwnFiles'
    BY <1>9 DEF FinishCopy
<1>10. ASSUME NEW u \in Uploads, MoveFails(u) PROVE RowsOwnFiles'
    BY <1>10 DEF MoveFails, Moving
<1>11. ASSUME NEW u \in Uploads, Finish(u) PROVE RowsOwnFiles'
    BY <1>11 DEF Finish
<1>12. ASSUME NEW u \in Uploads, Fail(u) PROVE RowsOwnFiles'
    BY <1>12 DEF Fail
<1>13. ASSUME NEW u \in Uploads, DeleteRow(u) PROVE RowsOwnFiles'
    BY <1>13 DEF DeleteRow
<1>14. ASSUME NEW p \in Paths, UnlinkDeleted(p) PROVE RowsOwnFiles'
    BY <1>14 DEF UnlinkDeleted
<1>15. ASSUME NEW p \in Paths, Vanish(p) PROVE RowsOwnFiles'
    BY <1>15 DEF Vanish
<1>16. CASE Crash
    BY <1>16 DEF Crash
<1>17. CASE UNCHANGED vars
    BY <1>17 DEF vars, locals, bounds
<1> QED
    BY <1>1, <1>2, <1>3, <1>4, <1>5, <1>6, <1>7, <1>8, <1>9, <1>10, <1>11, <1>12, <1>13, <1>14,
       <1>15, <1>16, <1>17 DEF Next

\* A run is past its move, or takes up an earlier one, with its row and its file.
LEMMA NextPastTheMove ==
  Typed /\ ReservationsHold /\ RowsOwnFiles /\ PastTheMove /\ [Next]_vars => PastTheMove'
<1> SUFFICES ASSUME Typed /\ ReservationsHold /\ RowsOwnFiles /\ PastTheMove, [Next]_vars
             PROVE  PastTheMove'
    OBVIOUS
<1> USE NoneIsNothing, TitleType DEF Typed, TypeOK, Places, Rows, WholeAt, Exists, Whole, Partial,
        Moving, Goto, RemoveRow, locals, bounds,
        ReservationsHold, RowsOwnFiles, PastTheMove, Filed, Owners
<1>1. ASSUME NEW u \in Uploads, Claim(u) PROVE PastTheMove'
    BY <1>1 DEF Claim
<1>2. ASSUME NEW u \in Uploads, CheckPrior(u) PROVE PastTheMove'
  <2>1. CASE media[u] # None /\ Exists(media[u])
    <3>1. ASSUME Title[u] \notin usurped, Title[u] \notin OtherFilesystem
          PROVE  library[media[u]] = Whole(u)
      <4>1. media[u] \in Paths /\ WholeAt(media[u])
          BY <2>1, <3>1
      <4>2. library[media[u]].of = u
          BY <2>1, <3>1, <4>1
      <4> QED
          BY <4>1, <4>2, WholeFile
    <3> QED
        BY <1>2, <2>1, <3>1 DEF CheckPrior
  <2>2. CASE ~(media[u] # None /\ Exists(media[u]))
      BY <1>2, <2>2 DEF CheckPrior
  <2> QED
      BY <2>1, <2>2
<1>3. ASSUME NEW u \in Uploads, FindDuplicate(u) PROVE PastTheMove'
    BY <1>3, Lookup
<1>4. ASSUME NEW u \in Uploads, CheckMatch(u) PROVE PastTheMove'
    BY <1>4 DEF CheckMatch
<1>5. ASSUME NEW u \in Uploads, DropStale(u) PROVE PastTheMove'
    BY <1>5 DEF DropStale
<1>6. ASSUME NEW u \in Uploads, PickPath(u) PROVE PastTheMove'
    BY <1>6, Pick
<1>7. ASSUME NEW u \in Uploads, Reserve(u) PROVE PastTheMove'
    BY <1>7 DEF Reserve
<1>8. ASSUME NEW u \in Uploads, Move(u) PROVE PastTheMove'
  <2>1. /\ path[u] \in Paths /\ path[u][1] = Title[u] /\ outcome[u] = "open"
        /\ Title[u] \notin usurped => media[u] = path[u]
      BY <1>8 DEF Move
  <2>2. \A q \in Paths : q # path[u] => library'[q] = library[q]
      BY <1>8, <2>1 DEF Move
  <2>3. library'[path[u]] # None /\ (pc'[u] = "filed" => library'[path[u]] = Whole(u))
    <3>1. CASE Title[u] \in OtherFilesystem
        BY <1>8, <2>1, <3>1, FilesType DEF Move
    <3>2. CASE Title[u] \notin OtherFilesystem
        BY <1>8, <2>1, <3>2, FilesType DEF Move
    <3> QED
        BY <3>1, <3>2
  <2>4. ASSUME NEW v \in Uploads, Title[v] \notin usurped, v # u, Filed(v) PROVE Filed(v)'
    <3>1. media[v] # path[u] /\ media[v] \in Paths
        BY <2>1, <2>4
    <3> QED
        BY <1>8, <2>2, <2>4, <3>1 DEF Move
  <2>5. pc'[u] = "filed" /\ Title[u] \notin usurped => Filed(u)'
      BY <1>8, <2>1, <2>3 DEF Move
  <2>6. /\ \A v \in Uploads : v # u => pc'[v] = pc[v]
        /\ outcome' = outcome /\ touched' = touched /\ usurped' = usurped
      BY <1>8 DEF Move
  <2> QED
      BY <2>1, <2>4, <2>5, <2>6
<1>9. ASSUME NEW u \in Uploads, FinishCopy(u) PROVE PastTheMove'
  <2>1. /\ path[u] \in Paths /\ path[u][1] = Title[u] /\ outcome[u] = "open"
        /\ Title[u] \notin usurped => media[u] = path[u]
      BY <1>9 DEF FinishCopy
  <2>2. \A q \in Paths : q # path[u] => library'[q] = library[q]
      BY <1>9, <2>1 DEF FinishCopy
  <2>3. library'[path[u]] # None /\ (pc'[u] = "filed" => library'[path[u]] = Whole(u))
      BY <1>9, <2>1, FilesType DEF FinishCopy
  <2>4. ASSUME NEW v \in Uploads, Title[v] \notin usurped, v # u, Filed(v) PROVE Filed(v)'
    <3>1. media[v] # path[u] /\ media[v] \in Paths
        BY <2>1, <2>4
    <3> QED
        BY <1>9, <2>2, <2>4, <3>1 DEF FinishCopy
  <2>5. pc'[u] = "filed" /\ Title[u] \notin usurped => Filed(u)'
      BY <1>9, <2>1, <2>3 DEF FinishCopy
  <2>6. /\ \A v \in Uploads : v # u => pc'[v] = pc[v]
        /\ outcome' = outcome /\ touched' = touched /\ usurped' = usurped
      BY <1>9 DEF FinishCopy
  <2> QED
      BY <2>1, <2>4, <2>5, <2>6
<1>10. ASSUME NEW u \in Uploads, MoveFails(u) PROVE PastTheMove'
    BY <1>10 DEF MoveFails, Moving
<1>11. ASSUME NEW u \in Uploads, Finish(u) PROVE PastTheMove'
    BY <1>11 DEF Finish
<1>12. ASSUME NEW u \in Uploads, Fail(u) PROVE PastTheMove'
    BY <1>12 DEF Fail
<1>13. ASSUME NEW u \in Uploads, DeleteRow(u) PROVE PastTheMove'
    BY <1>13 DEF DeleteRow
<1>14. ASSUME NEW p \in Paths, UnlinkDeleted(p) PROVE PastTheMove'
    BY <1>14 DEF UnlinkDeleted
<1>15. ASSUME NEW p \in Paths, Vanish(p) PROVE PastTheMove'
    BY <1>15 DEF Vanish
<1>16. CASE Crash
    BY <1>16 DEF Crash
<1>17. CASE UNCHANGED vars
    BY <1>17 DEF vars, locals, bounds
<1> QED
    BY <1>1, <1>2, <1>3, <1>4, <1>5, <1>6, <1>7, <1>8, <1>9, <1>10, <1>11, <1>12, <1>13, <1>14,
       <1>15, <1>16, <1>17 DEF Next

-----------------------------------------------------------------------------
(* The theorems *)

LEMMA InitIInv == Init => IInv
<1> SUFFICES ASSUME Init PROVE IInv
    OBVIOUS
<1>1. Typed
    BY InitTyped
<1>2. \A p \in Paths : ~Exists(p)
    BY DEF Init, Exists
<1>3. ReservationsHold /\ FilesAreKnown /\ RowsOwnFiles /\ PastTheMove
    BY <1>2 DEF Init, ReservationsHold, FilesAreKnown, RowsOwnFiles, PastTheMove, Moving
<1> QED
    BY <1>1, <1>3 DEF IInv

\* The invariant is inductive.
LEMMA NextIInv == IInv /\ [Next]_vars => IInv'
BY NextTypeOK, NextPlaces, NextRows, NextReservations, NextFilesAreKnown, NextRowsOwnFiles,
   NextPastTheMove
   DEF IInv, Typed

\* Every variable keeps its type.
THEOREM TypeCorrect == Spec => []TypeOK
<1>1. IInv => TypeOK
    BY DEF IInv, Typed
<1> QED
    BY InitIInv, NextIInv, <1>1, PTL DEF Spec

\* Two runs never leave two copies of a title in the library, and neither do a crash, a retry
\* or a failed move, unless a row was deleted over a reservation in use (the insert before the
\* move, worker/pipeline.ts).
THEOREM OneCopy == Spec => []OneCopyUnlessUsurped
<1>1. IInv => OneCopyUnlessUsurped
  <2> SUFFICES ASSUME IInv, NEW t \in Titles \ usurped PROVE Cardinality(Copies(t)) <= 1
      BY DEF OneCopyUnlessUsurped
  <2>1. \A p \in Copies(t) : library[p].of \in Uploads /\ Title[library[p].of] = t
                             /\ media[library[p].of] = p /\ media[library[p].of] # None
      BY NoneIsNothing DEF IInv, Typed, TypeOK, Places, FilesAreKnown, Copies, Exists
  <2>2. \A p, q \in Copies(t) : p = q
      BY <2>1 DEF IInv, Typed, Rows
  <2>3. CASE Copies(t) = {}
      BY <2>3, FS_EmptySet
  <2>4. CASE Copies(t) # {}
    <3>1. PICK p \in Copies(t) : TRUE
        BY <2>4
    <3>2. Copies(t) = {p}
        BY <2>2, <3>1
    <3>3. Cardinality({p}) = 1
        BY FS_Singleton, Zenon
    <3> QED
        BY <3>2, <3>3
  <2> QED
      BY <2>3, <2>4
<1> QED
    BY InitIInv, NextIInv, <1>1, PTL DEF Spec

\* No whole file lies in a library without the row of its upload, unless somebody deleted the
\* row or it was usurped.
THEOREM NoUnknownFile == Spec => []FilesAreKnown
<1>1. IInv => FilesAreKnown
    BY DEF IInv
<1> QED
    BY InitIInv, NextIInv, <1>1, PTL DEF Spec

\* An upload reported filed has its row and a file, its own and whole if the library shares the
\* filesystem of the scratch directory, however many runs it took.
THEOREM CompletedUploadsAreFiled == Spec => []CompletedIsFiled
<1>1. IInv => CompletedIsFiled
    BY DEF IInv, PastTheMove, Filed, CompletedIsFiled
<1> QED
    BY InitIInv, NextIInv, <1>1, PTL DEF Spec

\* No step writes over a whole file of a title that is not usurped ("never overwritten").
THEOREM FilesAreNotOverwritten == Spec => NothingOverwritten
<1>1. IInv /\ [Next]_vars =>
        [\A p \in Paths : Exists(p) /\ library[p].whole /\ p[1] \notin usurped =>
           library'[p] = library[p] \/ library[p].of \in touched']_vars
  <2> SUFFICES ASSUME IInv, Next, NEW p \in Paths, WholeAt(p), p[1] \notin usurped,
                      library'[p] # library[p]
               PROVE  library[p].of \in touched'
      BY DEF WholeAt
  <2>1. ASSUME NEW u \in Uploads, Moving(u),
               library' = [library EXCEPT ![path[u]] = library'[path[u]]]
        PROVE  FALSE
    <3>1. path[u] = p
        BY <2>1 DEF IInv, Typed, TypeOK
    <3>2. Title[u] = p[1] /\ media[u] # None
        BY <2>1, <3>1, NoneIsNothing DEF IInv, Typed, Places, Moving, ReservationsHold
    <3> QED
        BY <2>1, <3>1, <3>2 DEF IInv, ReservationsHold, Moving
  <2>2. ASSUME NEW u \in Uploads, Move(u) PROVE FALSE
      BY <2>1, <2>2 DEF Move, Moving, IInv, Typed, TypeOK, Places
  <2>3. ASSUME NEW u \in Uploads, FinishCopy(u) PROVE FALSE
      BY <2>1, <2>3 DEF FinishCopy, Moving, IInv, Typed, TypeOK, Places
  <2>4. ASSUME NEW q \in Paths, UnlinkDeleted(q) \/ Vanish(q) PROVE library[p].of \in touched'
    <3>1. q = p /\ library[p].of \in Owners(p)
        BY <2>4 DEF UnlinkDeleted, Vanish, Owners, WholeAt, Exists, IInv, Typed, TypeOK
    <3> QED
        BY <2>4, <3>1 DEF UnlinkDeleted, Vanish
  <2> QED
      BY <2>2, <2>3, <2>4
         DEF Next, Claim, CheckPrior, FindDuplicate, CheckMatch, DropStale, PickPath, Reserve,
            MoveFails,
             Finish, Fail, DeleteRow, Crash
<1> QED
    BY InitIInv, NextIInv, <1>1, PTL DEF Spec, NothingOverwritten

\* A run that has got as far as the search for duplicates has no file of its own in the library
\* ("does not find its own earlier work and call it a duplicate").
THEOREM NoSelfDuplicate == Spec => NotADuplicateOfItself
<1>1. IInv /\ [Next]_vars =>
        [\A u \in Uploads : outcome[u] # "duplicate" /\ outcome'[u] = "duplicate" =>
           \A p \in Paths : library[p] = Whole(u) => u \in touched \/ Title[u] \in usurped]_vars
  <2> SUFFICES ASSUME IInv, Next, NEW u \in Uploads,
                      outcome[u] # "duplicate", outcome'[u] = "duplicate",
                      NEW p \in Paths, library[p] = Whole(u)
               PROVE  u \in touched \/ Title[u] \in usurped
      OBVIOUS
  <2>1. CheckMatch(u)
    <3>1. ASSUME NEW v \in Uploads, CheckMatch(v) PROVE v = u
        BY <3>1 DEF CheckMatch, IInv, Typed, TypeOK
    <3>2. ASSUME NEW v \in Uploads, Finish(v) PROVE FALSE
        BY <3>2 DEF Finish, IInv, Typed, TypeOK
    <3> QED
        BY <3>1, <3>2
           DEF Next, Claim, CheckPrior, FindDuplicate, DropStale, PickPath, Reserve, Move,
              FinishCopy,
               MoveFails, Fail, DeleteRow, UnlinkDeleted, Vanish, Crash
  <2>2. media[u] = None
      BY <2>1 DEF CheckMatch, IInv, Typed, Rows
  <2>3. WholeAt(p) /\ library[p].of = u /\ p[1] = Title[u] /\ p # None
      BY FilesType, NoneIsNothing DEF WholeAt, Exists, IInv, Typed, Places
  <2> QED
      BY <2>2, <2>3 DEF IInv, FilesAreKnown, WholeAt
<1> QED
    BY InitIInv, NextIInv, <1>1, PTL DEF Spec, NotADuplicateOfItself

=============================================================================
