------------------------------- MODULE Filing -------------------------------
(***************************************************************************)
(* From a fetched file to a library file.  Several runs of processUpload   *)
(* proceed at the same time, each on an upload of its own; they meet in    *)
(* the media table, whose unique keys reserve a title and a path before    *)
(* the file is moved, and in the library's directories.  The worker may    *)
(* crash between any two statements, a move may fail, an administrator may *)
(* delete media, and a library file may vanish outside the program.        *)
(*                                                                         *)
(* Abstractions: one user; fetching and identifying the file touch nothing *)
(* shared and are part of CheckPrior; attempts are not counted, so that a  *)
(* run which failed, was cancelled or was parked may always be followed by *)
(* another (UploadLifecycle counts them); the scratch file is there        *)
(* whenever a run needs it (Staging is about that), and removing it once   *)
(* its bytes have been copied does not fail.                               *)
(***************************************************************************)
EXTENDS Naturals, FiniteSets

CONSTANTS
  Uploads,
  Titles,           \* titles, or show-season-episodes, of the library
  Title,            \* the title an upload is identified as
  Content,          \* its checksum
  Suffixes,         \* how many names the organizer tries for a title
  OtherFilesystem,  \* titles whose root is on another filesystem than the scratch directory
  Concurrency,      \* job slots of the worker
  MaxCrashes,       \* bound on worker crashes
  MaxTouches,       \* bound on deletions by an administrator or outside the program
  None

ASSUME TitleType == Title \in [Uploads -> Titles]
ASSUME BoundsType == /\ Suffixes \in Nat \ {0} /\ Concurrency \in Nat \ {0}
                     /\ MaxCrashes \in Nat /\ MaxTouches \in Nat
ASSUME OtherFilesystemType == OtherFilesystem \subseteq Titles

Paths == Titles \X (0..(Suffixes - 1))

ASSUME NoneIsNothing == None \notin Uploads \cup Paths \cup [of : Uploads, whole : BOOLEAN]

VARIABLES
  outcome,    \* what became of the upload: "completed", "duplicate" or still "open"
  pc,         \* the next statement of the upload's run
  path,       \* the path the run has in hand: a duplicate's, then its own
  found,      \* the upload whose row findDuplicate returned, None once that row is deleted
  media,      \* the path in the upload's media row, None if there is no row
  library,    \* [of, whole]: whose bytes a path holds and whether they are all there, or None
  deleting,   \* paths of rows an administrator deleted whose file is yet to be unlinked
  crashes, touches,
  touched,    \* history: uploads whose row, or the file at its path or of their bytes, was deleted
              \* from outside the pipeline
  usurped     \* history: titles of a row that was deleted although a file was to come to its
              \* path, or that was dropped as stale although its file was there

locals == <<pc, path, found>>
bounds == <<crashes, touches, touched, deleting>>
vars == <<outcome, locals, media, library, bounds, usurped>>

-----------------------------------------------------------------------------

Statements == {"prior", "dedupe", "match", "stale", "pick", "insert", "move", "copy",
               "unreserve", "filed"}
Running == {u \in Uploads : pc[u] # "idle"}
Exists(p) == library[p] # None
Moving(u) == pc[u] \in {"move", "copy"}
InHand(p) == \E u \in Uploads : path[u] = p /\ (pc[u] = "insert" \/ Moving(u))
Whole(u) == [of |-> u, whole |-> TRUE]
Partial(u) == [of |-> u, whole |-> FALSE]

TypeOK ==
  /\ outcome \in [Uploads -> {"open", "completed", "duplicate"}]
  /\ pc \in [Uploads -> Statements \cup {"idle"}]
  /\ path \in [Uploads -> Paths \cup {None}]
  /\ found \in [Uploads -> Uploads \cup {None}]
  /\ media \in [Uploads -> Paths \cup {None}]
  /\ library \in [Paths -> [of : Uploads, whole : BOOLEAN] \cup {None}]
  /\ deleting \in SUBSET Paths
  /\ crashes \in Nat /\ touches \in Nat
  /\ touched \in SUBSET Uploads /\ usurped \in SUBSET Titles

Init ==
  /\ outcome = [u \in Uploads |-> "open"]
  /\ pc = [u \in Uploads |-> "idle"]
  /\ path = [u \in Uploads |-> None]
  /\ found = [u \in Uploads |-> None]
  /\ media = [u \in Uploads |-> None]
  /\ library = [p \in Paths |-> None]
  /\ deleting = {} /\ crashes = 0 /\ touches = 0 /\ touched = {} /\ usurped = {}

\* The run of u goes on with p in hand.
Goto(u, next, p) ==
  /\ pc' = [pc EXCEPT ![u] = next]
  /\ path' = [path EXCEPT ![u] = p]

\* The row of v is gone: a run that read its id deletes nothing with it any more.
RemoveRow(v) ==
  /\ media' = [media EXCEPT ![v] = None]
  /\ found' = [u \in Uploads |-> IF found[u] = v THEN None ELSE found[u]]

-----------------------------------------------------------------------------
(* A run *)

Claim(u) ==
  /\ outcome[u] = "open" /\ pc[u] = "idle" /\ Cardinality(Running) < Concurrency
  /\ Goto(u, "prior", None)
  /\ UNCHANGED <<outcome, found, media, library, bounds, usurped>>

\* Faulty: an earlier attempt's row is dropped, its file left.
CheckPriorAfresh(u) ==
  /\ pc[u] = "prior"
  /\ Goto(u, "dedupe", None) /\ RemoveRow(u)
  /\ UNCHANGED <<outcome, library, bounds, usurped>>

\* Faulty: a row alone is taken for a filed upload.
CheckPriorRow(u) ==
  /\ pc[u] = "prior"
  /\ IF media[u] # None
       THEN Goto(u, "filed", media[u]) /\ UNCHANGED <<media, found>>
       ELSE Goto(u, "dedupe", None) /\ RemoveRow(u)
  /\ UNCHANGED <<outcome, library, bounds, usurped>>

\* Faulty: no look at an earlier attempt's row, which stays.
SkipPrior(u) ==
  /\ pc[u] = "prior" /\ Goto(u, "dedupe", None)
  /\ UNCHANGED <<outcome, found, media, library, bounds, usurped>>

\* "Already filed?": resume behind the move, or drop a reservation without a file.
CheckPrior(u) ==
  /\ pc[u] = "prior"
  /\ IF media[u] # None /\ Exists(media[u])
       THEN Goto(u, "filed", media[u]) /\ UNCHANGED <<media, found>>
       ELSE Goto(u, "dedupe", None) /\ RemoveRow(u)
  /\ UNCHANGED <<outcome, library, bounds, usurped>>

SameContent(u) == {v \in Uploads : media[v] # None /\ Content[v] = Content[u]}
SameTitle(u) == {v \in Uploads : media[v] # None /\ Title[v] = Title[u]}

\* By checksum, else by title.
FindDuplicate(u) ==
  /\ pc[u] = "dedupe"
  /\ LET matches == IF SameContent(u) # {} THEN SameContent(u) ELSE SameTitle(u)
     IN \/ /\ matches = {} /\ Goto(u, "pick", None) /\ UNCHANGED found
        \/ \E v \in matches : /\ found' = [found EXCEPT ![u] = v]
                              /\ Goto(u, "match", media[v])
  /\ UNCHANGED <<outcome, media, library, bounds, usurped>>

\* A match whose file exists makes u a duplicate.
CheckMatch(u) ==
  /\ pc[u] = "match"
  /\ IF Exists(path[u])
       THEN /\ outcome' = [outcome EXCEPT ![u] = "duplicate"]
            /\ Goto(u, "idle", None) /\ found' = [found EXCEPT ![u] = None]
       ELSE Goto(u, "stale", None) /\ UNCHANGED <<outcome, found>>
  /\ UNCHANGED <<media, library, bounds, usurped>>

\* One whose file does not exist is taken for stale and deleted, by id.
DropStale(u) ==
  /\ pc[u] = "stale"
  /\ IF found[u] = None
       THEN UNCHANGED <<media, found, usurped>>
       ELSE /\ RemoveRow(found[u])
            /\ usurped' = IF Moving(found[u]) \/ Exists(media[found[u]])
                            THEN usurped \cup {Title[found[u]]} ELSE usurped
  /\ Goto(u, "pick", None)
  /\ UNCHANGED <<outcome, library, bounds>>

FreeNames(t) == {k \in 0..(Suffixes - 1) : ~Exists(<<t, k>>)}

PickPath(u) ==
  /\ pc[u] = "pick"
  /\ \E k \in FreeNames(Title[u]) :
       /\ \A i \in FreeNames(Title[u]) : k <= i
       /\ Goto(u, "insert", <<Title[u], k>>)
  /\ UNCHANGED <<outcome, found, media, library, bounds, usurped>>

\* Faulty: without the index on titles; without any.
ReservePathOnly(u) ==
  /\ pc[u] = "insert"
  /\ \A v \in Uploads : media[v] # path[u]
  /\ media' = [media EXCEPT ![u] = path[u]]
  /\ Goto(u, "move", path[u])
  /\ UNCHANGED <<outcome, found, library, bounds, usurped>>

ReserveFreely(u) ==
  /\ pc[u] = "insert"
  /\ media' = [media EXCEPT ![u] = path[u]]
  /\ Goto(u, "move", path[u])
  /\ UNCHANGED <<outcome, found, library, bounds, usurped>>

\* The unique indexes: one row for a title, one for a path.
Reserve(u) ==
  /\ pc[u] = "insert"
  /\ SameTitle(u) = {} /\ \A v \in Uploads : media[v] # path[u]
  /\ media' = [media EXCEPT ![u] = path[u]]
  /\ Goto(u, "move", path[u])
  /\ UNCHANGED <<outcome, found, library, bounds, usurped>>

\* rename on one filesystem; otherwise the bytes are streamed into the final path.
Move(u) ==
  /\ pc[u] = "move"
  /\ IF Title[u] \in OtherFilesystem
       THEN library' = [library EXCEPT ![path[u]] = Partial(u)] /\ Goto(u, "copy", path[u])
       ELSE library' = [library EXCEPT ![path[u]] = Whole(u)] /\ Goto(u, "filed", path[u])
  /\ UNCHANGED <<outcome, found, media, bounds, usurped>>

FinishCopy(u) ==
  /\ pc[u] = "copy"
  /\ library' = [library EXCEPT ![path[u]] = Whole(u)]
  /\ Goto(u, "filed", path[u])
  /\ UNCHANGED <<outcome, found, media, bounds, usurped>>

MoveFails(u) ==
  /\ Moving(u) /\ Goto(u, "unreserve", path[u])
  /\ UNCHANGED <<outcome, found, media, library, bounds, usurped>>

\* finishFiled: nothing in it undoes the filing.
Finish(u) ==
  /\ pc[u] = "filed"
  /\ outcome' = [outcome EXCEPT ![u] = "completed"]
  /\ Goto(u, "idle", None)
  /\ UNCHANGED <<found, media, library, bounds, usurped>>

\* Any statement may fail; a move's failure releases the reservation first, if it can.  A
\* failed, cancelled or parked run ends here.
Fail(u) ==
  /\ pc[u] \in Statements \ {"move", "copy"}
  /\ Goto(u, "idle", None)
  /\ \/ pc[u] = "unreserve" /\ RemoveRow(u)
     \/ found' = [found EXCEPT ![u] = None] /\ UNCHANGED media
  /\ UNCHANGED <<outcome, library, bounds, usurped>>

\* The worker dies and is started again: the runs are lost.
Crash ==
  /\ Running # {} /\ crashes < MaxCrashes
  /\ crashes' = crashes + 1
  /\ pc' = [u \in Uploads |-> "idle"]
  /\ path' = [u \in Uploads |-> None]
  /\ found' = [u \in Uploads |-> None]
  /\ UNCHANGED <<outcome, media, library, touches, touched, deleting, usurped>>

-----------------------------------------------------------------------------
(* Deletions from outside the pipeline *)

\* DELETE /media/:id removes the row, then the file if it was asked to.
DeleteRow(u) ==
  /\ media[u] # None /\ touches < MaxTouches
  /\ touches' = touches + 1
  /\ touched' = touched \cup {u}
  /\ RemoveRow(u)
  /\ usurped' = IF InHand(media[u]) THEN usurped \cup {Title[u]} ELSE usurped
  /\ deleting' \in {deleting, deleting \cup {media[u]}}
  /\ UNCHANGED <<outcome, pc, path, library, crashes>>

Owners(p) == {u \in Uploads : media[u] = p \/ (Exists(p) /\ library[p].of = u)}

UnlinkDeleted(p) ==
  /\ p \in deleting
  /\ deleting' = deleting \ {p}
  /\ touched' = touched \cup Owners(p)
  /\ library' = [library EXCEPT ![p] = None]
  /\ UNCHANGED <<outcome, locals, media, crashes, touches, usurped>>

\* "removed outside the app, or by Jellyfin"
Vanish(p) ==
  /\ Exists(p) /\ touches < MaxTouches
  /\ touches' = touches + 1
  /\ touched' = touched \cup Owners(p)
  /\ library' = [library EXCEPT ![p] = None]
  /\ UNCHANGED <<outcome, locals, media, crashes, deleting, usurped>>

Next ==
  \/ \E u \in Uploads :
       \/ Claim(u) \/ CheckPrior(u) \/ FindDuplicate(u) \/ CheckMatch(u)
       \/ DropStale(u) \/ PickPath(u) \/ Reserve(u) \/ Move(u) \/ FinishCopy(u) \/ MoveFails(u)
       \/ Finish(u) \/ Fail(u) \/ DeleteRow(u)
  \/ \E p \in Paths : UnlinkDeleted(p) \/ Vanish(p)
  \/ Crash

Spec == Init /\ [][Next]_vars

-----------------------------------------------------------------------------
(* Properties *)

Copies(t) ==
  {p \in Paths : p[1] = t /\ Exists(p) /\ library[p].whole /\ library[p].of \notin touched}

\* docs/architecture.md: "a race between two workers cannot produce two copies".  It can, but
\* only in one way: the reservation of a run that had not moved its file yet was taken for
\* stale.
OneCopyUnlessUsurped == \A t \in Titles \ usurped : Cardinality(Copies(t)) <= 1

\* No file lies in the library that nothing knows about: crashes, failed inserts and failed
\* moves leave every whole file with the row of its upload.
FilesAreKnown ==
  \A p \in Paths : Exists(p) /\ library[p].whole =>
    \/ media[library[p].of] = p
    \/ library[p].of \in touched \/ p[1] \in usurped

\* An upload reported filed has its row and its own whole file.  A resumed run takes for
\* granted that "a row whose file exists means the filing is done"; with a library on another
\* filesystem the file may be one a crash left truncated, and even the remains of another
\* upload's failed copy, to whose path a run that had picked it before moved its reservation.
CompletedIsFiled ==
  \A u \in Uploads : outcome[u] = "completed" /\ u \notin touched /\ Title[u] \notin usurped =>
    /\ media[u] # None /\ Exists(media[u])
    /\ library[media[u]] = Whole(u) \/ Title[u] \in OtherFilesystem

\* "never overwritten": a whole file in the library stays what it is, unless it is deleted
\* from outside.
NothingOverwritten ==
  [][\A p \in Paths : Exists(p) /\ library[p].whole /\ p[1] \notin usurped =>
       library'[p] = library[p] \/ library[p].of \in touched']_vars

\* docs/architecture.md: a re-run "does not find its own earlier work and call it a
\* duplicate".
NotADuplicateOfItself ==
  [][\A u \in Uploads : outcome[u] # "duplicate" /\ outcome'[u] = "duplicate" =>
       \A p \in Paths : library[p] = Whole(u) => u \in touched \/ Title[u] \in usurped]_vars

=============================================================================
