------------------------------- MODULE MiniApp -------------------------------
(***************************************************************************)
(* The Telegram Mini App: a few views drawn from answers that may arrive   *)
(* late and out of order, a poll of the running transfers, and a file sent *)
(* from the phone.  A view switch takes a new token; drawing the same view *)
(* again (another filter, the next page, a quiet refresh) does not, so     *)
(* answers of one view compete with each other.                            *)
(*                                                                         *)
(* Abstractions: what a view says beyond what is stated in `root`; the     *)
(* home and account views, which differ in their text only, are one;       *)
(* messages, posters, and the choice of a route to Jellyfin.               *)
(***************************************************************************)
EXTENDS Naturals, Sequences, FiniteSets

CONSTANTS
  Types,       \* filters of the library; those of the history
  Pages,       \* pages the server has of each type
  Calls,    \* requests in flight at the same time
  Sends,       \* uploads from the phone: each file is chosen once
  MaxTokens,   \* bound on view switches
  MaxBodies,   \* bound on lists built
  Nothing

VARIABLES
  view,        \* state.view
  token,       \* renderToken
  root,        \* the screen: "loading", "done", "disabled" (for uploads), "error", "list",
               \* "running", "idle" or "fatal"
  timer,       \* pollTimer is set
  request,     \* requests in flight
  library,     \* state.library
  history,     \* state.history
  body,        \* the list bodies built so far: what each shows
  attached,    \* the body on screen
  transfer,    \* state.transfer
  sending,     \* each Ingest.send
  jump,        \* the timeouts that show the transfers behind a finished upload
  active,      \* the server has transfers of this account running
  valid,       \* the server's opinion of the credential
  expiredOnce, \* the reader has been told to reopen the app
  resumed,     \* and a view has been opened since
  latest,      \* the library's last request
  overtaken,   \* an answer of the library came behind a later request
  acting,      \* the row being retried (view "history") or cancelled ("active"), and its token
  strayed      \* that view was drawn again after the reader had left it

screen == <<view, token, root, timer, attached>>
lists == <<library, history, body, latest>>
upload == <<transfer, sending, jump, acting>>
server == <<active, valid>>
notes == <<expiredOnce, resumed, overtaken, strayed>>
miniAppVars == <<screen, request, lists, upload, server, notes>>

-----------------------------------------------------------------------------

Views == {"home", "library", "upload", "active", "history"}
Roots == {"loading", "done", "disabled", "error", "list", "running", "idle", "fatal"}
Quietness == {"no", "poll", "once"}
Selections == [type : Types, offset : Nat]
Asks == [view : Views, token : Nat, quiet : Quietness,
         status : {"asked", "ok", "expired", "forbidden"},
         want : Selections, body : Nat, appending : BOOLEAN, active : BOOLEAN]
Transfers == [send : Sends, done : BOOLEAN]
Actings == [view : {"history", "active"}, token : Nat]
NoBody == [of |-> "none", kind |-> "none", items |-> <<>>, button |-> FALSE]

ASSUME PagesType == Pages \in [Types -> Nat]
ASSUME NothingIsNothing == Nothing \notin Calls \cup Asks \cup Transfers \cup Actings

MiniAppTypeOK ==
  /\ view \in Views /\ token \in Nat /\ root \in Roots /\ timer \in BOOLEAN
  /\ request \in [Calls -> {Nothing} \cup Asks]
  /\ library \in [type : Types, offset : Nat, items : Seq(Selections),
                  grid : Nat, body : Nat, more : Nat]
  /\ history \in Selections
  /\ body \in Seq([of : {"library", "history"}, kind : {"loading", "grid", "empty", "error"},
                   items : Seq(Selections), button : BOOLEAN])
  /\ attached \in 0..Len(body)
  /\ transfer \in {Nothing} \cup Transfers
  /\ sending \in [Sends -> {"new", "going", "gone"}]
  /\ jump \in Nat /\ active \in BOOLEAN /\ valid \in {"ok", "expired", "forbidden"}
  /\ expiredOnce \in BOOLEAN /\ resumed \in BOOLEAN
  /\ latest \in Calls \cup {Nothing} /\ overtaken \in BOOLEAN
  /\ acting \in {Nothing} \cup Actings /\ strayed \in BOOLEAN

\* boot has authenticated and shown the home view's data once.
MiniAppInit ==
  /\ view = "home" /\ token = 0 /\ root = "done" /\ timer = FALSE
  /\ request = [r \in Calls |-> Nothing]
  /\ \E t \in Types :
       /\ library = [type |-> t, offset |-> 0, items |-> <<>>, grid |-> 0, body |-> 0, more |-> 0]
       /\ history = [type |-> t, offset |-> 0]
  /\ body = <<>> /\ attached = 0
  /\ transfer = Nothing /\ sending = [s \in Sends |-> "new"] /\ jump = 0
  /\ active \in BOOLEAN /\ valid = "ok"
  /\ expiredOnce = FALSE /\ resumed = FALSE /\ latest = Nothing /\ overtaken = FALSE
  /\ acting = Nothing /\ strayed = FALSE

-----------------------------------------------------------------------------
(* Asking *)

Shows(b) == IF b = 0 THEN NoBody ELSE body[b]

Ask(v, t, quiet, want, b, appending) ==
  \E r \in Calls :
    /\ request[r] = Nothing
    /\ request' = [request EXCEPT ![r] =
         [view |-> v, token |-> t, quiet |-> quiet, status |-> "asked", want |-> want, body |-> b,
          appending |-> appending, active |-> FALSE]]
    /\ latest' = IF v = "library" THEN r ELSE latest

NoWant == [type |-> library.type, offset |-> 0]

\* A new list body takes the place of whatever the root showed.
NewBody(v) ==
           /\ Len(body) < MaxBodies
           /\ body' = Append(body, [of |-> v, kind |-> "loading", items |-> <<>>, button |-> FALSE])
           /\ attached' = Len(body) + 1 /\ root' = "list"

InFlight(v) == {r \in Calls : request[r] # Nothing /\ request[r].view = v}

\* drawLibrary(false): a filter, or the view is opened.
FreshLibrary(t, type) ==
  /\ library' = [library EXCEPT !.type = type, !.offset = 0, !.items = <<>>]
  /\ NewBody("library")
  /\ Ask("library", t, "no", [type |-> type, offset |-> 0], Len(body) + 1, FALSE)
  /\ overtaken' = (overtaken /\ InFlight("library") # {})
  /\ UNCHANGED history

\* drawLibrary(true) at the page `off`: appends to the grid if that is still on screen, and
\* rebuilds the view with everything loaded so far if it is not.
MoreLibrary(off) ==
  /\ LET want == [type |-> library.type, offset |-> off]
     IN IF library.grid # 0 /\ attached = library.grid /\ Shows(attached).kind = "grid"
          THEN /\ Ask("library", token, "no", want, library.body, TRUE)
               /\ body' = [body EXCEPT ![attached].button = FALSE]
               /\ UNCHANGED <<attached, root>>
          ELSE /\ NewBody("library")
               /\ Ask("library", token, "no", want, Len(body) + 1, FALSE)
  /\ library' = [library EXCEPT !.offset = off]
  /\ UNCHANGED <<history, overtaken>>

drawHistory(t, want) ==
  /\ history' = want
  /\ NewBody("history")
  /\ Ask("history", t, "no", want, Len(body) + 1, FALSE)
  /\ UNCHANGED <<library, overtaken>>

\* show.  Nothing can be sent from an account that may not upload, going by what the home or
\* the account view last said of it.
show(v) ==
  /\ token < MaxTokens
  /\ view' = v /\ token' = token + 1 /\ timer' = FALSE
  /\ strayed' = FALSE /\ resumed' = expiredOnce
  /\ CASE v = "library" -> FreshLibrary(token + 1, library.type)
       [] v = "history" -> drawHistory(token + 1, history)
       [] v = "upload" -> /\ root' \in {"done", "disabled"} /\ attached' = 0
                          /\ UNCHANGED <<request, lists, overtaken>>
       [] OTHER -> /\ root' = "loading" /\ attached' = 0
                   /\ Ask(v, token + 1, "no", NoWant, 0, FALSE)
                   /\ UNCHANGED <<library, history, body, overtaken>>

-----------------------------------------------------------------------------
(* Answering *)

Answer(r) ==
  /\ request[r] # Nothing /\ request[r].status = "asked"
  /\ request' = [request EXCEPT ![r].status = valid, ![r].active = active]
  /\ UNCHANGED <<screen, lists, upload, server, notes>>

Arrived(r, v) == request[r] # Nothing /\ request[r].view = v /\ request[r].status = "ok"
Current(r) == request[r].token = token
Forget(r) == request' = [request EXCEPT ![r] = Nothing]

\* The view was left while the answer was on its way.
Discard(r) ==
  /\ request[r] # Nothing /\ request[r].status # "asked" /\ ~Current(r)
  /\ Forget(r)
  /\ UNCHANGED <<screen, lists, upload, server, notes>>

\* drawHome, drawAccount
drawHome(r) ==
  /\ Arrived(r, "home") /\ Current(r)
  /\ root' = "done" /\ Forget(r)
  /\ UNCHANGED <<view, token, timer, attached, lists, upload, server, notes>>

drawLibrary(r) ==
  /\ Arrived(r, "library") /\ Current(r)
  /\ LET q == request[r]
         page == IF q.want.offset < Pages[q.want.type] THEN <<q.want>> ELSE <<>>
         items == IF library.offset = 0 THEN page ELSE library.items \o page
         more == Len(items) < Pages[q.want.type]
         grid == IF q.appending THEN library.grid ELSE q.body
         cleared == [b \in DOMAIN body |->
                       IF q.appending /\ b = library.more THEN [body[b] EXCEPT !.button = FALSE]
                                                          ELSE body[b]]
     IN IF items = <<>>
          THEN /\ body' = [body EXCEPT ![q.body] = [@ EXCEPT !.kind = "empty", !.items = <<>>,
                                                             !.button = FALSE]]
               /\ library' = [library EXCEPT !.items = items]
          ELSE /\ body' = [cleared EXCEPT
                    ![grid] = IF q.appending THEN [@ EXCEPT !.items = body[grid].items \o page]
                                             ELSE [@ EXCEPT !.kind = "grid", !.items = items],
                    ![q.body].button = more]
               /\ library' = [library EXCEPT !.items = items, !.grid = grid, !.body = q.body,
                                             !.more = IF more THEN q.body ELSE 0]
  /\ overtaken' = (overtaken \/ latest # r)
  /\ Forget(r)
  /\ UNCHANGED <<screen, history, latest, upload, server, expiredOnce, resumed, strayed>>

\* Faulty: the rows go to the list on screen, whoever asked for them.
HistoryOnScreen(r) ==
  /\ Arrived(r, "history") /\ Current(r)
  /\ body' = [body EXCEPT ![attached] =
              [of |-> "history", kind |-> "grid", items |-> <<request[r].want>>, button |-> FALSE]]
  /\ Forget(r)
  /\ UNCHANGED <<screen, library, history, latest, upload, server, notes>>

\* The rows, if there are any by now, go to the body built for this request, which a later one
\* may have replaced.
HistoryArrives(r) ==
  /\ Arrived(r, "history") /\ Current(r)
  /\ \E items \in {<<request[r].want>>, <<>>} :
       body' = [body EXCEPT ![request[r].body] =
                  [of |-> "history", kind |-> IF items = <<>> THEN "empty" ELSE "grid",
                   items |-> items, button |-> FALSE]]
  /\ Forget(r)
  /\ UNCHANGED <<screen, library, history, latest, upload, server, notes>>

\* Faulty: an answer that arrives after the view was left draws and polls all the same.
ActiveAnyway(r) ==
  /\ Arrived(r, "active")
  /\ root' = IF request[r].active THEN "running" ELSE "idle"
  /\ timer' = request[r].active
  /\ Forget(r)
  /\ UNCHANGED <<view, token, attached, lists, upload, server, notes>>

\* Polls while something is running, and stops by itself.
drawActive(r) ==
  /\ Arrived(r, "active") /\ Current(r)
  /\ root' = IF request[r].active THEN "running" ELSE "idle"
  /\ timer' = request[r].active
  /\ Forget(r)
  /\ UNCHANGED <<view, token, attached, lists, upload, server, notes>>

\* A request that fails or is refused: an error in place of what was asked for, but a quiet
\* refresh keeps the last good list.
ShowError(r) ==
  /\ request[r] # Nothing /\ request[r].status \in {"asked", "forbidden"}
  /\ request[r].quiet = "no" /\ Current(r)
  /\ IF request[r].view \in {"library", "history"}
       THEN body' = [body EXCEPT ![request[r].body] = [@ EXCEPT !.kind = "error", !.items = <<>>,
                                                                !.button = FALSE]]
            /\ UNCHANGED root
       ELSE root' = "error" /\ UNCHANGED body
  /\ Forget(r)
  /\ UNCHANGED <<view, token, timer, attached, library, history, latest, upload, server, notes>>

\* Only the poll hears that it was refused.
KeepList(r) ==
  /\ request[r] # Nothing /\ Current(r)
  /\ \/ request[r].quiet # "no" /\ request[r].status = "asked"
     \/ request[r].quiet = "once" /\ request[r].status # "ok"
  /\ Forget(r)
  /\ UNCHANGED <<screen, lists, upload, server, notes>>

\* expired: the poll is refused for good, or any request of a view, whose errorBox then says so
\* instead.
expired(r) ==
  /\ request[r] # Nothing /\ request[r].quiet # "once" /\ request[r].status = "expired" /\ Current(r)
  /\ token < MaxTokens
  /\ timer' = FALSE /\ token' = token + 1 /\ root' = "fatal" /\ attached' = 0
  /\ Forget(r)
  /\ expiredOnce' = TRUE /\ resumed' = FALSE /\ strayed' = FALSE
  /\ UNCHANGED <<view, lists, upload, server, overtaken>>

\* A deactivated account goes home, where the server says so.
GoHome(r) ==
  /\ request[r] # Nothing /\ request[r].quiet = "poll" /\ request[r].status = "forbidden"
  /\ Current(r)
  /\ token < MaxTokens
  /\ view' = "home" /\ token' = token + 1 /\ timer' = FALSE /\ root' = "loading" /\ attached' = 0
  /\ request' = [request EXCEPT ![r] = [@ EXCEPT !.view = "home", !.token = token + 1,
                                                 !.quiet = "no", !.status = "asked"]]
  /\ strayed' = FALSE /\ resumed' = expiredOnce
  /\ UNCHANGED <<lists, upload, server, expiredOnce, overtaken>>

-----------------------------------------------------------------------------
(* The reader, the clock and the server *)

\* The tab bar is hidden for good behind the fatal message; an empty list drawn over it would
\* still offer the upload view.
Switch(v) ==
  /\ root # "fatal"
  /\ expiredOnce => v = "upload" /\ root \in {"idle", "list"}
  /\ show(v)
  /\ UNCHANGED <<upload, server, expiredOnce>>

\* The controls of a list are there as long as it is.
OnScreen(v) == root = "list" /\ Shows(attached).of = v

setLibraryType(type) ==
  /\ OnScreen("library") /\ type # library.type
  /\ FreshLibrary(token, type)
  /\ UNCHANGED <<view, token, timer, upload, server, expiredOnce, resumed, strayed>>

\* "Load more", whose button is disabled by the click; and the retry of a failed page.
LoadMore ==
  /\ OnScreen("library")
  /\ \/ Shows(attached).button /\ MoreLibrary(library.offset + 1)
     \/ Shows(attached).kind = "error" /\ MoreLibrary(library.offset)
  /\ UNCHANGED <<view, token, timer, upload, server, expiredOnce, resumed, strayed>>

SelectHistory(type) ==
  /\ OnScreen("history") /\ type # history.type
  /\ drawHistory(token, [type |-> type, offset |-> 0])
  /\ UNCHANGED <<view, token, timer, upload, server, expiredOnce, resumed, strayed>>

\* The buttons appear with the rows they page through.
pager ==
  /\ OnScreen("history") /\ Shows(attached).kind = "grid"
  /\ \E off \in {history.offset - 1, history.offset + 1} :
       /\ off >= 0 /\ off < Pages[history.type]
       /\ drawHistory(token, [history EXCEPT !.offset = off])
  /\ UNCHANGED <<view, token, timer, upload, server, expiredOnce, resumed, strayed>>

\* "Try again" in an error; the library's is in LoadMore.
TryAgain ==
  /\ \/ root = "error" /\ root' = "loading" /\ Ask(view, token, "no", NoWant, 0, FALSE)
        /\ UNCHANGED <<attached, library, history, body, overtaken>>
     \/ OnScreen("history") /\ Shows(attached).kind = "error" /\ drawHistory(token, history)
  /\ UNCHANGED <<view, token, timer, upload, server, expiredOnce, resumed, strayed>>

\* The interval.
poll ==
  /\ timer
  /\ Ask("active", token, "poll", NoWant, 0, FALSE)
  /\ UNCHANGED <<screen, library, history, body, upload, server, notes>>

\* A tab that becomes visible.
refresh ==
  /\ timer /\ view = "active"
  /\ Ask("active", token, "once", NoWant, 0, FALSE)
  /\ UNCHANGED <<screen, library, history, body, upload, server, notes>>

\* "Try again" in a row of the history, "Cancel" on a running transfer: the request is sent.
historyCard ==
  /\ OnScreen("history") /\ Shows(attached).kind = "grid" /\ acting = Nothing
  /\ acting' = [view |-> "history", token |-> token]
  /\ UNCHANGED <<screen, request, lists, transfer, sending, jump, server, notes>>

transferCard ==
  /\ root = "running" /\ acting = Nothing
  /\ acting' = [view |-> "active", token |-> token]
  /\ UNCHANGED <<screen, request, lists, transfer, sending, jump, server, notes>>

\* It was granted, perhaps before the credential expired.  The view is drawn again wherever
\* the reader is by now.
Acted ==
  /\ acting # Nothing /\ acting' = Nothing
  /\ strayed' = (strayed \/ acting.token # token)
  /\ IF acting.view = "history"
       THEN drawHistory(token, history)
       ELSE /\ Ask("active", token, "once", NoWant, 0, FALSE)
            /\ UNCHANGED <<root, attached, library, history, body, overtaken>>
  /\ UNCHANGED <<view, token, timer, transfer, sending, jump, server, expiredOnce, resumed>>

ActingFails ==
  /\ acting # Nothing /\ acting' = Nothing
  /\ UNCHANGED <<screen, request, lists, transfer, sending, jump, server, notes>>

\* Faulty: a second file is started while one is under way.
StartAnother(s) ==
  /\ view = "upload" /\ root = "done" /\ sending[s] = "new"
  /\ sending' = [sending EXCEPT ![s] = "going"]
  /\ transfer' = [send |-> s, done |-> FALSE]
  /\ UNCHANGED <<screen, request, lists, jump, acting, server, notes>>

startTransfer(s) ==
  /\ view = "upload" /\ root = "done" /\ sending[s] = "new"
  /\ transfer # Nothing => transfer.done
  /\ sending' = [sending EXCEPT ![s] = "going"]
  /\ transfer' = [send |-> s, done |-> FALSE]
  /\ UNCHANGED <<screen, request, lists, jump, acting, server, notes>>

\* Ingest.send has planned, sent the file or its parts and had them put together.
Sent(s) ==
  /\ sending[s] = "going"
  /\ sending' = [sending EXCEPT ![s] = "gone"]
  /\ transfer' = IF transfer = Nothing THEN Nothing ELSE [transfer EXCEPT !.done = TRUE]
  /\ jump' = IF transfer = Nothing THEN jump ELSE jump + 1
  /\ active' = TRUE
  /\ UNCHANGED <<screen, request, lists, acting, valid, notes>>

\* A failure, or Cancel, which aborts whatever call is under way.
SendFails(s) ==
  /\ sending[s] = "going"
  /\ sending' = [sending EXCEPT ![s] = "gone"]
  /\ transfer' = IF transfer = Nothing THEN Nothing ELSE [transfer EXCEPT !.done = TRUE]
  /\ UNCHANGED <<screen, request, lists, jump, acting, server, notes>>

\* The card of an upload that is done offers Dismiss instead of Cancel.
Dismiss ==
  /\ view = "upload" /\ root = "done" /\ transfer # Nothing /\ transfer.done
  /\ transfer' = Nothing
  /\ UNCHANGED <<screen, request, lists, sending, jump, acting, server, notes>>

\* 1.2 s behind a finished upload, if the reader is still on that view.
JumpToActive ==
  /\ jump > 0 /\ jump' = jump - 1
  /\ IF view = "upload" THEN show("active")
                        ELSE UNCHANGED <<screen, request, lists, overtaken, resumed, strayed>>
  /\ UNCHANGED <<transfer, sending, acting, server, expiredOnce>>

ServerChanges ==
  /\ \/ active' = ~active /\ UNCHANGED valid
     \/ valid = "ok" /\ valid' \in {"expired", "forbidden"} /\ UNCHANGED active
  /\ UNCHANGED <<screen, request, lists, upload, notes>>

-----------------------------------------------------------------------------

MiniAppNext ==
  \/ \E r \in Calls :
       \/ Answer(r) \/ Discard(r) \/ drawHome(r) \/ drawLibrary(r) \/ HistoryArrives(r)
       \/ drawActive(r) \/ ShowError(r) \/ KeepList(r) \/ expired(r) \/ GoHome(r)
  \/ \E v \in Views : Switch(v)
  \/ \E t \in Types : setLibraryType(t) \/ SelectHistory(t)
  \/ LoadMore \/ pager \/ TryAgain \/ poll \/ refresh
  \/ historyCard \/ transferCard \/ Acted \/ ActingFails
  \/ \E s \in Sends : startTransfer(s) \/ Sent(s) \/ SendFails(s)
  \/ Dismiss \/ JumpToActive \/ ServerChanges

MiniAppSpec == MiniAppInit /\ [][MiniAppNext]_miniAppVars

-----------------------------------------------------------------------------
(* Properties *)

\* The pages of one listing, from its first, in order.
OneListing(type, items) == \A i \in DOMAIN items : items[i] = [type |-> type, offset |-> i - 1]

\* What the library shows is one listing of the selected type without gaps or repetitions,
\* and the history shows the page its controls select; each on its own view.  The history
\* builds a body for every request; the library's state is shared by its requests, so the
\* exception is an answer that was overtaken by a later request's.  A list may be on another
\* view only if that was drawn over by the one whose row the reader had acted on.
ListsAreAsSelected ==
  root = "list" /\ Shows(attached).kind = "grid" =>
    /\ body[attached].of = view \/ strayed
    /\ body[attached].of = "library" => OneListing(library.type, body[attached].items) \/ overtaken
    /\ body[attached].of = "history" => body[attached].items = <<history>>

\* The poll runs exactly while the transfers view shows something running, and never behind
\* the message to reopen the app, which stands until a view is opened in its place: a dead
\* credential is not re-sent and the reader is not sent back to a view that cannot load.  The
\* exceptions are a view drawn by an action of an earlier visit, and what it may lead to: an
\* upload finished under that message opens the transfers.
PollServesView ==
  ~strayed =>
    /\ timer <=> (view = "active" /\ root = "running")
    /\ expiredOnce => root = "fatal" \/ resumed

\* Every upload under way is the one the card shows, so its Cancel reaches it; a card that
\* says it is done has none behind it.
SendHasItsCancel ==
  \A s \in Sends : sending[s] = "going" => transfer = [send |-> s, done |-> FALSE]

=============================================================================
