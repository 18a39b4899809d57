------------------------------ MODULE Dashboard ------------------------------
(***************************************************************************)
(* The administration dashboard in one browser tab.  Every page is drawn   *)
(* from answers that arrive some time after they were asked for; one timer *)
(* redraws the page on screen; a page owns the screen as long as its token *)
(* is the current one.  The server may change, refuse or fail meanwhile.   *)
(*                                                                         *)
(* Abstractions: what a page says beyond whose it is and whether its       *)
(* upload is unfinished, so the filters too, of which only the redraw is   *)
(* left; the sidebar's counts; hidden tabs and open menus, which only      *)
(* suppress ticks (a tick need never happen here).  Every bump of the      *)
(* token also clears the timer, so the tick's own comparison of tokens is  *)
(* always true and is left out.  The privacy page's repair of every        *)
(* account, which may change the user list and never drops it, is not a    *)
(* change here.                                                            *)
(***************************************************************************)
EXTENDS Naturals, FiniteSets

CONSTANTS
  Visited,      \* the pages the reader goes to
  Draws,        \* draws in flight at the same time
  MaxTokens,    \* bound on navigations and returns to the sign-in form
  MaxChanges,   \* bound on changes to users
  Nothing

VARIABLES
  view,         \* "app" or "login"
  session,      \* the server accepts the cookie
  leaving,      \* the reader has asked to be signed out and has no answer yet
  page,         \* currentRoute()
  token,        \* renderToken
  main,         \* what #main shows
  timer,        \* refreshTimer and currentDraw: the draw it repeats
  polling,      \* the upload page's own flag that it has started the timer
  draw,         \* draws in flight
  cache,        \* usersCache.value: how many changes it includes
  fetch,        \* usersCache.inflight
  running,      \* the upload of the upload page is unfinished
  changes,      \* changes to users the server has made
  change,       \* the change being saved, and what is left to do once it is
  told,         \* changes the reader has been told of
  raced,        \* a user list was on its way when the cache was dropped
  rearmed,      \* a page that had been left started the timer
  late          \* the sign-in form was shown to a reader who is signed in

server == <<session, running, changes>>
userList == <<cache, fetch>>
ghosts == <<told, raced, rearmed, late>>
dashboardVars == <<view, page, token, main, timer, polling, draw, change, leaving, server,
                   userList, ghosts>>

-----------------------------------------------------------------------------
(* Pages *)

\* Redraws itself: never, always, or while its upload is unfinished.  Needs the user list:
\* never, from the cache, or after dropping it.  Its token is taken when the page is opened
\* or whenever it is drawn.
Still == [polls |-> "never", users |-> "never", token |-> "opened"]
Polled == [Still EXCEPT !.polls = "always"]
WithUsers == [Polled EXCEPT !.users = "cached"]

renderDashboard == Polled
renderUsers == [Still EXCEPT !.users = "dropped"]
renderUserDetail == Still
renderUploads == WithUsers
renderUploadDetail == [Still EXCEPT !.polls = "unfinished"]
renderMultipart == WithUsers
renderMtproto == WithUsers
renderMedia == [Still EXCEPT !.users = "cached"]
renderStorage == Still
renderHealth == Polled
renderPrivacy == Still
renderSettings == Still
renderNotFound == Still       \* asks nothing; here it may take its time all the same
drawActivity == [Still EXCEPT !.token = "drawn"]
drawServiceLogs == drawActivity
renderLogs == [drawServiceLogs EXCEPT !.polls = "always"]

routes == [dashboard |-> renderDashboard, users |-> renderUsers, user |-> renderUserDetail,
           uploads |-> renderUploads, upload |-> renderUploadDetail,
           multipart |-> renderMultipart, mtproto |-> renderMtproto, media |-> renderMedia,
           storage |-> renderStorage, health |-> renderHealth, privacy |-> renderPrivacy,
           settings |-> renderSettings, logs |-> renderLogs, notFound |-> renderNotFound]

ASSUME VisitsPages == Visited \subseteq DOMAIN routes
ASSUME NothingIsNothing ==
  Nothing \notin Visited /\ Nothing \notin [page : Visited, born : Nat]

Filtered == {"uploads", "multipart", "mtproto", "media", "logs"}
Loading == [page |-> Nothing, live |-> FALSE]
Ready == "answered"
States == {"asked", "refused", "failed", Ready}

DashboardTypeOK ==
  /\ view \in {"app", "login"} /\ session \in BOOLEAN /\ running \in BOOLEAN
  /\ leaving \in BOOLEAN
  /\ page \in Visited /\ token \in Nat
  /\ main \in [page : Visited \cup {Nothing}, live : BOOLEAN]
  /\ timer \in {Nothing} \cup [page : Visited, born : Nat]
  /\ polling \in BOOLEAN
  /\ draw \in [Draws -> {Nothing} \cup
       [page : Visited, born : Nat, kind : {"open", "tab", "tick", "again"},
        users : Nat \cup {Nothing}, state : States, live : BOOLEAN]]
  /\ cache \in Nat \cup {Nothing} /\ fetch \in {Nothing} \cup [state : States, list : Nat]
  /\ changes \in Nat /\ told \in Nat /\ raced \in BOOLEAN /\ rearmed \in BOOLEAN /\ late \in BOOLEAN
  /\ change \in {Nothing} \cup
       [page : Visited, born : Nat, kind : {"edit", "token"},
        made : BOOLEAN, closed : BOOLEAN, heard : BOOLEAN]

\* boot shows the form to a reader who is not signed in, and to one who is when asking who
\* they are fails; where it succeeds, it does what Login does.
DashboardInit ==
  /\ view = "login" /\ session \in BOOLEAN /\ running = TRUE /\ leaving = FALSE
  /\ page \in Visited /\ token = 0
  /\ main = Loading /\ timer = Nothing /\ polling = FALSE
  /\ draw = [d \in Draws |-> Nothing]
  /\ cache = Nothing /\ fetch = Nothing
  /\ changes = 0 /\ change = Nothing
  /\ told = 0 /\ raced = FALSE /\ rearmed = FALSE /\ late = session

-----------------------------------------------------------------------------
(* Drawing *)

\* cachedUsers: the list the page starts with.  Nothing stands for a request; a cached list may
\* be too old.  renderUsers drops the cache first.
cachedUsers(p, had) ==
  CASE routes[p].users = "never" -> {0}
    [] routes[p].users = "cached" -> {had, Nothing}
    [] routes[p].users = "dropped" -> {Nothing}

\* A draw of page p for the render that got token b, when the cache holds `had`.  Requests
\* for the user list share the one under way.
StartDraw(p, b, kind, had) ==
  \E d \in Draws, list \in cachedUsers(p, had) :
    /\ draw[d] = Nothing
    /\ draw' = [draw EXCEPT ![d] = [page |-> p, born |-> b, kind |-> kind,
                                    users |-> list, state |-> "asked", live |-> FALSE]]
    /\ cache' = IF routes[p].users = "dropped" THEN Nothing ELSE had
    /\ fetch' = IF list = Nothing /\ fetch = Nothing THEN [state |-> "asked", list |-> 0]
                                                      ELSE fetch

\* The server's answer to one draw: what the page shows is as of now.
Answer(d) ==
  /\ draw[d] # Nothing /\ draw[d].state = "asked"
  /\ draw' = [draw EXCEPT ![d].state = IF session THEN Ready ELSE "refused",
                           ![d].live = running /\ routes[draw[d].page].polls = "unfinished"]
  /\ UNCHANGED <<leaving, view, page, token, main, timer, polling, change, server,
                 userList, ghosts>>

AnswerUsers ==
  /\ fetch # Nothing /\ fetch.state = "asked"
  /\ fetch' = [state |-> IF session THEN Ready ELSE "refused", list |-> changes]
  /\ UNCHANGED <<leaving, view, page, token, main, timer, polling, draw, change, server,
                 cache, ghosts>>

\* The promise every waiting draw shares settles.
UsersArrive ==
  /\ fetch # Nothing /\ fetch.state # "asked"
  /\ draw' = [d \in Draws |->
       IF draw[d] = Nothing \/ draw[d].users # Nothing THEN draw[d]
       ELSE IF fetch.state = Ready THEN [draw[d] EXCEPT !.users = fetch.list]
       ELSE [draw[d] EXCEPT !.users = 0, !.state = "refused"]]
  /\ cache' = IF fetch.state = Ready THEN fetch.list ELSE cache
  /\ fetch' = Nothing
  /\ UNCHANGED <<leaving, view, page, token, main, timer, polling, change, server,
                 ghosts>>

\* The request for the list fails or times out, and with it every draw that waits for it.
UsersFail ==
  /\ fetch # Nothing /\ fetch' = Nothing
  /\ draw' = [d \in Draws |->
       IF draw[d] = Nothing \/ draw[d].users # Nothing THEN draw[d]
       ELSE [draw[d] EXCEPT !.users = 0, !.state = "failed"]]
  /\ UNCHANGED <<leaving, view, page, token, main, timer, polling, change, server, cache,
                 ghosts>>

Arrived(d) ==
  /\ draw[d] # Nothing
  /\ draw[d].state = "refused" \/ (draw[d].state = Ready /\ draw[d].users # Nothing)
Done(d) == draw' = [draw EXCEPT ![d] = Nothing]

\* Faulty: whatever arrives is painted.
MountAnyway(d) ==
  main' = [page |-> draw[d].page, live |-> draw[d].live]

\* mount: only a draw that holds the current token reaches the screen.
mount(d) ==
  main' = IF draw[d].born = token
            THEN [page |-> draw[d].page, live |-> draw[d].live]
            ELSE main

\* autoRefresh, called behind the first draw of a page whether or not the reader is still
\* on it.
autoRefresh(d) ==
  /\ timer' = [page |-> draw[d].page, born |-> draw[d].born]
  /\ rearmed' = (rearmed \/ draw[d].born # token)

\* The upload page decides after every draw that reached the screen.
Watch(d) ==
  \/ /\ draw[d].live /\ ~polling
     /\ autoRefresh(d) /\ polling' = TRUE
  \/ /\ ~draw[d].live /\ polling
     /\ timer' = Nothing /\ polling' = FALSE /\ UNCHANGED rearmed
  \/ /\ draw[d].live = polling
     /\ UNCHANGED <<timer, polling, rearmed>>

Arrive(d) ==
  /\ Arrived(d) /\ draw[d].state = Ready
  /\ mount(d) /\ Done(d)
  /\ \/ /\ routes[draw[d].page].polls = "always" /\ draw[d].kind \in {"open", "tab"}
        /\ autoRefresh(d) /\ UNCHANGED polling
     \/ /\ routes[draw[d].page].polls = "unfinished" /\ draw[d].born = token
        /\ Watch(d)
     \/ /\ ~(routes[draw[d].page].polls = "always" /\ draw[d].kind \in {"open", "tab"})
        /\ ~(routes[draw[d].page].polls = "unfinished" /\ draw[d].born = token)
        /\ UNCHANGED <<timer, polling, rearmed>>
  /\ UNCHANGED <<leaving, view, page, token, change, server, userList, told, raced, late>>

-----------------------------------------------------------------------------
(* Signing in and out *)

\* showLogin
ShowLogin ==
  /\ token < MaxTokens
  /\ view' = "login" /\ token' = token + 1 /\ timer' = Nothing /\ polling' = FALSE

\* navigate's catch, and pollFailed: an expired session, or one that had expired when the
\* request was refused.
Refused(d) ==
  /\ Arrived(d) /\ draw[d].state = "refused" /\ draw[d].kind \in {"open", "tick"}
  /\ ShowLogin /\ Done(d)
  /\ late' = (late \/ session)
  /\ UNCHANGED <<leaving, page, main, change, server, userList, told, raced, rearmed>>

\* A request that fails or times out.  navigate's catch shows the error page, if the reader
\* is still there.
Failed(d) ==
  /\ draw[d] # Nothing /\ draw[d].state \in {"asked", "failed"} /\ draw[d].kind = "open"
  /\ main' = IF draw[d].born = token THEN Loading ELSE main
  /\ Done(d)
  /\ UNCHANGED <<leaving, view, page, token, timer, polling, change, server, userList,
                 ghosts>>

\* Any other redraw that fails leaves what is on screen.
Ignored(d) ==
  /\ draw[d] # Nothing
  /\ \/ draw[d].state \in {"asked", "failed"} /\ draw[d].kind # "open"
     \/ draw[d].state = "refused" /\ draw[d].kind \in {"tab", "again"}
  /\ Done(d)
  /\ UNCHANGED <<leaving, view, page, token, main, timer, polling, change, server,
                 userList, ghosts>>

\* Faulty: the timer of the page before keeps running.
OpenKeepingTimer(p, had) ==
  /\ token < MaxTokens
  /\ page' = p /\ token' = token + 1 /\ polling' = FALSE /\ UNCHANGED timer
  /\ main' = Loading
  /\ StartDraw(p, token + 1, "open", had)

\* navigate
Open(p, had) ==
  /\ token < MaxTokens
  /\ page' = p /\ token' = token + 1 /\ timer' = Nothing /\ polling' = FALSE
  /\ main' = Loading
  /\ StartDraw(p, token + 1, "open", had)

Login ==
  /\ view = "login"
  /\ view' = "app" /\ session' = TRUE
  /\ Open(page, cache)
  /\ late' = FALSE
  /\ UNCHANGED <<leaving, change, running, changes, told, raced, rearmed>>

\* The button.  Nothing changes on screen before the answer.
Logout ==
  /\ view = "app" /\ ~leaving /\ leaving' = TRUE
  /\ UNCHANGED <<view, page, token, main, timer, polling, draw, change, server, userList,
                 ghosts>>

\* The request for it fails or is never answered, is refused, or has ended the session: the
\* button does the same each time.
LoggedOut ==
  /\ leaving /\ leaving' = FALSE
  /\ ShowLogin
  /\ cache' = Nothing
  /\ late' = (late \/ session)
  /\ UNCHANGED <<page, main, draw, fetch, change, server, told, raced, rearmed>>

\* The session runs out, or the server ends it for whoever asked to be signed out.
Expire ==
  /\ session /\ session' = FALSE
  /\ UNCHANGED <<leaving, view, page, token, main, timer, polling, draw, change, running,
                 changes, userList, ghosts>>

-----------------------------------------------------------------------------
(* The reader *)

\* The address changes, over the sign-in form too; or the reader tries again after an error.
Navigate(p) ==
  /\ Open(p, cache)
  /\ UNCHANGED <<leaving, view, change, server, ghosts>>

\* The timer, or a tab coming back to the foreground.
Tick ==
  /\ timer # Nothing
  /\ LET born == IF routes[timer.page].token = "drawn" THEN token ELSE timer.born
     IN  StartDraw(timer.page, born, "tick", cache)
  /\ UNCHANGED <<leaving, view, page, token, main, timer, polling, change, server,
                 ghosts>>

\* A filter redraws its own page.
Filter ==
  /\ view = "app" /\ main.page = page /\ page \in Filtered
  /\ StartDraw(page, token, "again", cache)
  /\ UNCHANGED <<leaving, view, page, token, main, timer, polling, change, server, ghosts>>

\* logTabs: the other tab opens the page again under the same token.
logTabs ==
  /\ view = "app" /\ main.page = page /\ page = "logs"
  /\ StartDraw(page, token, "tab", cache)
  /\ UNCHANGED <<leaving, view, page, token, main, timer, polling, change, server, ghosts>>

\* Retry or cancel in a row of a list, and the redraw behind it; both requests are one here.
cancelUpload ==
  /\ view = "app" /\ session /\ main.page = page /\ page \in Filtered \ {"logs"}
  /\ StartDraw(page, token, "again", cache)
  /\ UNCHANGED <<leaving, view, page, token, main, timer, polling, change, server,
                 ghosts>>

\* The same on the upload's own page.
ActOnUpload ==
  /\ view = "app" /\ session /\ main.page = page /\ page = "upload"
  /\ running' = ~running
  /\ StartDraw(page, token, "again", cache)
  /\ UNCHANGED <<leaving, view, page, token, main, timer, polling, change, session,
                 changes, ghosts>>

UploadEnds ==
  /\ running /\ running' = FALSE
  /\ UNCHANGED <<leaving, view, page, token, main, timer, polling, draw, change, session,
                 changes, userList, ghosts>>

\* A form or a confirmation is sent: it will navigate, or redraw the page that offered it.
Send(kind) ==
  /\ view = "app" /\ main.page = page /\ page \in {"users", "user"}
  /\ change = Nothing /\ changes < MaxChanges
  /\ change' = [page |-> page, born |-> token, kind |-> kind,
                made |-> FALSE, closed |-> FALSE, heard |-> FALSE]
  /\ UNCHANGED <<leaving, view, page, token, main, timer, polling, draw, server, userList,
                 ghosts>>

MakeChange ==
  /\ change # Nothing /\ ~change.made /\ session
  /\ changes' = changes + 1
  /\ change' = [change EXCEPT !.made = TRUE]
  /\ UNCHANGED <<leaving, view, page, token, main, timer, polling, draw, session, running,
                 userList, ghosts>>

\* openModal: Escape while the form is being saved resolves it with null.
Escape ==
  /\ change # Nothing /\ change.kind = "edit" /\ ~change.closed
  /\ change' = [change EXCEPT !.closed = TRUE]
  /\ UNCHANGED <<leaving, view, page, token, main, timer, polling, draw, server, userList,
                 ghosts>>

Heard == change # Nothing /\ change.made /\ ~change.closed /\ ~change.heard
\* The list on its way may not have the change.
Hear == /\ told' = changes
        /\ raced' = (fetch # Nothing)
        /\ UNCHANGED <<rearmed, late>>

\* Faulty: the cache is left alone.
SavedQuietly ==
  /\ Heard /\ change.kind = "edit"
  /\ Open(page, cache) /\ Hear /\ change' = Nothing
  /\ UNCHANGED <<leaving, view, server>>

\* forgetUsers, and navigate() to whatever the address is by now.
Saved ==
  /\ Heard /\ change.kind = "edit"
  /\ Open(page, Nothing) /\ Hear /\ change' = Nothing
  /\ UNCHANGED <<leaving, view, server>>

\* forgetUsers, and the dialog that shows the token.
Issued ==
  /\ Heard /\ change.kind = "token"
  /\ Hear /\ cache' = Nothing /\ change' = [change EXCEPT !.heard = TRUE]
  /\ UNCHANGED <<leaving, view, page, token, main, timer, polling, draw, fetch, server>>

\* Once it is closed, the redraw the page handed to the action.
Redrawn ==
  /\ change # Nothing /\ change.heard
  /\ StartDraw(change.page, change.born, "again", cache) /\ change' = Nothing
  /\ UNCHANGED <<leaving, view, page, token, main, timer, polling, server, ghosts>>

\* The form was closed meanwhile, or the change was refused or failed.
Unheard ==
  /\ change # Nothing /\ (change.closed \/ ~change.made)
  /\ change' = Nothing
  /\ UNCHANGED <<leaving, view, page, token, main, timer, polling, draw, server, userList,
                 ghosts>>

-----------------------------------------------------------------------------

DashboardNext ==
  \/ \E d \in Draws : Answer(d) \/ Arrive(d) \/ Refused(d) \/ Failed(d) \/ Ignored(d)
  \/ AnswerUsers \/ UsersArrive \/ UsersFail
  \/ Login \/ Logout \/ LoggedOut \/ Expire \/ Tick
  \/ \E p \in Visited : Navigate(p)
  \/ Filter \/ logTabs \/ cancelUpload \/ ActOnUpload \/ UploadEnds
  \/ \E kind \in {"edit", "token"} : Send(kind)
  \/ MakeChange \/ Escape \/ Saved \/ Issued \/ Redrawn \/ Unheard

DashboardSpec == DashboardInit /\ [][DashboardNext]_dashboardVars

-----------------------------------------------------------------------------
(* Properties *)

\* "Which page's data is allowed to reach the screen": the page the address names, never one
\* the reader has left.
OwnScreen == view = "app" /\ main.page # Nothing => main.page = page

\* It holds as long as no page that had been left has started the timer.  Only the log
\* page's draws, which take their token when they start, can paint from such a timer.
OwnScreenUnlessRearmed == OwnScreen \/ (rearmed /\ main.page = "logs")

\* The timer repeats the page on screen and runs exactly while that page has something to
\* watch; none outlives the session ("an expired session ends the loop").  The exceptions are
\* a page whose first answer came after it had been left, and a reader who was shown the form
\* while signed in: by a request to be signed out, or to know who they are, that did not reach
\* the server, or by the late refusal of a page asked for before signing in.  The page an open
\* form or the address then leads to is polled behind the form.
TimerServesPage ==
  ~rearmed =>
    /\ timer # Nothing => timer.page = page /\ (view = "app" \/ late)
    /\ view = "app" /\ main.page = page =>
         ((timer # Nothing) <=> (routes[page].polls = "always" \/ main.live))

\* "The list changes when an administrator changes it, which is exactly when the cache is
\* dropped": no cached list lacks a change the reader was told of, unless a list was on its
\* way when the last one was dropped.
CacheHasTheChange == cache # Nothing => cache >= told \/ raced

=============================================================================
