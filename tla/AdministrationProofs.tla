------------------------ MODULE AdministrationProofs ------------------------
(***************************************************************************)
(* What an administrator relies on: what Accounts guarantees for any       *)
(* number of users, accounts, media types, requests, failures and changes  *)
(* made inside Jellyfin, whatever the accounts were allowed before, and    *)
(* what Dashboard guarantees of the pages on screen, for any number of     *)
(* draws, navigations and changes.                                         *)
(***************************************************************************)
EXTENDS Accounts, Dashboard, TLAPS

-----------------------------------------------------------------------------
(* The inductive invariant *)

\* Jellyfin's ids and the names under which libraries are known: the list it answers with, the
\* lists requests have read, the library in a request's hands, the rows.
InRow(u, i) == \E t \in Types : rows[u][t] # None /\ rows[u][t].item = i
Bears(i, n) ==
  \/ \E f \in folders : f.item = i /\ f.name = n
  \/ \E r \in Requests : \E f \in request[r].snap : f.item = i /\ f.name = n
  \/ \E r \in Requests : request[r].own # None /\ request[r].own.item = i /\ request[r].own.name = n
  \/ \E u \in Users, t \in Types :
        rows[u][t] # None /\ rows[u][t].item = i /\ rows[u][t].name = n

\* An id has one name, a name one row.
ItemsHaveOneName ==
  \A i \in Items, n, m \in LibraryNames : Bears(i, n) /\ Bears(i, m) => n = m
NamesHaveOneRow ==
  \A u, v \in Users, s, t \in Types :
    rows[u][s] # None /\ rows[v][t] # None /\ rows[u][s].name = rows[v][t].name => u = v /\ s = t

\* A library that was created and is not recorded yet is in nobody's view.
Marked(i) ==
  \/ \E a \in Accounts : i \in policy[a].enabled
  \/ \E u \in Users : InRow(u, i)
  \/ \E r \in Requests : i \in request[r].owned \/ i \in request[r].current
Finds(r, i) ==
  \/ At(r, "found") /\ \E f \in folders : f.name = WantedName(request[r]) /\ f.item = i
  \/ At(r, "upsert") /\ request[r].own.item = i
CreatedIsUnseen ==
  \A r \in Requests : request[r].created => \A i \in Items : Finds(r, i) => ~Marked(i)

\* Whatever an undisturbed request will let through belongs to no other user.
Harmless(q, S) == \A i \in S, v \in Users \ {q.u} : InRow(v, i) => i \in q.others
CalmIsHarmless ==
  \A r \in Requests : LET q == request[r] IN
    /\ At(r, "current") /\ q.calm => Harmless(q, policy[q.row.username].enabled)
    /\ (At(r, "lock") \/ At(r, "post")) /\ q.calm => Harmless(q, q.current)

Private(u) ==
  LET p == policy[users[u].link] IN
  /\ ~p.admin /\ ~p.all
  /\ \A i \in p.enabled, v \in Users \ {u} : ~InRow(v, i)
  /\ \A i \in Items : InRow(u, i) => i \in p.enabled
SettledArePrivate == \A u \in settled : There(u) /\ Private(u)

\* The family's library is nobody's, and no request takes it for a user's.
Shared(f) == f.item = Family => f.name = LibraryName(None, None) /\ f.dir = SharedDir
FamilyIsNobodys ==
  /\ \A f \in folders : Shared(f)
  /\ \A u \in Users : ~InRow(u, Family)
  /\ \A r \in Requests :
      /\ \A f \in request[r].snap : Shared(f)
      /\ request[r].own # None => request[r].own.item # Family
      /\ Family \notin request[r].others /\ Family \notin request[r].owned

\* Whoever is about to write what an account sees knows whether that is part of it.
FamilyIsKept ==
  \A a \in Accounts \ blind :
    /\ Family \in policy[a].enabled <=> a \in shared
    /\ \A r \in Requests :
        LockingDown(r, a) => (Family \in request[r].current <=> a \in shared)

\* Every library on a user's directory is in their rows, or in the hands of a request that will
\* record it, and on the list of every deletion; nobody provisions a user who is going or gone.
Recorded(u, n) == \E t \in Types : rows[u][t] # None /\ rows[u][t].name = n
Remembered(u, n) == Recorded(u, n) \/ \E r \in Requests : request[r].u = u /\ Seeks(r, n)
Deletes(r, u) == At(r, "remove") /\ request[r].u = u
NothingForgotten ==
  \A u \in Users \ spoiled :
    /\ \A f \in folders : f.dir[1] = u =>
        /\ Remembered(u, f.name)
        /\ \A r \in Requests : Deletes(r, u) => f.name \in request[r].names
    /\ ~There(u) \/ (\E r \in Requests : Deletes(r, u)) => ~Overlap(u)
Departures ==
  /\ \A u \in Users : ~There(u) => \A t \in Types : rows[u][t] = None
  /\ \A u \in gone : ~There(u)
  /\ \A r \in Requests, u \in Users : Deletes(r, u) => There(u) \/ u \in gone

IInv ==
  /\ TypeOK
  /\ ItemsHaveOneName /\ NamesHaveOneRow
  /\ CreatedIsUnseen /\ CalmIsHarmless /\ SettledArePrivate
  /\ FamilyIsNobodys /\ FamilyIsKept
  /\ NothingForgotten /\ Departures

-----------------------------------------------------------------------------
(* Types *)

LEMMA WantedFacts ==
  /\ Len(Wanted) \in Nat \ {0}
  /\ \A w \in 1 .. Len(Wanted) : Wanted[w] \in Types
<1>1. Len(Wanted) \in Nat /\ DOMAIN Wanted = 1 .. Len(Wanted) /\ Len(Wanted) # 0
    BY WantedType
<1> QED
    BY <1>1 DEF Types, ToSet

\* The names and directories a request asks for are a user's, never the shared one.
LEMMA Asked ==
  ASSUME NEW q, q.u \in Users, q.row \in UserRow, q.w \in 1 .. Len(Wanted)
  PROVE  /\ Wanted[q.w] \in Types
         /\ WantedName(q) \in LibraryNames /\ WantedName(q) # LibraryName(None, None)
         /\ WantedName(q) # <<None, q.u>>
         /\ WantedDir(q) \in Dirs /\ WantedDir(q)[1] = q.u /\ WantedDir(q) # SharedDir
<1>1. Wanted[q.w] \in Types /\ q.row.name \in Names
    BY WantedFacts DEF UserRow
<1>2. None \notin Users /\ None \notin Names
    BY NoneIsNothing
<1> QED
    BY <1>1, <1>2 DEF WantedName, LibraryName, WantedDir, Dir, Dirs, SharedDir, LibraryNames

LEMMA IdleType == RequestOK(Idle) /\ Idle \in RequestType
  BY WantedFacts DEF Idle, RequestOK, RequestType, Steps

LEMMA StartType ==
  ASSUME NEW job \in JobType, NEW rest \in SUBSET JobType
  PROVE  RequestOK(StartOf(job, rest))
<1> DEFINE q == StartOf(job, rest)
<1>1. q = [Idle EXCEPT !.pc = "resolve", !.u = job.u, !.row = job.row, !.todo = rest]
    BY DEF StartOf
<1>2. Idle \in RequestType /\ job.u \in Users /\ job.row \in UserRow
    BY IdleType DEF JobType
<1>3. q \in RequestType
    BY <1>1, <1>2 DEF RequestType, Steps
<1>4. q.pc = "resolve" /\ q.u = job.u /\ q.row = job.row
    BY <1>1, <1>2 DEF RequestType
<1> QED
    BY <1>2, <1>3, <1>4 DEF RequestOK

\* A request that is over is idle, or starts with the next user on its list, with nothing read.
Blank(q) ==
  /\ q.pc \in {"idle", "resolve"} /\ q.snap = {} /\ q.own = None /\ ~q.created
  /\ q.owned = {} /\ q.others = {} /\ q.current = {}
LEMMA EndedType ==
  ASSUME NEW r \in Requests, RequestOK(request[r]), NEW next \in Ended(r)
  PROVE  /\ RequestOK(next) /\ Blank(next)
         /\ \/ next.pc = "idle"
            \/ /\ \E job \in request[r].todo : job.u = next.u
               /\ next.todo \subseteq request[r].todo
<1>1. CASE next = Idle
    BY <1>1, IdleType DEF Idle, Blank
<1>2. CASE \E job \in request[r].todo : next = StartOf(job, request[r].todo \ {job})
  <2>1. PICK job \in request[r].todo : next = StartOf(job, request[r].todo \ {job})
      BY <1>2
  <2>2. job \in JobType /\ request[r].todo \ {job} \in SUBSET JobType
      BY DEF RequestOK, RequestType
  <2>3. /\ next.u = job.u /\ next.todo = request[r].todo \ {job}
        /\ Blank(next)
      BY <2>1 DEF StartOf, Idle, Blank
  <2> QED
      BY <2>1, <2>2, <2>3, StartType
<1> QED
    BY <1>1, <1>2 DEF Ended

LEMMA Owned == \A u \in Users : \A i : i \in ItemsOf(u) <=> InRow(u, i)
  BY DEF ItemsOf, InRow

LEMMA InHand ==
  ASSUME NEW r \in Requests, NEW i
  PROVE  i \in ItemsInHand(r) <=>
            \/ \E f \in request[r].snap : f.item = i
            \/ i \in request[r].owned \/ i \in request[r].current
            \/ request[r].own # None /\ request[r].own.item = i
  BY DEF ItemsInHand

LEMMA Used ==
  ASSUME NEW i
  PROVE  i \in UsedItems <=>
            \/ \E f \in folders : f.item = i
            \/ \E a \in Accounts : i \in policy[a].enabled
            \/ \E u \in Users : InRow(u, i)
            \/ \E r \in Requests : i \in ItemsInHand(r)
<1>1. i \in UNION {ItemsOf(u) : u \in Users} <=> \E u \in Users : InRow(u, i)
    BY Owned
<1>2. i \in UNION {ItemsInHand(r) : r \in Requests} <=> \E r \in Requests : i \in ItemsInHand(r)
    OBVIOUS
<1>3. i \in UNION {policy[a].enabled : a \in Accounts}
        <=> \E a \in Accounts : i \in policy[a].enabled
    OBVIOUS
<1>4. i \in {f.item : f \in folders} <=> \E f \in folders : f.item = i
    OBVIOUS
<1> QED
    BY <1>1, <1>2, <1>3, <1>4 DEF UsedItems

LEMMA UsedType == ASSUME TypeOK PROVE UsedItems \subseteq Items
<1>1. \A u \in Users : \A i : InRow(u, i) => i \in Items
    BY DEF TypeOK, LibraryRow, InRow
<1>2. \A r \in Requests :
        /\ \A f \in request[r].snap : f.item \in Items
        /\ request[r].owned \subseteq Items /\ request[r].current \subseteq Items
        /\ request[r].own # None => request[r].own.item \in Items
    BY DEF TypeOK, RequestOK, RequestType, Folder
<1>3. \A r \in Requests : \A i : i \in ItemsInHand(r) => i \in Items
    BY <1>2, InHand
<1>4. \A a \in Accounts : policy[a].enabled \subseteq Items
    BY DEF TypeOK, PolicyType
<1>5. \A f \in folders : f.item \in Items
    BY DEF TypeOK, Folder
<1> QED
    BY <1>1, <1>3, <1>4, <1>5, Used

\* A new library's id is one that nothing refers to.
LEMMA FreshItem ==
  ASSUME TypeOK, Fresh # {}
  PROVE  LET i == CHOOSE x \in Fresh : TRUE IN
         /\ i \in Items /\ i # Family
         /\ \A n : ~Bears(i, n)
         /\ ~Marked(i)
<1> DEFINE i == CHOOSE x \in Fresh : TRUE
<1>1. i \in Items /\ i # Family /\ i \notin UsedItems
    BY DEF Fresh
<1> HIDE DEF i
<1>2. /\ \A f \in folders : f.item # i
      /\ \A a \in Accounts : i \notin policy[a].enabled
      /\ \A u \in Users : ~InRow(u, i)
      /\ \A r \in Requests : i \notin ItemsInHand(r)
    BY <1>1, Used
<1>3. \A r \in Requests :
        /\ \A f \in request[r].snap : f.item # i
        /\ i \notin request[r].owned /\ i \notin request[r].current
        /\ request[r].own # None => request[r].own.item # i
    BY <1>2, InHand
<1>4. \A n : ~Bears(i, n)
    BY <1>2, <1>3 DEF Bears, InRow
<1>5. ~Marked(i)
    BY <1>2, <1>3 DEF Marked
<1> QED
    BY <1>1, <1>4, <1>5 DEF i

\* The steps, each with what its parameters are: those of a request and the others.
StepOf(r) ==
  \/ \E u \in Users :
      \/ \E n \in Names, a \in Accounts : Create(r, u, n, a)
      \/ Provision(r, u) \/ StartDelete(r, u)
  \/ Enforce(r) \/ Resolve(r) \/ ListFolders(r) \/ FindLibrary(r)
  \/ \E b \in BOOLEAN : CreateLibrary(r, b) \/ ReadCurrent(r, b)
  \/ ReadCreated(r) \/ Upsert(r) \/ UpsertRefused(r) \/ NextLibrary(r) \/ ReadOthers(r)
  \/ ReadPolicy(r) \/ SetUserLibraryAccess(r) \/ Throws(r) \/ Delete(r)
  \/ \E n \in request[r].names, b \in BOOLEAN : RemoveLibrary(r, n, b)
StepOutside ==
  \/ \E u \in Users, n \in Names, a \in Accounts : Patch(u, n, a)
  \/ \E n \in LibraryNames, d \in Dirs : n # LibraryName(None, None) /\ AddFolder(n, d)
  \/ \E f \in folders : RemoveFolder(f)
  \/ \E a \in Accounts, p \in PolicyType : SetPolicy(a, p)
Step == StepOutside \/ \E r \in Requests : StepOf(r)

LEMMA NextIsStep == TypeOK /\ [Next]_vars => Step \/ UNCHANGED vars
<1> SUFFICES ASSUME TypeOK, InJellyfin PROVE Step
    BY DEF Next, Step, StepOf, StepOutside
<1>1. ASSUME NEW x \in Names, NEW t \in Types, NEW d \in Dirs, AddFolder(LibraryName(x, t), d)
      PROVE  Step
  <2>1. LibraryName(x, t) \in LibraryNames /\ LibraryName(x, t) # LibraryName(None, None)
      BY NoneIsNothing DEF LibraryNames, LibraryName
  <2> QED
      BY <1>1, <2>1 DEF Step, StepOutside
<1>2. CASE \E f \in folders : RemoveFolder(f)
    BY <1>2 DEF Step, StepOutside
<1>3. ASSUME NEW a \in Accounts, NEW p \in Changed(a), SetPolicy(a, p) PROVE Step
  <2>1. policy[a] \in PolicyType /\ UsedItems \subseteq Items
      BY UsedType DEF TypeOK
  <2>2. p \in PolicyType
    <3>1. CASE p = [policy[a] EXCEPT !.admin = TRUE]
        BY <2>1, <3>1 DEF PolicyType
    <3>2. CASE p = [policy[a] EXCEPT !.all = TRUE]
        BY <2>1, <3>2 DEF PolicyType
    <3>3. ASSUME NEW i \in UsedItems, p = [policy[a] EXCEPT !.enabled = policy[a].enabled \cup {i}]
          PROVE  p \in PolicyType
        BY <2>1, <3>3 DEF PolicyType
    <3>4. CASE p = [policy[a] EXCEPT !.enabled = policy[a].enabled \ {Family}]
        BY <2>1, <3>4 DEF PolicyType
    <3> QED
        BY <3>1, <3>2, <3>3, <3>4 DEF Changed
  <2> QED
      BY <1>3, <2>2 DEF Step, StepOutside
<1> QED
    BY <1>1, <1>2, <1>3 DEF InJellyfin

RequestsOK == request \in [Requests -> RequestType] /\ \A r \in Requests : RequestOK(request[r])
TablesOK ==
  /\ users \in [Users -> UserRow \cup {None}]
  /\ rows \in [Users -> [Types -> LibraryRow \cup {None}]]
  /\ folders \subseteq Folder
  /\ policy \in [Accounts -> PolicyType]
HistoryOK ==
  /\ settled \subseteq Users /\ gone \subseteq Users /\ spoiled \subseteq Users
  /\ shared \subseteq Accounts /\ blind \subseteq Accounts
  /\ done \in 0 .. MaxRequests /\ side \in 0 .. MaxSide /\ faults \in 0 .. MaxFaults

\* How a step changes what one request, and no other, is doing.
Becomes(r, q) == request' = [request EXCEPT ![r] = q]
LEMMA OneRequest ==
  ASSUME RequestsOK, NEW r \in Requests, NEW q, RequestOK(q), Becomes(r, q)
  PROVE  RequestsOK'
<1>1. q \in RequestType
    BY DEF RequestOK
<1> QED
    BY <1>1 DEF RequestsOK, Becomes

\* A record keeps its other fields when these two are set.
Calmed(q, c, d) == [q EXCEPT !.calm = c, !.created = d]
LEMMA CalmedFacts ==
  ASSUME NEW q \in RequestType, NEW c \in BOOLEAN, NEW d \in BOOLEAN
  PROVE  /\ Calmed(q, c, d) \in RequestType
         /\ Calmed(q, c, d).calm = c /\ Calmed(q, c, d).created = d
         /\ Calmed(q, c, d).pc = q.pc /\ Calmed(q, c, d).u = q.u /\ Calmed(q, c, d).row = q.row
         /\ Calmed(q, c, d).todo = q.todo /\ Calmed(q, c, d).names = q.names
         /\ Calmed(q, c, d).snap = q.snap /\ Calmed(q, c, d).w = q.w /\ Calmed(q, c, d).own = q.own
         /\ Calmed(q, c, d).owned = q.owned /\ Calmed(q, c, d).others = q.others
         /\ Calmed(q, c, d).current = q.current
  BY DEF Calmed, RequestType

\* A request that wrote its row has nothing in hand; one that read the policy carries its flag on.
Took(r) == [request[r] EXCEPT !.pc = "next", !.owned = @ \cup {request[r].own.item},
                              !.own = None, !.created = FALSE]
LEMMA TookFacts ==
  ASSUME NEW r, request[r] \in RequestType
  PROVE  /\ Took(r).pc = "next" /\ Took(r).own = None /\ Took(r).created = FALSE
         /\ Took(r).owned = request[r].owned \cup {request[r].own.item}
         /\ Took(r).u = request[r].u /\ Took(r).row = request[r].row /\ Took(r).w = request[r].w
         /\ Took(r).todo = request[r].todo /\ Took(r).names = request[r].names
         /\ Took(r).snap = request[r].snap /\ Took(r).others = request[r].others
         /\ Took(r).current = request[r].current
         /\ request[r].own \in Folder => Took(r) \in RequestType
<1>1. request[r].own \in Folder => request[r].own.item \in Items
    BY DEF Folder
<1> QED
    BY <1>1 DEF Took, RequestType, Steps
LEMMA ReadPolicyEffect ==
  ASSUME TablesOK, RequestsOK, NEW r \in Requests, ReadPolicy(r)
  PROVE  /\ \A x \in Requests \ {r} : request'[x] = request[x]
         /\ RequestOK(request'[r]) /\ Becomes(r, request'[r])
         /\ request[r].pc = "lock" /\ request'[r].pc = "post"
         /\ request'[r].u = request[r].u /\ request'[r].row = request[r].row
         /\ request'[r].todo = request[r].todo /\ request'[r].names = request[r].names
         /\ request'[r].snap = request[r].snap /\ request'[r].own = request[r].own
         /\ request'[r].owned = request[r].owned /\ request'[r].others = request[r].others
         /\ request'[r].current = request[r].current /\ request'[r].calm = request[r].calm
         /\ request'[r].created = request[r].created
<1> DEFINE v == policy[request[r].row.username].admin
           q == [request[r] EXCEPT !.pc = "post", !.admin = v]
<1>1. request' = [request EXCEPT ![r] = q]
    BY DEF ReadPolicy, RequestsOK
<1>2. /\ request[r] \in RequestType /\ request[r].pc = "lock" /\ request[r].u \in Users
      /\ request[r].row \in UserRow
    BY DEF ReadPolicy, At, RequestsOK, RequestOK, Steps
<1>3. v \in BOOLEAN
    BY <1>2 DEF UserRow, TablesOK, PolicyType
<1> HIDE DEF v
<1>4. /\ q \in RequestType /\ q.pc = "post" /\ q.u = request[r].u /\ q.row = request[r].row
      /\ q.todo = request[r].todo /\ q.names = request[r].names
      /\ q.snap = request[r].snap /\ q.own = request[r].own
      /\ q.owned = request[r].owned /\ q.others = request[r].others
      /\ q.current = request[r].current /\ q.calm = request[r].calm
      /\ q.created = request[r].created
    BY <1>2, <1>3 DEF RequestType, Steps
<1> HIDE DEF q
<1>5. RequestOK(q)
    BY <1>2, <1>4 DEF RequestOK
<1>6. request'[r] = q /\ \A x \in Requests \ {r} : request'[x] = request[x]
    BY <1>1 DEF RequestsOK
<1> QED
    BY <1>1, <1>2, <1>4, <1>5, <1>6 DEF Becomes

\* The library in hand becomes the row; the others are told if that changes it.
Kept(r) == rows[request[r].u][Wanted[request[r].w]]
Offered(r) == [name |-> request[r].own.name, item |-> request[r].own.item]
LEMMA UpsertEffect ==
  ASSUME RequestsOK, NEW r \in Requests, Upsert(r), NEW x \in Requests
  PROVE  /\ x = r => request'[x] = Took(x)
         /\ x # r /\ Kept(r) = Offered(r) => request'[x] = request[x]
         /\ x # r /\ Kept(r) # Offered(r) /\ ~request[r].created =>
              request'[x] = Calmed(request[x], FALSE, FALSE)
         /\ x # r /\ Kept(r) # Offered(r) /\ request[r].created =>
              request'[x] = Calmed(request[x], request[x].calm /\ request[x].u # request[r].u,
                                   request[x].created /\ ~Seeks(x, Offered(r).name))
  BY DEF Upsert, Kept, Offered, Calmed, Took
LEMMA NextRequests == TablesOK /\ RequestsOK /\ Step => RequestsOK'
<1> SUFFICES ASSUME TablesOK, RequestsOK, Step PROVE RequestsOK'
    OBVIOUS
<1>1. ASSUME NEW r \in Requests, NEW u \in Users, NEW n \in Names, NEW a \in Accounts, Create(r,
             u, n, a)
      PROVE  RequestsOK'
  <2>1. /\ [u |-> u, row |-> [name |-> n, username |-> a, link |-> a]] \in JobType
        /\ {} \in SUBSET JobType
      BY <1>1, NoneIsNothing DEF Create, JobType, There, Job, UserRow, TablesOK
  <2>2. Becomes(r, StartOf([u |-> u, row |-> [name |-> n, username |-> a, link |-> a]], {}))
      BY <1>1 DEF Create, Becomes
  <2> QED
      BY <2>1, <2>2, StartType, OneRequest
<1>2. ASSUME NEW r \in Requests, NEW u \in Users, Provision(r, u) PROVE RequestsOK'
  <2>1. Job(u) \in JobType /\ {} \in SUBSET JobType
      BY <1>2, NoneIsNothing DEF Provision, JobType, There, Job, UserRow, TablesOK
  <2>2. Becomes(r, StartOf(Job(u), {}))
      BY <1>2 DEF Provision, Becomes
  <2> QED
      BY <2>1, <2>2, StartType, OneRequest
<1>3. ASSUME NEW r \in Requests, NEW u \in Users, StartDelete(r, u) PROVE RequestsOK'
  <2> DEFINE q == [Idle EXCEPT !.pc = "remove", !.u = u, !.names = RecordedNames(u)]
  <2>1. RecordedNames(u) \subseteq LibraryNames
      BY DEF RecordedNames, TablesOK, LibraryRow
  <2>2. q \in RequestType /\ q.pc = "remove" /\ q.u = u
      BY <2>1, IdleType DEF RequestType, Steps
  <2>3. RequestOK(q)
      BY <2>2 DEF RequestOK, Steps
  <2> QED
      BY <1>3, <2>3, OneRequest DEF StartDelete, Becomes
<1>4. ASSUME NEW u \in Users, NEW n \in Names, NEW a \in Accounts, Patch(u, n, a) PROVE RequestsOK'
    BY <1>4 DEF Patch, RequestsOK
<1>5. ASSUME NEW r \in Requests, Enforce(r) PROVE RequestsOK'
  <2>1. PICK first \in Users :
          /\ There(first)
          /\ request' = [request EXCEPT ![r] =
                StartOf(Job(first), {Job(v) : v \in {w \in Users \ {first} : There(w)}})]
      BY <1>5 DEF Enforce
  <2>2. \A v \in Users : There(v) => Job(v) \in JobType
      BY NoneIsNothing DEF JobType, There, Job, TablesOK
  <2> DEFINE rest == {Job(v) : v \in {w \in Users \ {first} : There(w)}}
  <2>3. Job(first) \in JobType /\ rest \in SUBSET JobType
      BY <2>1, <2>2
  <2> QED
      BY <2>1, <2>3, StartType, OneRequest DEF Becomes
<1>6. ASSUME NEW r \in Requests, Resolve(r) PROVE RequestsOK'
  <2> DEFINE v == policy[request[r].row.username].admin
             q == [request[r] EXCEPT !.pc = "list", !.admin = v]
  <2>1. Becomes(r, q)
      BY <1>6 DEF Resolve, Becomes, RequestsOK
  <2>2. /\ request[r] \in RequestType /\ request[r].pc = "resolve" /\ request[r].u \in Users
        /\ request[r].row \in UserRow
      BY <1>6 DEF Resolve, At, RequestsOK, RequestOK, Steps
  <2>3. v \in BOOLEAN
      BY <2>2 DEF UserRow, TablesOK, PolicyType
  <2>4. q \in RequestType /\ q.pc = "list" /\ q.u = request[r].u /\ q.row = request[r].row
    <3> HIDE DEF v
    <3> QED
        BY <2>2, <2>3 DEF RequestType, Steps
  <2> QED
      BY <2>1, <2>2, <2>4, OneRequest DEF RequestOK
<1>7. ASSUME NEW r \in Requests, ListFolders(r) PROVE RequestsOK'
  <2> DEFINE q == [request[r] EXCEPT !.pc = "library", !.snap = folders, !.w = 1]
  <2>1. Becomes(r, q)
      BY <1>7 DEF ListFolders, Becomes, RequestsOK
  <2>2. /\ request[r] \in RequestType /\ request[r].u \in Users /\ request[r].row \in UserRow
        /\ folders \subseteq Folder /\ 1 \in 0 .. Len(Wanted)
      BY <1>7, WantedFacts DEF ListFolders, At, RequestsOK, RequestOK, Steps, TablesOK
  <2>3. q \in RequestType
      BY <2>2 DEF RequestType, Steps
  <2>4. q.pc = "library" /\ q.u = request[r].u /\ q.row = request[r].row /\ q.w > 0
      BY <2>2 DEF RequestType
  <2>5. RequestOK(q)
      BY <2>2, <2>3, <2>4 DEF RequestOK
  <2> QED
      BY <2>1, <2>5, OneRequest
<1>8. ASSUME NEW r \in Requests, FindLibrary(r) PROVE RequestsOK'
  <2>1. PICK f \in request[r].snap :
          request' = [request EXCEPT ![r].pc = "upsert", ![r].own = f, ![r].created = FALSE]
      BY <1>8 DEF FindLibrary, Named, At_
  <2> DEFINE q == [request[r] EXCEPT !.pc = "upsert", !.own = f, !.created = FALSE]
  <2>2. Becomes(r, q)
      BY <2>1 DEF Becomes, RequestsOK
  <2>3. /\ request[r] \in RequestType /\ request[r].u \in Users /\ request[r].row \in UserRow
        /\ request[r].w > 0 /\ f \in Folder
      BY <1>8 DEF FindLibrary, At, RequestsOK, RequestOK, RequestType, Steps
  <2>4. q \in RequestType
      BY <2>3 DEF RequestType, Steps
  <2>5. /\ q.pc = "upsert" /\ q.u = request[r].u /\ q.row = request[r].row
        /\ q.w = request[r].w /\ q.own = f
      BY <2>3 DEF RequestType
  <2> QED
      BY <2>2, <2>3, <2>4, <2>5, OneRequest DEF RequestOK
<1>9. ASSUME NEW r \in Requests, NEW b \in BOOLEAN, CreateLibrary(r, b) PROVE RequestsOK'
  <2> DEFINE taken == Named(folders, WantedName(request[r])) # {}
             q == [request[r] EXCEPT !.pc = "found", !.created = ~taken]
  <2>1. CASE b
    <3>1. Becomes(r, q)
        BY <1>9, <2>1 DEF CreateLibrary, Becomes, RequestsOK
    <3>2. /\ request[r] \in RequestType /\ request[r].u \in Users /\ request[r].row \in UserRow
          /\ request[r].w > 0
        BY <1>9 DEF CreateLibrary, At, RequestsOK, RequestOK, Steps
    <3>3. q \in RequestType
        BY <3>2 DEF RequestType, Steps
    <3>4. q.pc = "found" /\ q.u = request[r].u /\ q.row = request[r].row /\ q.w = request[r].w
        BY <3>2 DEF RequestType
    <3> QED
        BY <3>1, <3>2, <3>3, <3>4, OneRequest DEF RequestOK
  <2>2. CASE ~b
    <3>1. PICK next \in Ended(r) : Becomes(r, next)
        BY <1>9, <2>2 DEF CreateLibrary, Becomes
    <3> QED
        BY <3>1, EndedType, OneRequest DEF RequestsOK
  <2> QED
      BY <2>1, <2>2
<1>10. ASSUME NEW r \in Requests, ReadCreated(r) PROVE RequestsOK'
  <2>1. CASE Named(folders, WantedName(request[r])) = {}
    <3> DEFINE q == [request[r] EXCEPT !.pc = "next", !.created = FALSE]
    <3>1. Becomes(r, q)
        BY <1>10, <2>1 DEF ReadCreated, Becomes, RequestsOK
    <3>2. RequestOK(q)
        BY <1>10 DEF ReadCreated, At, RequestOK, RequestType, Steps, RequestsOK
    <3> QED
        BY <3>1, <3>2, OneRequest
  <2>2. CASE Named(folders, WantedName(request[r])) # {}
    <3>1. PICK f \in folders : request' = [request EXCEPT ![r].pc = "upsert", ![r].own = f]
        BY <1>10, <2>2 DEF ReadCreated, Named
    <3> DEFINE q == [request[r] EXCEPT !.pc = "upsert", !.own = f]
    <3>2. Becomes(r, q)
        BY <3>1 DEF Becomes, RequestsOK
    <3>3. /\ request[r] \in RequestType /\ request[r].u \in Users /\ request[r].row \in UserRow
          /\ request[r].w > 0 /\ f \in Folder
        BY <1>10 DEF ReadCreated, At, RequestsOK, RequestOK, Steps, TablesOK
    <3>4. q \in RequestType
        BY <3>3 DEF RequestType, Steps
    <3>5. /\ q.pc = "upsert" /\ q.u = request[r].u /\ q.row = request[r].row
          /\ q.w = request[r].w /\ q.own = f
        BY <3>3 DEF RequestType
    <3> QED
        BY <3>2, <3>3, <3>4, <3>5, OneRequest DEF RequestOK
  <2> QED
      BY <2>1, <2>2
<1>11. ASSUME NEW r \in Requests, Upsert(r) PROVE RequestsOK'
  <2> SUFFICES ASSUME NEW x \in Requests PROVE RequestOK(request'[x])
      BY <1>11 DEF Upsert, RequestsOK, RequestOK
  <2>1. RequestOK(request[x]) /\ request[r].own \in Folder /\ request[r].own.item \in Items
      BY <1>11 DEF Upsert, At, RequestsOK, RequestOK, Folder
  <2> DEFINE row == [name |-> request[r].own.name, item |-> request[r].own.item]
  <2>2. CASE x = r
    <3>1. request'[x] = Took(x)
        BY <1>11, <2>2, UpsertEffect
    <3>2. /\ request[x].u \in Users /\ request[x].row \in UserRow /\ request[x].w > 0
          /\ request[x] \in RequestType
        BY <1>11, <2>1, <2>2 DEF Upsert, At, RequestOK, Steps
    <3> QED
        BY <2>1, <2>2, <3>1, <3>2, TookFacts DEF RequestOK
  <2>3. CASE x # r
    <3>1. request'[x] = request[x] \/ \E c, d \in BOOLEAN : request'[x] = Calmed(request[x], c, d)
      <4>1. /\ (request[x].calm /\ request[x].u # request[r].u) \in BOOLEAN
            /\ (request[x].created /\ ~Seeks(x, Offered(r).name)) \in BOOLEAN
          BY DEF Seeks, At
      <4> QED
          BY <1>11, <2>3, <4>1, UpsertEffect
    <3> QED
        BY <2>1, <3>1, CalmedFacts DEF RequestOK
  <2> QED
      BY <2>2, <2>3
<1>12. ASSUME NEW r \in Requests, UpsertRefused(r) PROVE RequestsOK'
  <2>1. PICK next \in Ended(r) : Becomes(r, next)
      BY <1>12 DEF UpsertRefused, Becomes
  <2> QED
      BY <2>1, EndedType, OneRequest DEF RequestsOK
<1>13. ASSUME NEW r \in Requests, NextLibrary(r) PROVE RequestsOK'
  <2>1. CASE request[r].w < Len(Wanted)
    <3> DEFINE q == [request[r] EXCEPT !.pc = "library", !.w = @ + 1]
    <3>1. Becomes(r, q)
        BY <1>13, <2>1 DEF NextLibrary, Becomes, RequestsOK
    <3>2. RequestOK(q)
        BY <1>13, <2>1, WantedFacts DEF NextLibrary, At, RequestOK, RequestType, Steps, RequestsOK
    <3> QED
        BY <3>1, <3>2, OneRequest
  <2>2. CASE Becomes(r, [request[r] EXCEPT !.pc = "others", !.snap = {}])
    <3>1. RequestOK([request[r] EXCEPT !.pc = "others", !.snap = {}])
        BY <1>13 DEF NextLibrary, At, RequestOK, RequestType, Steps, RequestsOK
    <3> QED
        BY <2>2, <3>1, OneRequest
  <2>3. CASE \E next \in Ended(r) : Becomes(r, next)
      BY <2>3, EndedType, OneRequest DEF RequestsOK
  <2> QED
      BY <1>13, <2>1, <2>2, <2>3 DEF NextLibrary, Becomes, RequestsOK
<1>14. ASSUME NEW r \in Requests, ReadOthers(r) PROVE RequestsOK'
  <2> DEFINE q == [request[r] EXCEPT !.pc = "current", !.calm = TRUE,
                                     !.others = ItemsExcluding(request[r].u)]
  <2>1. Becomes(r, q)
      BY <1>14 DEF ReadOthers, Becomes, RequestsOK
  <2>2. ItemsExcluding(request[r].u) \subseteq Items
      BY Owned DEF ItemsExcluding, InRow, TablesOK, LibraryRow
  <2>3. RequestOK(q)
      BY <1>14, <2>2 DEF ReadOthers, At, RequestOK, RequestType, Steps, RequestsOK
  <2> QED
      BY <2>1, <2>3, OneRequest
<1>15. ASSUME NEW r \in Requests, NEW b \in BOOLEAN, ReadCurrent(r, b) PROVE RequestsOK'
  <2> DEFINE S == IF b THEN policy[request[r].row.username].enabled ELSE {}
             q == [request[r] EXCEPT !.pc = "lock", !.current = S]
  <2>1. Becomes(r, q)
      BY <1>15 DEF ReadCurrent, Becomes, RequestsOK
  <2>2. S \subseteq Items
      BY <1>15 DEF ReadCurrent, At, RequestOK, Steps, RequestsOK, TablesOK, PolicyType, UserRow
  <2>3. RequestOK(q)
    <3> HIDE DEF S
    <3> QED
        BY <1>15, <2>2 DEF ReadCurrent, At, RequestOK, RequestType, Steps, RequestsOK
  <2> QED
      BY <2>1, <2>3, OneRequest
<1>16. ASSUME NEW r \in Requests, SetUserLibraryAccess(r) PROVE RequestsOK'
  <2> DEFINE a == request[r].row.username
  <2>1. PICK next \in Ended(r) : request' = [x \in Requests |->
            IF x = r THEN next
            ELSE IF Provisioning(x) /\ request[x].row.username = a
                 THEN [request[x] EXCEPT !.calm = FALSE] ELSE request[x]]
      BY <1>16 DEF SetUserLibraryAccess
  <2>2. RequestOK(next)
      BY EndedType DEF RequestsOK
  <2> SUFFICES ASSUME NEW x \in Requests PROVE RequestOK(request'[x])
      BY <2>1 DEF RequestsOK, RequestOK
  <2>3. RequestOK(request[x]) /\ RequestOK([request[x] EXCEPT !.calm = FALSE])
      BY DEF RequestsOK, RequestOK, RequestType
  <2> QED
      BY <2>1, <2>2, <2>3
<1>17. ASSUME NEW r \in Requests, Throws(r) PROVE RequestsOK'
  <2>1. PICK next \in Ended(r) : Becomes(r, next)
      BY <1>17 DEF Throws, Becomes
  <2> QED
      BY <2>1, EndedType, OneRequest DEF RequestsOK
<1>18. ASSUME NEW r \in Requests, NEW n \in request[r].names, NEW b \in BOOLEAN, RemoveLibrary(r,
              n, b)
       PROVE  RequestsOK'
  <2> DEFINE q == [request[r] EXCEPT !.names = @ \ {n}]
  <2>1. Becomes(r, q)
      BY <1>18 DEF RemoveLibrary, Becomes, RequestsOK
  <2>2. RequestOK(q)
      BY <1>18 DEF RemoveLibrary, At, RequestOK, RequestType, Steps, RequestsOK
  <2> QED
      BY <2>1, <2>2, OneRequest
<1>19. ASSUME NEW r \in Requests, Delete(r) PROVE RequestsOK'
    BY <1>19, IdleType, OneRequest DEF Delete, Becomes
<1>20. ASSUME NEW n \in LibraryNames, NEW d \in Dirs, n # LibraryName(None, None), AddFolder(n, d)
       PROVE  RequestsOK'
    BY <1>20 DEF AddFolder, RequestsOK
<1>21. ASSUME NEW f \in folders, RemoveFolder(f) PROVE RequestsOK'
    BY <1>21 DEF RemoveFolder, RequestsOK
<1>22. ASSUME NEW a \in Accounts, NEW p \in PolicyType, SetPolicy(a, p)
       PROVE  RequestsOK'
  <2> SUFFICES ASSUME NEW x \in Requests PROVE RequestOK(request'[x])
      BY <1>22 DEF SetPolicy, Unsettle, RequestsOK, RequestOK
  <2>1. request'[x] = [request[x] EXCEPT !.calm = FALSE, !.created = FALSE]
      BY <1>22 DEF SetPolicy, Unsettle
  <2> QED
      BY <2>1 DEF RequestsOK, RequestOK, RequestType
<1>23. ASSUME NEW r \in Requests, ReadPolicy(r) PROVE RequestsOK'
  <2>1. RequestOK(request'[r]) /\ Becomes(r, request'[r])
      BY <1>23, ReadPolicyEffect
  <2> QED
      BY <2>1, OneRequest
<1> QED
    BY <1>1, <1>2, <1>3, <1>4, <1>5, <1>6, <1>7, <1>8, <1>9, <1>10, <1>11, <1>12, <1>13, <1>14,
       <1>15, <1>16, <1>17, <1>18, <1>19, <1>20, <1>21, <1>22, <1>23 DEF Step, StepOf, StepOutside

LEMMA TypesSplit == TypeOK <=> TablesOK /\ RequestsOK /\ HistoryOK
  BY DEF TypeOK, TablesOK, RequestsOK, HistoryOK

\* The library a step adds: its id is new.
NewIn(new) ==
  /\ new \in Folder /\ new.item # Family /\ folders' = folders \cup {new}
  /\ \A n : ~Bears(new.item, n)
  /\ ~Marked(new.item)
LEMMA NewLibrary ==
  ASSUME TypeOK, NEW r \in Requests, NEW b \in BOOLEAN, CreateLibrary(r, b)
  PROVE  /\ \E new : /\ NewIn(new) /\ new.dir = WantedDir(request[r])
                     /\ \/ new.name = WantedName(request[r])
                        \/ /\ Named(folders, WantedName(request[r])) # {}
                           /\ new.name = <<None, request[r].u>>
         /\ UNCHANGED <<users, rows, policy>>
<1> DEFINE q == request[r]
           taken == Named(folders, WantedName(q)) # {}
           name == IF taken THEN <<None, q.u>> ELSE WantedName(q)
           new == [item |-> CHOOSE i \in Fresh : TRUE, name |-> name, dir |-> WantedDir(q)]
<1>1. folders' = folders \cup {new} /\ Fresh # {} /\ UNCHANGED <<users, rows, policy>>
    BY DEF CreateLibrary
<1>2. q.u \in Users /\ q.row \in UserRow /\ q.w \in 1 .. Len(Wanted)
    BY WantedFacts DEF CreateLibrary, At, TypeOK, RequestOK, RequestType, Steps
<1>3. WantedName(q) \in LibraryNames /\ WantedDir(q) \in Dirs /\ <<None, q.u>> \in LibraryNames
    BY <1>2, Asked DEF LibraryNames
<1>4. /\ new \in Folder /\ new.item # Family
      /\ (\A n : ~Bears(new.item, n)) /\ ~Marked(new.item)
    BY <1>1, <1>3, FreshItem DEF Folder
<1>5. new.dir = WantedDir(q) /\ new.name = name
    OBVIOUS
<1>6. \/ new.name = WantedName(q)
      \/ Named(folders, WantedName(q)) # {} /\ new.name = <<None, q.u>>
  <2> HIDE DEF new
  <2> QED
      BY <1>5
<1> HIDE DEF new
<1>7. NewIn(new)
    BY <1>1, <1>4 DEF NewIn
<1> QED
    BY <1>1, <1>5, <1>6, <1>7

LEMMA AddedLibrary ==
  ASSUME TypeOK, NEW n \in LibraryNames, NEW d \in Dirs, AddFolder(n, d)
  PROVE  /\ \E new : NewIn(new) /\ new.dir = d /\ new.name = n
         /\ UNCHANGED <<users, rows, policy, request>>
<1> DEFINE new == [item |-> CHOOSE i \in Fresh : TRUE, name |-> n, dir |-> d]
<1>1. folders' = folders \cup {new} /\ Fresh # {} /\ UNCHANGED <<users, rows, policy, request>>
    BY DEF AddFolder
<1>2. /\ new \in Folder /\ new.item # Family
      /\ (\A m : ~Bears(new.item, m)) /\ ~Marked(new.item)
    BY <1>1, FreshItem DEF Folder
<1>3. new.dir = d /\ new.name = n
    OBVIOUS
<1> HIDE DEF new
<1> QED
    BY <1>1, <1>2, <1>3 DEF NewIn
LEMMA NextTables == TypeOK /\ Step => TablesOK'
<1> SUFFICES ASSUME TypeOK, TablesOK, RequestsOK, Step PROVE TablesOK'
    BY TypesSplit
<1> USE DEF TablesOK
<1>1. ASSUME NEW r \in Requests, NEW u \in Users, NEW n \in Names, NEW a \in Accounts, Create(r,
             u, n, a)
      PROVE  TablesOK'
  <2>1. [name |-> n, username |-> a, link |-> a] \in UserRow
      BY DEF UserRow
  <2> QED
      BY <1>1, <2>1 DEF Create
<1>2. ASSUME NEW r \in Requests, NEW u \in Users, Provision(r, u) PROVE TablesOK'
    BY <1>2 DEF Provision, kept
<1>3. ASSUME NEW r \in Requests, NEW u \in Users, StartDelete(r, u) PROVE TablesOK'
    BY <1>3 DEF StartDelete, kept
<1>4. ASSUME NEW u \in Users, NEW n \in Names, NEW a \in Accounts, Patch(u, n, a) PROVE TablesOK'
  <2>1. users[u] \in UserRow
      BY <1>4 DEF Patch, There
  <2>2. [users[u] EXCEPT !.name = n, !.username = a] \in UserRow
      BY <2>1 DEF UserRow
  <2>3. users' = [users EXCEPT ![u] = [users[u] EXCEPT !.name = n, !.username = a]]
      BY <1>4, <2>1 DEF Patch, UserRow
  <2> QED
      BY <1>4, <2>2, <2>3 DEF Patch
<1>5. ASSUME NEW r \in Requests, Enforce(r) PROVE TablesOK'
    BY <1>5 DEF Enforce, kept
<1>6. ASSUME NEW r \in Requests, Resolve(r) PROVE TablesOK'
  <2> DEFINE v == request[r].u
             link == request[r].row.username
  <2>1. v \in Users /\ link \in Accounts
      BY <1>6 DEF Resolve, At, RequestsOK, RequestOK, Steps, UserRow
  <2>2. There(v) => [users[v] EXCEPT !.link = link] \in UserRow
      BY <2>1 DEF There, UserRow
  <2>3. \/ users' = users
        \/ There(v) /\ users' = [users EXCEPT ![v] = [users[v] EXCEPT !.link = link]]
    <3>1. CASE users' = users
        BY <3>1
    <3>2. CASE There(v) /\ users' = [users EXCEPT ![v].link = link]
        BY <2>1, <3>2
    <3> QED
        BY <1>6, <3>1, <3>2 DEF Resolve
  <2>4. UNCHANGED <<rows, folders, policy>>
      BY <1>6 DEF Resolve
  <2> QED
      BY <2>1, <2>2, <2>3, <2>4
<1>7. ASSUME NEW r \in Requests, ListFolders(r) PROVE TablesOK'
    BY <1>7 DEF ListFolders, kept
<1>8. ASSUME NEW r \in Requests, FindLibrary(r) PROVE TablesOK'
    BY <1>8 DEF FindLibrary, kept
<1>9. ASSUME NEW r \in Requests, NEW b \in BOOLEAN, CreateLibrary(r, b) PROVE TablesOK'
  <2>1. PICK new : NewIn(new) /\ UNCHANGED <<users, rows, policy>>
      BY <1>9, NewLibrary
  <2> QED
      BY <2>1 DEF NewIn
<1>10. ASSUME NEW r \in Requests, ReadCreated(r) PROVE TablesOK'
    BY <1>10 DEF ReadCreated, kept
<1>11. ASSUME NEW r \in Requests, Upsert(r) PROVE TablesOK'
  <2>1. request[r].u \in Users /\ request[r].own \in Folder /\ request[r].w \in 1 .. Len(Wanted)
    <3>1. request[r].w \in 0 .. Len(Wanted) /\ request[r].w > 0
        BY <1>11 DEF Upsert, At, RequestsOK, RequestOK, RequestType
    <3>2. request[r].u \in Users /\ request[r].own \in Folder
        BY <1>11 DEF Upsert, At, RequestOK, Steps, RequestsOK
    <3> QED
        BY <3>1, <3>2, WantedFacts
  <2>4. Wanted[request[r].w] \in Types /\ Offered(r) \in LibraryRow
      BY <2>1, WantedFacts DEF Offered, LibraryRow, Folder
  <2>2. rows' = [rows EXCEPT ![request[r].u][Wanted[request[r].w]] = Offered(r)]
      BY <1>11 DEF Upsert, Offered
  <2>3. rows' \in [Users -> [Types -> LibraryRow \cup {None}]]
      BY <2>1, <2>2, <2>4
  <2> QED
      BY <1>11, <2>3 DEF Upsert
<1>12. ASSUME NEW r \in Requests, UpsertRefused(r) PROVE TablesOK'
    BY <1>12 DEF UpsertRefused, kept
<1>13. ASSUME NEW r \in Requests, NextLibrary(r) PROVE TablesOK'
    BY <1>13 DEF NextLibrary, kept
<1>14. ASSUME NEW r \in Requests, ReadOthers(r) PROVE TablesOK'
    BY <1>14 DEF ReadOthers, kept
<1>15. ASSUME NEW r \in Requests, NEW b \in BOOLEAN, ReadCurrent(r, b) PROVE TablesOK'
    BY <1>15 DEF ReadCurrent, kept
<1>16. ASSUME NEW r \in Requests, SetUserLibraryAccess(r) PROVE TablesOK'
  <2> DEFINE a == request[r].row.username
             S == EnabledFoldersFor(request[r].owned, request[r].current, request[r].others)
  <2>1. a \in Accounts /\ S \subseteq Items
      BY <1>16 DEF SetUserLibraryAccess, At, RequestsOK, RequestOK, RequestType, Steps, UserRow,
         EnabledFoldersFor
  <2>2. policy' = [policy EXCEPT ![a] =
                        [admin |-> request[r].admin, all |-> FALSE, enabled |-> S]]
      BY <1>16 DEF SetUserLibraryAccess
  <2>3. [admin |-> request[r].admin, all |-> FALSE, enabled |-> S] \in PolicyType
    <3>1. request[r].admin \in BOOLEAN
        BY DEF RequestsOK, RequestType
    <3> HIDE DEF S, a
    <3> QED
        BY <2>1, <3>1 DEF PolicyType
  <2>4. policy' \in [Accounts -> PolicyType]
    <3> HIDE DEF S, a
    <3> QED
        BY <2>1, <2>2, <2>3
  <2> QED
      BY <1>16, <2>4 DEF SetUserLibraryAccess
<1>17. ASSUME NEW r \in Requests, Throws(r) PROVE TablesOK'
    BY <1>17 DEF Throws, kept
<1>18. ASSUME NEW r \in Requests, NEW n \in request[r].names, NEW b \in BOOLEAN, RemoveLibrary(r,
              n, b)
       PROVE  TablesOK'
    BY <1>18 DEF RemoveLibrary, kept
<1>19. ASSUME NEW r \in Requests, Delete(r) PROVE TablesOK'
  <2>1. request[r].u \in Users /\ NoRows \in [Types -> LibraryRow \cup {None}]
      BY <1>19 DEF Delete, At, RequestsOK, RequestOK, NoRows
  <2> QED
      BY <1>19, <2>1 DEF Delete
<1>20. ASSUME NEW n \in LibraryNames, NEW d \in Dirs, n # LibraryName(None, None), AddFolder(n, d)
       PROVE  TablesOK'
  <2>1. PICK new : NewIn(new) /\ UNCHANGED <<users, rows, policy>>
      BY <1>20, AddedLibrary
  <2> QED
      BY <2>1 DEF NewIn
<1>21. ASSUME NEW f \in folders, RemoveFolder(f) PROVE TablesOK'
    BY <1>21 DEF RemoveFolder, kept
<1>22. ASSUME NEW a \in Accounts, NEW p \in PolicyType, SetPolicy(a, p)
       PROVE  TablesOK'
    BY <1>22 DEF SetPolicy
<1>23. ASSUME NEW r \in Requests, ReadPolicy(r) PROVE TablesOK'
    BY <1>23 DEF ReadPolicy, kept
<1> QED
    BY <1>1, <1>2, <1>3, <1>4, <1>5, <1>6, <1>7, <1>8, <1>9, <1>10, <1>11, <1>12, <1>13, <1>14,
       <1>15, <1>16, <1>17, <1>18, <1>19, <1>20, <1>21, <1>22, <1>23 DEF Step, StepOf, StepOutside

LEMMA NextHistory == TypeOK /\ Step => HistoryOK'
<1> SUFFICES ASSUME TypeOK, RequestsOK, HistoryOK, Step PROVE HistoryOK'
    BY TypesSplit
<1>0. BeingDeleted \subseteq Users
    BY DEF BeingDeleted, RequestsOK, RequestOK
<1> USE BoundsType, <1>0 DEF HistoryOK, Begin, Side
<1>1. ASSUME NEW r \in Requests, NEW u \in Users, NEW n \in Names, NEW a \in Accounts, Create(r,
             u, n, a)
      PROVE  HistoryOK'
    BY <1>1 DEF Create, kept, At, Steps, RequestsOK, RequestOK
<1>2. ASSUME NEW r \in Requests, NEW u \in Users, Provision(r, u) PROVE HistoryOK'
    BY <1>2 DEF Provision
<1>3. ASSUME NEW r \in Requests, NEW u \in Users, StartDelete(r, u) PROVE HistoryOK'
    BY <1>3 DEF StartDelete, kept, At, Steps, RequestsOK, RequestOK
<1>4. ASSUME NEW u \in Users, NEW n \in Names, NEW a \in Accounts, Patch(u, n, a) PROVE HistoryOK'
    BY <1>4 DEF Patch, kept, At, Steps, RequestsOK, RequestOK
<1>5. ASSUME NEW r \in Requests, Enforce(r) PROVE HistoryOK'
    BY <1>5 DEF Enforce
<1>6. ASSUME NEW r \in Requests, Resolve(r) PROVE HistoryOK'
    BY <1>6 DEF Resolve, kept, At, Steps, RequestsOK, RequestOK
<1>7. ASSUME NEW r \in Requests, ListFolders(r) PROVE HistoryOK'
    BY <1>7 DEF ListFolders, kept, At, Steps, RequestsOK, RequestOK
<1>8. ASSUME NEW r \in Requests, FindLibrary(r) PROVE HistoryOK'
    BY <1>8 DEF FindLibrary, kept, At, Steps, RequestsOK, RequestOK
<1>9. ASSUME NEW r \in Requests, NEW b \in BOOLEAN, CreateLibrary(r, b) PROVE HistoryOK'
    BY <1>9 DEF CreateLibrary, kept, At, Steps, RequestsOK, RequestOK
<1>10. ASSUME NEW r \in Requests, ReadCreated(r) PROVE HistoryOK'
    BY <1>10 DEF ReadCreated, kept, At, Steps, RequestsOK, RequestOK
<1>11. ASSUME NEW r \in Requests, Upsert(r) PROVE HistoryOK'
    BY <1>11 DEF Upsert, kept, At, Steps, RequestsOK, RequestOK
<1>12. ASSUME NEW r \in Requests, UpsertRefused(r) PROVE HistoryOK'
    BY <1>12 DEF UpsertRefused, kept, At, Steps, RequestsOK, RequestOK
<1>13. ASSUME NEW r \in Requests, NextLibrary(r) PROVE HistoryOK'
    BY <1>13 DEF NextLibrary, kept, At, Steps, RequestsOK, RequestOK
<1>14. ASSUME NEW r \in Requests, ReadOthers(r) PROVE HistoryOK'
    BY <1>14 DEF ReadOthers, kept, At, Steps, RequestsOK, RequestOK
<1>15. ASSUME NEW r \in Requests, NEW b \in BOOLEAN, ReadCurrent(r, b) PROVE HistoryOK'
  <2>1. request[r].row.username \in Accounts
      BY <1>15 DEF ReadCurrent, At, RequestsOK, RequestOK, Steps, UserRow
  <2> QED
      BY <1>15, <2>1 DEF ReadCurrent
<1>16. ASSUME NEW r \in Requests, SetUserLibraryAccess(r) PROVE HistoryOK'
    BY <1>16 DEF SetUserLibraryAccess, kept, At, Steps, RequestsOK, RequestOK
<1>17. ASSUME NEW r \in Requests, Throws(r) PROVE HistoryOK'
  <2>1. request[r].pc \in Steps
      BY <1>17 DEF Throws, Provisioning, RequestsOK, RequestType
  <2>2. request[r].u \in Users
      BY <2>1 DEF RequestsOK, RequestOK
  <2> QED
      BY <1>17, <2>2 DEF Throws
<1>18. ASSUME NEW r \in Requests, NEW n \in request[r].names, NEW b \in BOOLEAN, RemoveLibrary(r,
              n, b)
       PROVE  HistoryOK'
    BY <1>18 DEF RemoveLibrary, kept, At, Steps, RequestsOK, RequestOK
<1>19. ASSUME NEW r \in Requests, Delete(r) PROVE HistoryOK'
    BY <1>19 DEF Delete, kept, At, Steps, RequestsOK, RequestOK
<1>20. ASSUME NEW n \in LibraryNames, NEW d \in Dirs, n # LibraryName(None, None), AddFolder(n, d)
       PROVE  HistoryOK'
    BY <1>20 DEF AddFolder
<1>21. ASSUME NEW f \in folders, RemoveFolder(f) PROVE HistoryOK'
    BY <1>21 DEF RemoveFolder
<1>22. ASSUME NEW a \in Accounts, NEW p \in PolicyType, SetPolicy(a, p)
       PROVE  HistoryOK'
  <2>1. /\ settled' \subseteq settled /\ side < MaxSide /\ side' = side + 1
        /\ shared' \subseteq shared \cup {a} /\ blind' \subseteq blind \cup {a}
        /\ UNCHANGED <<gone, spoiled, done, faults>>
      BY <1>22, Zenon DEF SetPolicy, Unsettle, Side
  <2> QED
      BY <2>1
<1>23. ASSUME NEW r \in Requests, ReadPolicy(r) PROVE HistoryOK'
    BY <1>23 DEF ReadPolicy, kept
<1> QED
    BY <1>1, <1>2, <1>3, <1>4, <1>5, <1>6, <1>7, <1>8, <1>9, <1>10, <1>11, <1>12, <1>13, <1>14,
       <1>15, <1>16, <1>17, <1>18, <1>19, <1>20, <1>21, <1>22, <1>23 DEF Step, StepOf, StepOutside

LEMMA NextTypes == TypeOK /\ Step => TypeOK'
<1> SUFFICES ASSUME TypeOK, Step PROVE TypeOK'
    OBVIOUS
<1>1. TablesOK' /\ RequestsOK' /\ HistoryOK'
    BY NextRequests, NextTables, NextHistory, TypesSplit
<1> QED
    BY <1>1 DEF TypeOK, TablesOK, RequestsOK, HistoryOK

LEMMA InitTypes == Init => TypeOK
<1> SUFFICES ASSUME Init PROVE TypeOK
    OBVIOUS
<1>1. RequestsOK
    BY IdleType DEF Init, RequestsOK
<1>2. HistoryOK
    BY BoundsType DEF Init, HistoryOK
<1>3. /\ [item |-> Family, name |-> LibraryName(None, None), dir |-> SharedDir] \in Folder
      /\ NoRows \in [Types -> LibraryRow \cup {None}]
    BY FamilyType DEF Folder, LibraryName, LibraryNames, Dirs, PolicyType, NoRows
<1>4. TablesOK
    BY <1>3, BeforeType DEF Init, TablesOK
<1> QED
    BY <1>1, <1>2, <1>4, TypesSplit

-----------------------------------------------------------------------------
(* What a step changes *)

\* The other requests go on; at most they learn that something happened.
Unmoved(x) ==
  /\ request'[x].pc = request[x].pc /\ request'[x].u = request[x].u
  /\ request'[x].row = request[x].row /\ request'[x].w = request[x].w
  /\ request'[x].todo = request[x].todo /\ request'[x].names = request[x].names
  /\ request'[x].snap = request[x].snap /\ request'[x].own = request[x].own
  /\ request'[x].owned = request[x].owned /\ request'[x].others = request[x].others
  /\ request'[x].current = request[x].current
  /\ request'[x].created => request[x].created
  /\ request'[x].calm => request[x].calm

LEMMA SameIsUnmoved == ASSUME NEW x, request'[x] = request[x] PROVE Unmoved(x)
  BY DEF Unmoved
LEMMA CalmedIsUnmoved ==
  ASSUME RequestsOK, NEW x \in Requests, NEW c \in BOOLEAN, NEW d \in BOOLEAN,
         c => request[x].calm, d => request[x].created,
         request'[x] = Calmed(request[x], c, d)
  PROVE  Unmoved(x)
<1>1. request[x] \in RequestType
    BY DEF RequestsOK
<1> QED
    BY <1>1, CalmedFacts DEF Unmoved
LEMMA OthersAreUnmoved ==
  ASSUME RequestsOK, NEW r \in Requests, StepOf(r), NEW x \in Requests \ {r}
  PROVE  Unmoved(x)

<1>1. ASSUME NEW u \in Users, NEW n \in Names, NEW a \in Accounts,
             Create(r, u, n, a)
      PROVE  Unmoved(x)
  <2>1. request'[x] = request[x]
      BY <1>1 DEF Create, RequestsOK
  <2> QED
      BY <2>1, SameIsUnmoved
<1>2. ASSUME NEW u \in Users, Provision(r, u) PROVE Unmoved(x)
  <2>1. request'[x] = request[x]
      BY <1>2 DEF Provision, RequestsOK
  <2> QED
      BY <2>1, SameIsUnmoved
<1>3. ASSUME NEW u \in Users, StartDelete(r, u) PROVE Unmoved(x)
  <2>1. request'[x] = request[x]
      BY <1>3 DEF StartDelete, RequestsOK
  <2> QED
      BY <2>1, SameIsUnmoved
<1>4. CASE Enforce(r)
  <2>1. request'[x] = request[x]
      BY <1>4 DEF Enforce, RequestsOK
  <2> QED
      BY <2>1, SameIsUnmoved
<1>5. CASE Resolve(r)
  <2>1. request'[x] = request[x]
      BY <1>5 DEF Resolve, RequestsOK
  <2> QED
      BY <2>1, SameIsUnmoved
<1>6. CASE ListFolders(r)
  <2>1. request'[x] = request[x]
      BY <1>6 DEF ListFolders, RequestsOK
  <2> QED
      BY <2>1, SameIsUnmoved
<1>7. CASE FindLibrary(r)
  <2>1. request'[x] = request[x]
      BY <1>7 DEF FindLibrary, RequestsOK
  <2> QED
      BY <2>1, SameIsUnmoved
<1>8. ASSUME NEW b \in BOOLEAN, CreateLibrary(r, b) PROVE Unmoved(x)
  <2>1. request'[x] = request[x]
      BY <1>8 DEF CreateLibrary, RequestsOK
  <2> QED
      BY <2>1, SameIsUnmoved
<1>9. CASE ReadCreated(r)
  <2>1. request'[x] = request[x]
      BY <1>9 DEF ReadCreated, RequestsOK
  <2> QED
      BY <2>1, SameIsUnmoved
<1>10. CASE Upsert(r)
  <2>1. /\ (request[x].calm /\ request[x].u # request[r].u) \in BOOLEAN
        /\ (request[x].created /\ ~Seeks(x, Offered(r).name)) \in BOOLEAN
      BY DEF Seeks, At
  <2>2. \/ request'[x] = request[x] \/ request'[x] = Calmed(request[x], FALSE, FALSE)
        \/ request'[x] = Calmed(request[x], request[x].calm /\ request[x].u # request[r].u,
                                request[x].created /\ ~Seeks(x, Offered(r).name))
      BY <1>10, UpsertEffect
  <2> QED
      BY <2>1, <2>2, SameIsUnmoved, CalmedIsUnmoved
<1>11. CASE UpsertRefused(r)
  <2>1. request'[x] = request[x]
      BY <1>11 DEF UpsertRefused, RequestsOK
  <2> QED
      BY <2>1, SameIsUnmoved
<1>12. CASE NextLibrary(r)
  <2>1. request'[x] = request[x]
      BY <1>12 DEF NextLibrary, RequestsOK
  <2> QED
      BY <2>1, SameIsUnmoved
<1>13. CASE ReadOthers(r)
  <2>1. request'[x] = request[x]
      BY <1>13 DEF ReadOthers, RequestsOK
  <2> QED
      BY <2>1, SameIsUnmoved
<1>14. ASSUME NEW b \in BOOLEAN, ReadCurrent(r, b) PROVE Unmoved(x)
  <2>1. request'[x] = request[x]
      BY <1>14 DEF ReadCurrent, RequestsOK
  <2> QED
      BY <2>1, SameIsUnmoved
<1>15. CASE SetUserLibraryAccess(r)
  <2>1. request'[x] = request[x] \/ request'[x] = [request[x] EXCEPT !.calm = FALSE]
      BY <1>15 DEF SetUserLibraryAccess
  <2>2. request[x] \in RequestType
      BY DEF RequestsOK
  <2>3. CASE request'[x] = [request[x] EXCEPT !.calm = FALSE]
      BY <2>2, <2>3 DEF Unmoved, RequestType
  <2> QED
      BY <2>1, <2>3, SameIsUnmoved
<1>16. CASE Throws(r)
  <2>1. request'[x] = request[x]
      BY <1>16 DEF Throws, RequestsOK
  <2> QED
      BY <2>1, SameIsUnmoved
<1>17. ASSUME NEW n \in request[r].names, NEW b \in BOOLEAN, RemoveLibrary(r, n, b) PROVE Unmoved(x)
  <2>1. request'[x] = request[x]
      BY <1>17 DEF RemoveLibrary, RequestsOK
  <2> QED
      BY <2>1, SameIsUnmoved
<1>18. CASE Delete(r)
  <2>1. request'[x] = request[x]
      BY <1>18 DEF Delete, RequestsOK
  <2> QED
      BY <2>1, SameIsUnmoved
<1>19. CASE ReadPolicy(r)
  <2>1. request'[x] = request[x]
      BY <1>19 DEF ReadPolicy, RequestsOK
  <2> QED
      BY <2>1, SameIsUnmoved
<1> QED
    BY <1>1, <1>2, <1>3, <1>4, <1>5, <1>6, <1>7, <1>8, <1>9, <1>10, <1>11, <1>12, <1>13, <1>14,
       <1>15, <1>16, <1>17, <1>18, <1>19 DEF StepOf

LEMMA OutsideAllAreUnmoved ==
  ASSUME RequestsOK, StepOutside, NEW x \in Requests
  PROVE  Unmoved(x)

<1>1. ASSUME NEW u \in Users, NEW n \in Names, NEW a \in Accounts, Patch(u, n, a) PROVE Unmoved(x)
    BY <1>1, SameIsUnmoved DEF Patch
<1>2. ASSUME NEW n \in LibraryNames, NEW d \in Dirs, n # LibraryName(None, None), AddFolder(n, d)
      PROVE  Unmoved(x)
    BY <1>2, SameIsUnmoved DEF AddFolder
<1>3. ASSUME NEW f \in folders, RemoveFolder(f) PROVE Unmoved(x)
    BY <1>3, SameIsUnmoved DEF RemoveFolder
<1>4. ASSUME NEW a \in Accounts, NEW p \in PolicyType, SetPolicy(a, p)
      PROVE  Unmoved(x)
  <2>1. request'[x] = Calmed(request[x], FALSE, FALSE)
      BY <1>4 DEF SetPolicy, Unsettle, Calmed
  <2> QED
      BY <2>1, CalmedIsUnmoved
<1> QED
    BY <1>1, <1>2, <1>3, <1>4 DEF StepOutside

\* A request that begins or ends has nothing in hand.
Clears(r) ==
  LET q == request'[r] IN
  /\ q.pc \in {"idle", "resolve", "remove"} /\ q.snap = {} /\ q.own = None /\ ~q.created
  /\ q.owned = {} /\ q.others = {} /\ q.current = {}

LEMMA StartIsBlank ==
  ASSUME NEW job, NEW rest
  PROVE  /\ Blank(StartOf(job, rest)) /\ StartOf(job, rest).pc = "resolve"
         /\ StartOf(job, rest).u = job.u /\ StartOf(job, rest).row = job.row
         /\ StartOf(job, rest).todo = rest
  BY DEF StartOf, Idle, Blank
LEMMA IdleIsBlank == Blank(Idle) /\ Idle.pc = "idle"
  BY DEF Idle, Blank
LEMMA BlankClears ==
  ASSUME NEW r, Blank(request'[r]) PROVE Clears(r)
  BY DEF Blank, Clears

\* What ending does to a request: it may go on with a user of its list.
Ends(r) ==
  /\ Clears(r) /\ request'[r].pc \in {"idle", "resolve"}
  /\ request'[r].pc = "resolve" =>
       /\ \E job \in request[r].todo : job.u = request'[r].u
       /\ request'[r].todo \subseteq request[r].todo
LEMMA EndedEnds ==
  ASSUME RequestsOK, NEW r \in Requests, request'[r] \in Ended(r)
  PROVE  Ends(r)
<1>1. RequestOK(request[r])
    BY DEF RequestsOK
<1>2. /\ Blank(request'[r])
      /\ \/ request'[r].pc = "idle"
         \/ /\ \E job \in request[r].todo : job.u = request'[r].u
            /\ request'[r].todo \subseteq request[r].todo
    BY <1>1, EndedType
<1> QED
    BY <1>2, BlankClears DEF Ends, Blank
LEMMA Endings ==
  ASSUME RequestsOK, NEW r \in Requests,
         UpsertRefused(r) \/ Throws(r) \/ SetUserLibraryAccess(r) \/ CreateLibrary(r, FALSE)
  PROVE  Ends(r)
<1>1. request'[r] \in Ended(r)
  <2>1. CASE UpsertRefused(r)
      BY <2>1 DEF UpsertRefused, RequestsOK
  <2>2. CASE Throws(r)
      BY <2>2 DEF Throws, RequestsOK
  <2>3. CASE SetUserLibraryAccess(r)
      BY <2>3 DEF SetUserLibraryAccess
  <2>4. CASE CreateLibrary(r, FALSE)
      BY <2>4 DEF CreateLibrary, RequestsOK
  <2> QED
      BY <2>1, <2>2, <2>3, <2>4
<1> QED
    BY <1>1, EndedEnds

\* Beginning with one user, and maybe a list of others.
Begins(r) ==
  /\ Clears(r) /\ request'[r].pc = "resolve"
  /\ users'[request'[r].u] # None /\ \A job \in request'[r].todo : users'[job.u] # None
LEMMA Beginnings ==
  ASSUME TypeOK, NEW r \in Requests, NEW u \in Users,
         Provision(r, u) \/ Enforce(r) \/ \E n \in Names, a \in Accounts : Create(r, u, n, a)
  PROVE  Begins(r)
<1>1. CASE Provision(r, u)
  <2>1. request'[r] = StartOf(Job(u), {}) /\ There(u) /\ users' = users
      BY <1>1 DEF Provision, TypeOK
  <2> QED
      BY <2>1, StartIsBlank, BlankClears DEF Begins, Job, There
<1>2. CASE Enforce(r)
  <2>1. PICK first \in Users :
          /\ There(first)
          /\ request' = [request EXCEPT ![r] =
                StartOf(Job(first), {Job(v) : v \in {w \in Users \ {first} : There(w)}})]
      BY <1>2 DEF Enforce
  <2> DEFINE rest == {Job(v) : v \in {w \in Users \ {first} : There(w)}}
  <2>2. request'[r] = StartOf(Job(first), rest) /\ users' = users
      BY <1>2, <2>1 DEF Enforce, TypeOK
  <2>3. \A job \in rest : There(job.u)
      BY DEF Job
  <2> HIDE DEF rest
  <2>4. Blank(request'[r]) /\ request'[r].pc = "resolve" /\ request'[r].u = first
        /\ request'[r].todo = rest
      BY <2>2, StartIsBlank DEF Job
  <2> QED
      BY <2>1, <2>2, <2>3, <2>4, BlankClears DEF Begins, There
<1>3. ASSUME NEW n \in Names, NEW a \in Accounts, Create(r, u, n, a) PROVE Begins(r)
  <2> DEFINE row == [name |-> n, username |-> a, link |-> a]
             job == [u |-> u, row |-> row]
  <2>1. request'[r] = StartOf(job, {}) /\ users' = [users EXCEPT ![u] = row] /\ users'[u] = row
      BY <1>3 DEF Create, TypeOK
  <2>2. row # None
      BY NoneIsNothing DEF UserRow
  <2> QED
      BY <2>1, <2>2, StartIsBlank, BlankClears DEF Begins, There
<1> QED
    BY <1>1, <1>2, <1>3

LEMMA Departing ==
  ASSUME RequestsOK, NEW r \in Requests, NEW u \in Users
  PROVE  /\ StartDelete(r, u) =>
              /\ Clears(r) /\ request'[r].pc = "remove" /\ request'[r].u = u
              /\ request'[r].names = RecordedNames(u)
         /\ Delete(r) => Ends(r) /\ request'[r].pc = "idle"
<1>1. ASSUME StartDelete(r, u)
      PROVE  /\ Clears(r) /\ request'[r].pc = "remove" /\ request'[r].u = u
             /\ request'[r].names = RecordedNames(u)
  <2>1. request'[r] = [Idle EXCEPT !.pc = "remove", !.u = u, !.names = RecordedNames(u)]
      BY <1>1 DEF StartDelete, RequestsOK
  <2> QED
      BY <2>1 DEF Idle, Clears
<1>2. ASSUME Delete(r) PROVE Ends(r) /\ request'[r].pc = "idle"
  <2>1. request'[r] = Idle
      BY <1>2 DEF Delete, RequestsOK
  <2> QED
      BY <2>1, IdleIsBlank, BlankClears DEF Ends
<1> QED
    BY <1>1, <1>2

\* What a request can come to hold: what it has, what the list says, what an account sees.
Hands(x) ==
  /\ \A f \in request'[x].snap : f \in request[x].snap \/ f \in folders
  /\ request'[x].own \in {None, request[x].own} \cup folders \cup request[x].snap
  /\ \A i \in request'[x].owned :
        i \in request[x].owned \/ (Upsert(x) /\ i = request[x].own.item)
  /\ \A i \in request'[x].current :
        i \in request[x].current \/ \E a \in Accounts : i \in policy[a].enabled
LEMMA StillHands == ASSUME NEW x, Unmoved(x) PROVE Hands(x)
  BY DEF Unmoved, Hands
LEMMA ClearsHands == ASSUME NEW x, Clears(x) PROVE Hands(x)
  BY DEF Clears, Hands
LEMMA OwnTypes ==
  ASSUME TypeOK, NEW r \in Requests
  PROVE  /\ request[r] \in RequestType
         /\ request[r].pc \in Steps => request[r].u \in Users /\ request[r].row \in UserRow
         /\ request[r].pc \in {"library", "found", "upsert", "next"} =>
              request[r].w \in 1 .. Len(Wanted) /\ Wanted[request[r].w] \in Types
         /\ request[r].pc = "upsert" => request[r].own \in Folder
         /\ request[r].row \in UserRow => request[r].row.username \in Accounts
<1>1. /\ request[r] \in RequestType
      /\ request[r].pc \in Steps => request[r].u \in Users /\ request[r].row \in UserRow
      /\ request[r].pc = "upsert" => request[r].own \in Folder
      /\ request[r].pc \in {"library", "found", "upsert", "next"} => request[r].w > 0
    BY DEF TypeOK, RequestOK
<1>2. request[r].w \in 0 .. Len(Wanted)
    BY <1>1 DEF RequestType
<1>3. request[r].row \in UserRow => request[r].row.username \in Accounts
    BY DEF UserRow
<1> QED
    BY <1>1, <1>2, <1>3, WantedFacts
LEMMA HandsOf ==
  ASSUME TypeOK, NEW r \in Requests, StepOf(r)
  PROVE  Hands(r)
<1>0. RequestsOK /\ request[r] \in RequestType
    BY TypesSplit, OwnTypes
<1> USE <1>0
<1>1. ASSUME NEW u \in Users, NEW n \in Names, NEW a \in Accounts, Create(r, u, n, a) PROVE Hands(r)
    BY <1>1, Beginnings, ClearsHands DEF Begins
<1>2. ASSUME NEW u \in Users, Provision(r, u) PROVE Hands(r)
    BY <1>2, Beginnings, ClearsHands DEF Begins
<1>3. ASSUME NEW u \in Users, StartDelete(r, u) PROVE Hands(r)
    BY <1>3, Departing, ClearsHands
<1>4. CASE Enforce(r)
  <2>1. \E u \in Users : TRUE
      BY <1>4 DEF Enforce
  <2> QED
      BY <1>4, <2>1, Beginnings, ClearsHands DEF Begins
<1>5. CASE Resolve(r)
  <2>1. request'[r] = [request[r] EXCEPT !.pc = "list",
                                          !.admin = policy[request[r].row.username].admin]
      BY <1>5 DEF Resolve, RequestsOK
  <2> QED
      BY <2>1 DEF Hands, RequestType
<1>6. CASE ListFolders(r)
  <2>1. request'[r] = [request[r] EXCEPT !.pc = "library", !.snap = folders, !.w = 1]
      BY <1>6 DEF ListFolders, RequestsOK
  <2> QED
      BY <2>1 DEF Hands, RequestType
<1>7. CASE FindLibrary(r)
  <2>1. PICK f \in request[r].snap :
          request' = [request EXCEPT ![r].pc = "upsert", ![r].own = f, ![r].created = FALSE]
      BY <1>7 DEF FindLibrary, Named, At_
  <2>2. request'[r] = [request[r] EXCEPT !.pc = "upsert", !.own = f, !.created = FALSE]
      BY <2>1 DEF RequestsOK
  <2> QED
      BY <2>2 DEF Hands, RequestType
<1>8. ASSUME NEW b \in BOOLEAN, CreateLibrary(r, b) PROVE Hands(r)
  <2>1. CASE b
    <3>1. \E v : request'[r] = [request[r] EXCEPT !.pc = "found", !.created = v]
        BY <1>8, <2>1 DEF CreateLibrary, RequestsOK
    <3> QED
        BY <3>1 DEF Hands, RequestType
  <2>2. CASE ~b
      BY <1>8, <2>2, Endings, ClearsHands DEF Ends
  <2> QED
      BY <2>1, <2>2
<1>9. CASE ReadCreated(r)
  <2>1. \/ request' = [request EXCEPT ![r].pc = "next", ![r].created = FALSE]
        \/ \E f \in folders : request' = [request EXCEPT ![r].pc = "upsert", ![r].own = f]
      BY <1>9 DEF ReadCreated, Named
  <2>2. \/ request'[r] = [request[r] EXCEPT !.pc = "next", !.created = FALSE]
        \/ \E f \in folders : request'[r] = [request[r] EXCEPT !.pc = "upsert", !.own = f]
      BY <2>1 DEF RequestsOK
  <2> QED
      BY <2>2 DEF Hands, RequestType
<1>10. CASE Upsert(r)
  <2>1. request'[r] = Took(r)
      BY <1>10, UpsertEffect
  <2> QED
      BY <1>10, <2>1, TookFacts DEF Hands
<1>11. CASE UpsertRefused(r)
    BY <1>11, Endings, ClearsHands DEF Ends
<1>12. CASE NextLibrary(r)
  <2>1. \/ request'[r] = [request[r] EXCEPT !.pc = "library", !.w = @ + 1]
        \/ request'[r] = [request[r] EXCEPT !.pc = "others", !.snap = {}]
        \/ request'[r] \in Ended(r)
      BY <1>12 DEF NextLibrary, RequestsOK
  <2>2. CASE request'[r] \in Ended(r)
      BY <2>2, EndedEnds, ClearsHands DEF Ends
  <2> QED
      BY <2>1, <2>2 DEF Hands, RequestType
<1>13. CASE ReadOthers(r)
  <2>1. request'[r] = [request[r] EXCEPT !.pc = "current", !.calm = TRUE,
                                            !.others = ItemsExcluding(request[r].u)]
      BY <1>13 DEF ReadOthers, RequestsOK
  <2> QED
      BY <2>1 DEF Hands, RequestType
<1>14. ASSUME NEW b \in BOOLEAN, ReadCurrent(r, b) PROVE Hands(r)
  <2> DEFINE a == request[r].row.username
             S == IF b THEN policy[a].enabled ELSE {}
  <2>1. request'[r] = [request[r] EXCEPT !.pc = "lock", !.current = S]
      BY <1>14 DEF ReadCurrent, RequestsOK
  <2>2. a \in Accounts /\ \A i \in S : i \in policy[a].enabled
      BY <1>14, OwnTypes DEF ReadCurrent, At, Steps
  <2> HIDE DEF a, S
  <2> QED
      BY <2>1, <2>2 DEF Hands, RequestType
<1>15. CASE SetUserLibraryAccess(r)
    BY <1>15, Endings, ClearsHands DEF Ends
<1>16. CASE Throws(r)
    BY <1>16, Endings, ClearsHands DEF Ends
<1>17. ASSUME NEW n \in request[r].names, NEW b \in BOOLEAN, RemoveLibrary(r, n, b) PROVE Hands(r)
  <2>1. request'[r] = [request[r] EXCEPT !.names = @ \ {n}]
      BY <1>17 DEF RemoveLibrary, RequestsOK
  <2> QED
      BY <2>1 DEF Hands, RequestType
<1>18. CASE Delete(r)
  <2>1. request[r].u \in Users
      BY <1>18 DEF Delete, At, TypeOK, RequestOK
  <2> QED
      BY <1>18, <2>1, Departing, ClearsHands DEF Ends
<1>19. CASE ReadPolicy(r)
    BY <1>19, ReadPolicyEffect, TypesSplit DEF Hands
<1> QED
    BY <1>1, <1>2, <1>3, <1>4, <1>5, <1>6, <1>7, <1>8, <1>9, <1>10, <1>11, <1>12, <1>13, <1>14,
       <1>15, <1>16, <1>17, <1>18, <1>19 DEF StepOf

LEMMA HandsOfAll ==
  ASSUME TypeOK, Step, NEW x \in Requests
  PROVE  Hands(x)
<1>1. RequestsOK
    BY TypesSplit
<1>2. CASE StepOutside
    BY <1>1, <1>2, OutsideAllAreUnmoved, StillHands
<1>3. ASSUME NEW r \in Requests, StepOf(r) PROVE Hands(x)
  <2>1. CASE x = r
      BY <1>3, <2>1, HandsOf
  <2>2. CASE x # r
      BY <1>1, <1>3, <2>2, OthersAreUnmoved, StillHands
  <2> QED
      BY <2>1, <2>2
<1> QED
    BY <1>2, <1>3 DEF Step

\* The rows change by an upsert, or go with their user.
LEMMA RowFrame ==
  ASSUME TypeOK, Step
  PROVE  \/ \E r \in Requests : Upsert(r)
         \/ \A u \in Users, t \in Types : rows'[u][t] = None \/ rows'[u][t] = rows[u][t]
<1> DEFINE Fewer == \A u \in Users, t \in Types : rows'[u][t] = None \/ rows'[u][t] = rows[u][t]
<1>1. CASE StepOutside
    BY <1>1 DEF StepOutside, Patch, AddFolder, RemoveFolder, SetPolicy
<1>2. ASSUME NEW r \in Requests, StepOf(r), ~Upsert(r) PROVE Fewer
  <2>1. CASE Delete(r)
    <3>1. rows' = [rows EXCEPT ![request[r].u] = NoRows]
        BY <2>1 DEF Delete
    <3>2. \A u \in Users : rows'[u] = NoRows \/ rows'[u] = rows[u]
        BY <3>1 DEF TypeOK
    <3> QED
        BY <3>2 DEF NoRows
  <2>2. CASE ~Delete(r)
    <3>1. rows' = rows
        BY <1>2, <2>2 DEF StepOf, Create, Provision, StartDelete, Enforce, Resolve, ListFolders,
           FindLibrary, CreateLibrary, ReadCreated, UpsertRefused, NextLibrary, ReadOthers,
           ReadCurrent, ReadPolicy, SetUserLibraryAccess, Throws, RemoveLibrary
    <3> QED
        BY <3>1
  <2> QED
      BY <2>1, <2>2
<1> QED
    BY <1>1, <1>2 DEF Step
LEMMA UpsertRows ==
  ASSUME TypeOK, NEW r \in Requests, Upsert(r)
  PROVE  LET u == request[r].u
             t == Wanted[request[r].w] IN
         /\ u \in Users /\ t \in Types /\ request[r].own \in Folder /\ There(u)
         /\ Offered(r) \in LibraryRow /\ Offered(r) # None
         /\ Offered(r).name = request[r].own.name /\ Offered(r).item = request[r].own.item
         /\ rows'[u][t] = Offered(r)
         /\ \A v \in Users, s \in Types : v # u \/ s # t => rows'[v][s] = rows[v][s]
         /\ \A v \in Users, s \in Types :
              (v # u \/ s # t) /\ rows[v][s] # None => rows[v][s].name # Offered(r).name
         /\ UNCHANGED <<users, folders, policy>>
<1>1. /\ request[r].u \in Users /\ Wanted[request[r].w] \in Types /\ request[r].own \in Folder
    BY OwnTypes DEF Upsert, At, Steps
<1>2. Offered(r) \in LibraryRow /\ Offered(r) # None
    BY <1>1, NoneIsNothing DEF Offered, LibraryRow, Folder
<1>3. rows' = [rows EXCEPT ![request[r].u][Wanted[request[r].w]] = Offered(r)]
    BY DEF Upsert, Offered
<1>4. /\ There(request[r].u)
      /\ \A v \in Users, s \in Types :
           (v # request[r].u \/ s # Wanted[request[r].w]) /\ rows[v][s] # None =>
              rows[v][s].name # Offered(r).name
    BY DEF Upsert, RowRefused, Offered
<1>5. /\ rows'[request[r].u][Wanted[request[r].w]] = Offered(r)
      /\ \A v \in Users, s \in Types :
           v # request[r].u \/ s # Wanted[request[r].w] => rows'[v][s] = rows[v][s]
    BY <1>1, <1>3 DEF TypeOK
<1>6. Offered(r).name = request[r].own.name /\ Offered(r).item = request[r].own.item
    BY DEF Offered
<1>7. UNCHANGED <<users, folders, policy>>
    BY DEF Upsert
<1> QED
    BY <1>1, <1>2, <1>4, <1>5, <1>6, <1>7

LEMMA FolderFrame ==
  ASSUME TypeOK, Step
  PROVE  folders' \subseteq folders \/ \E new : NewIn(new)
<1>1. CASE StepOutside
  <2>1. ASSUME NEW n \in LibraryNames, NEW d \in Dirs, AddFolder(n, d) PROVE \E new : NewIn(new)
      BY <2>1, AddedLibrary
  <2> QED
      BY <1>1, <2>1 DEF StepOutside, Patch, RemoveFolder, SetPolicy
<1>2. ASSUME NEW r \in Requests, StepOf(r)
      PROVE  folders' \subseteq folders \/ \E new : NewIn(new)
  <2>1. ASSUME NEW b \in BOOLEAN, CreateLibrary(r, b) PROVE \E new : NewIn(new)
      BY <2>1, NewLibrary
  <2> QED
      BY <1>2, <2>1 DEF StepOf, Create, Provision, StartDelete, Enforce, Resolve, ListFolders,
         FindLibrary, ReadCreated, Upsert, UpsertRefused, NextLibrary, ReadOthers,
         ReadCurrent, ReadPolicy, SetUserLibraryAccess, Throws, RemoveLibrary, Delete
<1> QED
    BY <1>1, <1>2 DEF Step

-----------------------------------------------------------------------------
(* Names *)

LEMMA NextItemsHaveOneName == TypeOK /\ ItemsHaveOneName /\ Step => ItemsHaveOneName'
<1> SUFFICES ASSUME TypeOK, ItemsHaveOneName, Step PROVE ItemsHaveOneName'
    OBVIOUS
<1>1. \A x \in Requests : \A f \in request'[x].snap : f \in request[x].snap \/ f \in folders
    BY HandsOfAll DEF Hands
<1>2. \A x \in Requests : request'[x].own # None =>
        request'[x].own \in {request[x].own} \cup folders \cup request[x].snap
    BY HandsOfAll DEF Hands
<1>3. \A u \in Users, t \in Types : rows'[u][t] # None =>
        \/ rows'[u][t] = rows[u][t]
        \/ \E r \in Requests : /\ request[r].own # None
                               /\ rows'[u][t].item = request[r].own.item
                               /\ rows'[u][t].name = request[r].own.name
  <2>1. ASSUME NEW r \in Requests, Upsert(r)
        PROVE  \A u \in Users, t \in Types : rows'[u][t] # rows[u][t] =>
                  /\ request[r].own # None
                  /\ rows'[u][t].item = request[r].own.item
                  /\ rows'[u][t].name = request[r].own.name
      BY <2>1, UpsertRows, NoneIsNothing
  <2> QED
      BY <2>1, RowFrame
<1>4. ASSUME NEW i, NEW n, Bears(i, n)', ~Bears(i, n)
      PROVE  \E f \in folders' \ folders : f.item = i /\ f.name = n
  <2>1. CASE \E f \in folders' : f.item = i /\ f.name = n
      BY <1>4, <2>1 DEF Bears
  <2>2. ASSUME NEW r \in Requests, NEW f \in request'[r].snap, f.item = i, f.name = n PROVE FALSE
      BY <1>1, <1>4, <2>2 DEF Bears
  <2>3. ASSUME NEW r \in Requests, request'[r].own # None, request'[r].own.item = i,
               request'[r].own.name = n
        PROVE  FALSE
      BY <1>2, <1>4, <2>3 DEF Bears
  <2>4. ASSUME NEW u \in Users, NEW t \in Types, rows'[u][t] # None, rows'[u][t].item = i,
               rows'[u][t].name = n
        PROVE  FALSE
      BY <1>3, <1>4, <2>4 DEF Bears
  <2> QED
      BY <1>4, <2>1, <2>2, <2>3, <2>4 DEF Bears
<1>5. CASE folders' \subseteq folders
    BY <1>4, <1>5 DEF ItemsHaveOneName
<1>6. ASSUME NEW new, NewIn(new) PROVE ItemsHaveOneName'
  <2>1. \A f \in folders' \ folders : f = new
      BY <1>6 DEF NewIn
  <2>2. \A n : ~Bears(new.item, n)
      BY <1>6 DEF NewIn
  <2>3. \A i, n : Bears(i, n)' => Bears(i, n) \/ (i = new.item /\ n = new.name)
      BY <1>4, <2>1
  <2> QED
      BY <2>2, <2>3 DEF ItemsHaveOneName
<1> QED
    BY <1>5, <1>6, FolderFrame

LEMMA NextNamesHaveOneRow == TypeOK /\ NamesHaveOneRow /\ Step => NamesHaveOneRow'
<1> SUFFICES ASSUME TypeOK, NamesHaveOneRow, Step PROVE NamesHaveOneRow'
    OBVIOUS
<1>1. CASE \A u \in Users, t \in Types : rows'[u][t] = None \/ rows'[u][t] = rows[u][t]
    BY <1>1 DEF NamesHaveOneRow
<1>2. ASSUME NEW r \in Requests, Upsert(r) PROVE NamesHaveOneRow'
  <2> DEFINE u == request[r].u
             t == Wanted[request[r].w]
  <2>1. /\ rows'[u][t] = Offered(r)
        /\ \A v \in Users, s \in Types : v # u \/ s # t => rows'[v][s] = rows[v][s]
        /\ \A v \in Users, s \in Types :
              (v # u \/ s # t) /\ rows[v][s] # None => rows[v][s].name # Offered(r).name
      BY <1>2, UpsertRows
  <2> HIDE DEF u, t
  <2> QED
      BY <2>1 DEF NamesHaveOneRow
<1> QED
    BY <1>1, <1>2, RowFrame

-----------------------------------------------------------------------------
(* Which step brings a request to a point *)

Turns(r) ==
  /\ request'[r].pc = "found" => CreateLibrary(r, TRUE)
  /\ request'[r].pc = "upsert" => FindLibrary(r) \/ ReadCreated(r)
  /\ request'[r].pc = "current" => ReadOthers(r)
  /\ request'[r].pc = "lock" => \E b \in BOOLEAN : ReadCurrent(r, b)
  /\ request'[r].pc = "post" => ReadPolicy(r)
  /\ request'[r].pc = "remove" =>
       \/ \E u \in Users : StartDelete(r, u)
       \/ \E n \in request[r].names, b \in BOOLEAN : RemoveLibrary(r, n, b)
  /\ request'[r].own \in {None, request[r].own} \/ FindLibrary(r) \/ ReadCreated(r)
  /\ request'[r].others \in {{}, request[r].others} \/ ReadOthers(r)
LEMMA ClearsTurns == ASSUME NEW r, Clears(r), request'[r].pc # "remove" PROVE Turns(r)
  BY DEF Clears, Turns
LEMMA TurnsOf ==
  ASSUME TypeOK, NEW r \in Requests, StepOf(r)
  PROVE  Turns(r)
<1>0. RequestsOK /\ request[r] \in RequestType
    BY TypesSplit, OwnTypes
<1> USE <1>0
<1>1. ASSUME NEW u \in Users, NEW n \in Names, NEW a \in Accounts, Create(r, u, n, a) PROVE Turns(r)
    BY <1>1, Beginnings, ClearsTurns DEF Begins
<1>2. ASSUME NEW u \in Users, Provision(r, u) PROVE Turns(r)
    BY <1>2, Beginnings, ClearsTurns DEF Begins
<1>3. ASSUME NEW u \in Users, StartDelete(r, u) PROVE Turns(r)
    BY <1>3, Departing DEF Clears, Turns
<1>4. CASE Enforce(r)
  <2>1. \E u \in Users : TRUE
      BY <1>4 DEF Enforce
  <2> QED
      BY <1>4, <2>1, Beginnings, ClearsTurns DEF Begins
<1>5. CASE Resolve(r)
  <2>1. request'[r] = [request[r] EXCEPT !.pc = "list",
                                          !.admin = policy[request[r].row.username].admin]
      BY <1>5 DEF Resolve, RequestsOK
  <2> QED
      BY <1>5, <2>1 DEF Turns, RequestType
<1>6. CASE ListFolders(r)
  <2>1. request'[r] = [request[r] EXCEPT !.pc = "library", !.snap = folders, !.w = 1]
      BY <1>6 DEF ListFolders, RequestsOK
  <2> QED
      BY <1>6, <2>1 DEF Turns, RequestType
<1>7. CASE FindLibrary(r)
  <2>1. PICK f \in request[r].snap :
          request' = [request EXCEPT ![r].pc = "upsert", ![r].own = f, ![r].created = FALSE]
      BY <1>7 DEF FindLibrary, Named, At_
  <2>2. request'[r] = [request[r] EXCEPT !.pc = "upsert", !.own = f, !.created = FALSE]
      BY <2>1 DEF RequestsOK
  <2> QED
      BY <1>7, <2>2 DEF Turns, RequestType
<1>8. ASSUME NEW b \in BOOLEAN, CreateLibrary(r, b) PROVE Turns(r)
  <2>1. CASE b
    <3>1. \E v : request'[r] = [request[r] EXCEPT !.pc = "found", !.created = v]
        BY <1>8, <2>1 DEF CreateLibrary, RequestsOK
    <3>2. CreateLibrary(r, TRUE)
        BY <1>8, <2>1
    <3> QED
        BY <3>1, <3>2 DEF Turns, RequestType
  <2>2. CASE ~b
      BY <1>8, <2>2, Endings, ClearsTurns DEF Ends
  <2> QED
      BY <2>1, <2>2
<1>9. CASE ReadCreated(r)
  <2>1. \/ request' = [request EXCEPT ![r].pc = "next", ![r].created = FALSE]
        \/ \E f \in folders : request' = [request EXCEPT ![r].pc = "upsert", ![r].own = f]
      BY <1>9 DEF ReadCreated, Named
  <2>2. \/ request'[r] = [request[r] EXCEPT !.pc = "next", !.created = FALSE]
        \/ \E f \in folders : request'[r] = [request[r] EXCEPT !.pc = "upsert", !.own = f]
      BY <2>1 DEF RequestsOK
  <2> QED
      BY <1>9, <2>2 DEF Turns, RequestType
<1>10. CASE Upsert(r)
  <2>1. request'[r] = Took(r)
      BY <1>10, UpsertEffect
  <2> QED
      BY <1>10, <2>1, TookFacts DEF Turns
<1>11. CASE UpsertRefused(r)
    BY <1>11, Endings, ClearsTurns DEF Ends
<1>12. CASE NextLibrary(r)
  <2>1. \/ request'[r] = [request[r] EXCEPT !.pc = "library", !.w = @ + 1]
        \/ request'[r] = [request[r] EXCEPT !.pc = "others", !.snap = {}]
        \/ request'[r] \in Ended(r)
      BY <1>12 DEF NextLibrary, RequestsOK
  <2>2. CASE request'[r] \in Ended(r)
      BY <2>2, EndedEnds, ClearsTurns DEF Ends
  <2> QED
      BY <1>12, <2>1, <2>2 DEF Turns, RequestType
<1>13. CASE ReadOthers(r)
  <2>1. request'[r] = [request[r] EXCEPT !.pc = "current", !.calm = TRUE,
                                            !.others = ItemsExcluding(request[r].u)]
      BY <1>13 DEF ReadOthers, RequestsOK
  <2> QED
      BY <1>13, <2>1 DEF Turns, RequestType
<1>14. ASSUME NEW b \in BOOLEAN, ReadCurrent(r, b) PROVE Turns(r)
  <2> DEFINE a == request[r].row.username
             S == IF b THEN policy[a].enabled ELSE {}
  <2>1. request'[r] = [request[r] EXCEPT !.pc = "lock", !.current = S]
      BY <1>14 DEF ReadCurrent, RequestsOK
  <2>2. a \in Accounts /\ \A i \in S : i \in policy[a].enabled
      BY <1>14, OwnTypes DEF ReadCurrent, At, Steps
  <2> HIDE DEF a, S
  <2> QED
      BY <1>14, <2>1, <2>2 DEF Turns, RequestType
<1>15. CASE SetUserLibraryAccess(r)
    BY <1>15, Endings, ClearsTurns DEF Ends
<1>16. CASE Throws(r)
    BY <1>16, Endings, ClearsTurns DEF Ends
<1>17. ASSUME NEW n \in request[r].names, NEW b \in BOOLEAN, RemoveLibrary(r, n, b) PROVE Turns(r)
  <2>1. request'[r] = [request[r] EXCEPT !.names = @ \ {n}]
      BY <1>17 DEF RemoveLibrary, RequestsOK
  <2>2. request[r].pc = "remove"
      BY <1>17 DEF RemoveLibrary, At
  <2> QED
      BY <1>17, <2>1, <2>2 DEF Turns, RequestType
<1>18. CASE Delete(r)
  <2>1. request[r].u \in Users
      BY <1>18 DEF Delete, At, TypeOK, RequestOK
  <2> QED
      BY <1>18, <2>1, Departing, ClearsTurns DEF Ends
<1>19. CASE ReadPolicy(r)
    BY <1>19, ReadPolicyEffect, TypesSplit DEF Turns
<1> QED
    BY <1>1, <1>2, <1>3, <1>4, <1>5, <1>6, <1>7, <1>8, <1>9, <1>10, <1>11, <1>12, <1>13, <1>14,
       <1>15, <1>16, <1>17, <1>18, <1>19 DEF StepOf

\* How the policies change: locking down one account, or at an administrator's hand.
LEMMA AccessEffect ==
  ASSUME TypeOK, NEW r \in Requests, SetUserLibraryAccess(r)
  PROVE  LET q == request[r]
             a == request[r].row.username IN
         /\ a \in Accounts /\ ~policy'[a].all /\ policy'[a].admin = q.admin
         /\ policy'[a].enabled = q.owned \cup (q.current \ q.others)
         /\ \A b \in Accounts : b # a => policy'[b] = policy[b]
         /\ UNCHANGED <<users, rows, folders, shared, blind, gone>>
<1> DEFINE a == request[r].row.username
           S == EnabledFoldersFor(request[r].owned, request[r].current, request[r].others)
<1>1. a \in Accounts
    BY OwnTypes DEF SetUserLibraryAccess, At, Steps
<1>2. policy' = [policy EXCEPT ![a] =
                        [admin |-> request[r].admin, all |-> FALSE, enabled |-> S]]
    BY DEF SetUserLibraryAccess
<1>4. UNCHANGED <<users, rows, folders, shared, blind, gone>>
    BY DEF SetUserLibraryAccess
<1>5. S = request[r].owned \cup (request[r].current \ request[r].others)
    BY DEF EnabledFoldersFor
<1> HIDE DEF a, S
<1>6. policy'[a] = [admin |-> request[r].admin, all |-> FALSE, enabled |-> S]
    BY <1>1, <1>2 DEF TypeOK
<1>7. ~policy'[a].all /\ policy'[a].admin = request[r].admin /\ policy'[a].enabled = S
    BY <1>6
<1>8. \A b \in Accounts : b # a => policy'[b] = policy[b]
    BY <1>1, <1>2 DEF TypeOK
<1> QED
    BY <1>1, <1>4, <1>5, <1>7, <1>8 DEF a
LEMMA PolicyEffect ==
  ASSUME TypeOK, NEW a \in Accounts, NEW p, SetPolicy(a, p)
  PROVE  /\ policy'[a] = p /\ \A b \in Accounts : b # a => policy'[b] = policy[b]
         /\ \A x \in Requests : ~request'[x].calm /\ ~request'[x].created
         /\ settled' = settled \ {u \in Users : There(u) /\ users[u].link = a}
         /\ UNCHANGED <<users, rows, folders, gone>>
<1>1. policy' = [policy EXCEPT ![a] = p] /\ UNCHANGED <<users, rows, folders, gone>>
    BY DEF SetPolicy
<1>2. settled' = settled \ {u \in Users : There(u) /\ users[u].link = a}
    BY DEF SetPolicy, Unsettle
<1>3. ASSUME NEW x \in Requests PROVE ~request'[x].calm /\ ~request'[x].created
  <2>1. request'[x] = Calmed(request[x], FALSE, FALSE)
      BY DEF SetPolicy, Unsettle, Calmed
  <2>2. request[x] \in RequestType
      BY OwnTypes
  <2> QED
      BY <2>1, <2>2, CalmedFacts
<1> QED
    BY <1>1, <1>2, <1>3 DEF TypeOK
LEMMA PolicyFrame ==
  ASSUME TypeOK, Step
  PROVE  \/ policy' = policy
         \/ \E r \in Requests : SetUserLibraryAccess(r)
         \/ \E a \in Accounts, p \in PolicyType : SetPolicy(a, p)
<1>1. CASE StepOutside
    BY <1>1 DEF StepOutside, Patch, AddFolder, RemoveFolder
<1>2. ASSUME NEW r \in Requests, StepOf(r) PROVE policy' = policy \/ SetUserLibraryAccess(r)
    BY <1>2 DEF StepOf, Create, Provision, StartDelete, Enforce, Resolve, ListFolders,
       FindLibrary, CreateLibrary, ReadCreated, Upsert, UpsertRefused, NextLibrary, ReadOthers,
       ReadCurrent, ReadPolicy, Throws, RemoveLibrary, Delete
<1> QED
    BY <1>1, <1>2 DEF Step

\* A library becomes one that is seen, recorded or held only by an upsert or in Jellyfin.
LEMMA MarkedFrame ==
  ASSUME TypeOK, Step, NEW i, Marked(i)', ~Marked(i)
  PROVE  \/ \E r \in Requests : Upsert(r) /\ i = request[r].own.item
         \/ \E a \in Accounts, p \in PolicyType : SetPolicy(a, p)
<1> DEFINE Recording == \E r \in Requests : Upsert(r) /\ i = request[r].own.item
           Opening == \E a \in Accounts, p \in PolicyType : SetPolicy(a, p)
<1>1. ASSUME NEW a \in Accounts, i \in policy'[a].enabled PROVE Opening
  <2>1. i \notin policy[a].enabled
      BY <1>1 DEF Marked
  <2>2. ASSUME NEW r \in Requests, SetUserLibraryAccess(r) PROVE FALSE
    <3>1. i \in request[r].owned \/ i \in request[r].current
        BY <1>1, <2>1, <2>2, AccessEffect
    <3> QED
        BY <3>1 DEF Marked
  <2>3. policy' # policy
      BY <1>1, <2>1
  <2> QED
      BY <2>2, <2>3, PolicyFrame
<1>2. ASSUME NEW u \in Users, InRow(u, i)' PROVE Recording
  <2>1. ~InRow(u, i)
      BY DEF Marked
  <2>2. PICK t \in Types : rows'[u][t] # None /\ rows'[u][t].item = i
      BY <1>2 DEF InRow
  <2>3. rows'[u][t] # rows[u][t]
      BY <2>1, <2>2 DEF InRow
  <2>4. PICK r \in Requests : Upsert(r)
      BY <2>2, <2>3, RowFrame
  <2>5. u = request[r].u /\ t = Wanted[request[r].w]
      BY <2>3, <2>4, UpsertRows
  <2>6. rows'[u][t].item = request[r].own.item
      BY <2>4, <2>5, UpsertRows
  <2> QED
      BY <2>2, <2>4, <2>6
<1>3. ASSUME NEW r \in Requests, i \in request'[r].owned \/ i \in request'[r].current
      PROVE  Recording
  <2>1. /\ i \in request'[r].owned =>
              i \in request[r].owned \/ (Upsert(r) /\ i = request[r].own.item)
        /\ i \in request'[r].current =>
              i \in request[r].current \/ \E a \in Accounts : i \in policy[a].enabled
      BY HandsOfAll DEF Hands
  <2> QED
      BY <1>3, <2>1 DEF Marked
<1> QED
    BY <1>1, <1>2, <1>3 DEF Marked

-----------------------------------------------------------------------------
(* A created library is unseen until it is recorded *)

LEMMA NextCreatedIsUnseen ==
  TypeOK /\ ItemsHaveOneName /\ CreatedIsUnseen /\ Step => CreatedIsUnseen'
<1> SUFFICES ASSUME TypeOK, ItemsHaveOneName, CreatedIsUnseen, Step,
                    NEW x \in Requests, request'[x].created, NEW i \in Items, Finds(x, i)',
                    Marked(i)'
             PROVE  FALSE
    BY DEF CreatedIsUnseen
<1>0. RequestsOK
    BY TypesSplit
<1>1. ASSUME NEW a \in Accounts, NEW p \in PolicyType, SetPolicy(a, p) PROVE FALSE
    BY <1>1, PolicyEffect
\* Whoever finds it knows it by its name.
<1>2. ASSUME Finds(x, i)
      PROVE  \A n \in LibraryNames : Bears(i, n) => Seeks(x, n)
  <2> SUFFICES ASSUME NEW n \in LibraryNames, Bears(i, n) PROVE Seeks(x, n)
      OBVIOUS
  <2>1. CASE At(x, "found")
    <3>1. PICK f \in folders : f.name = WantedName(request[x]) /\ f.item = i
        BY <1>2, <2>1 DEF Finds, At
    <3>2. f.name \in LibraryNames /\ Bears(i, f.name)
        BY <3>1 DEF TypeOK, Folder, Bears
    <3> QED
        BY <2>1, <3>1, <3>2 DEF ItemsHaveOneName, Seeks
  <2>2. CASE At(x, "upsert")
    <3>1. request[x].own \in Folder /\ request[x].own.item = i
        BY <1>2, <2>2, OwnTypes DEF Finds, At
    <3>2. request[x].own.name \in LibraryNames /\ Bears(i, request[x].own.name)
        BY <3>1, NoneIsNothing DEF Folder, Bears
    <3> QED
        BY <2>2, <3>2 DEF ItemsHaveOneName, Seeks
  <2> QED
      BY <1>2, <2>1, <2>2 DEF Finds
<1>3. ASSUME request[x].created, Finds(x, i) PROVE FALSE
  <2>1. ~Marked(i)
      BY <1>3 DEF CreatedIsUnseen
  <2>2. PICK r \in Requests : Upsert(r) /\ i = request[r].own.item
      BY <1>1, <2>1, MarkedFrame
  <2>3. Kept(r) # Offered(r)
    <3>1. ASSUME Kept(r) = Offered(r) PROVE InRow(request[r].u, i)
        BY <2>2, <3>1, UpsertRows DEF Kept, InRow
    <3> QED
        BY <2>1, <2>2, <3>1, UpsertRows DEF Marked
  <2>4. CASE x = r
    <3>0. request'[x] = Took(x)
        BY <1>0, <2>2, <2>4, UpsertEffect
    <3>1. request'[x].pc = "next"
        BY <3>0, OwnTypes, TookFacts
    <3> QED
        BY <3>1 DEF Finds, At
  <2>5. CASE x # r
    <3>1. request[r].own \in Folder /\ Offered(r).name = request[r].own.name
        BY <2>2, UpsertRows
    <3>2. Offered(r).name \in LibraryNames /\ Bears(i, Offered(r).name)
        BY <2>2, <3>1, NoneIsNothing DEF Bears, Folder
    <3>3. Seeks(x, Offered(r).name)
        BY <1>2, <1>3, <3>2
    <3>4. (request[x].calm /\ request[x].u # request[r].u) \in BOOLEAN
        OBVIOUS
    <3>5. \E c \in BOOLEAN : request'[x] = Calmed(request[x], c, FALSE)
        BY <1>0, <2>2, <2>3, <2>5, <3>3, <3>4, UpsertEffect
    <3> QED
        BY <3>5, CalmedFacts, OwnTypes
  <2> QED
      BY <2>4, <2>5
<1>4. ASSUME Unmoved(x) PROVE FALSE
  <2>1. request[x].created /\ WantedName(request'[x]) = WantedName(request[x])
      BY <1>4 DEF Unmoved, WantedName
  <2>2. CASE At(x, "upsert")'
      BY <1>3, <1>4, <2>1, <2>2 DEF Finds, At, Unmoved
  <2>3. CASE At(x, "found")'
    <3>1. PICK f \in folders' : f.name = WantedName(request[x]) /\ f.item = i
        BY <2>1, <2>3 DEF Finds, At
    <3>2. CASE f \in folders
        BY <1>3, <1>4, <2>1, <2>3, <3>1, <3>2 DEF Finds, At, Unmoved
    <3>3. CASE f \notin folders
      <4>1. PICK new : NewIn(new)
          BY <3>1, <3>3, FolderFrame
      <4>2. ~Marked(i)
          BY <3>1, <3>3, <4>1 DEF NewIn
      <4>3. \A r \in Requests : ~Upsert(r)
          BY <3>1, <3>3, UpsertRows
      <4> QED
          BY <1>1, <4>2, <4>3, MarkedFrame
    <3> QED
        BY <3>2, <3>3
  <2> QED
      BY <2>2, <2>3 DEF Finds
<1>5. ASSUME StepOf(x) PROVE FALSE
  <2>1. CASE CreateLibrary(x, TRUE)
    <3> DEFINE free == ~(Named(folders, WantedName(request[x])) # {})
    <3>1. request'[x] = [request[x] EXCEPT !.pc = "found", !.created = free]
        BY <1>0, <2>1 DEF CreateLibrary, RequestsOK
    <3>2. request[x] \in RequestType /\ free \in BOOLEAN
        BY OwnTypes
    <3>3. /\ request'[x].pc = "found" /\ free
          /\ WantedName(request'[x]) = WantedName(request[x])
      <4> HIDE DEF free
      <4>1. request'[x].row = request[x].row /\ request'[x].w = request[x].w
          BY <3>1, <3>2 DEF RequestType
      <4>2. request'[x].created = free
          BY <3>1, <3>2 DEF RequestType
      <4>3. request'[x].pc = "found"
          BY <3>1, <3>2 DEF RequestType
      <4> QED
          BY <4>1, <4>2, <4>3, Zenon DEF WantedName
    <3>4. PICK new : NewIn(new)
        BY <2>1, NewLibrary
    <3>5. PICK f \in folders' : f.name = WantedName(request[x]) /\ f.item = i
        BY <3>3 DEF Finds, At
    <3>6. f \notin folders
        BY <3>3, <3>5 DEF Named
    <3>7. ~Marked(i)
        BY <3>4, <3>5, <3>6 DEF NewIn
    <3>8. \A r \in Requests : ~Upsert(r)
        BY <3>5, <3>6, UpsertRows
    <3> QED
        BY <1>1, <3>7, <3>8, MarkedFrame
  <2>2. CASE FindLibrary(x)
    <3>1. \E f : request'[x] = [request[x] EXCEPT !.pc = "upsert", !.own = f, !.created = FALSE]
        BY <1>0, <2>2 DEF FindLibrary, RequestsOK
    <3> QED
        BY <3>1, OwnTypes DEF RequestType
  <2>3. CASE ReadCreated(x)
    <3>1. request'[x].pc = "upsert" =>
            \E f \in Named(folders, WantedName(request[x])) :
                request'[x] = [request[x] EXCEPT !.pc = "upsert", !.own = f]
      <4>1. \/ request'[x] = [request[x] EXCEPT !.pc = "next", !.created = FALSE]
            \/ \E f \in Named(folders, WantedName(request[x])) :
                  request'[x] = [request[x] EXCEPT !.pc = "upsert", !.own = f]
          BY <1>0, <2>3 DEF ReadCreated, RequestsOK
      <4> QED
          BY <4>1, OwnTypes DEF RequestType
    <3>2. At(x, "upsert")' /\ request'[x].own.item = i
      <4>1. request'[x].pc # "found"
          BY <1>5, <2>3, TurnsOf DEF Turns, CreateLibrary, ReadCreated, At
      <4> QED
          BY <4>1 DEF Finds, At
    <3>3. PICK f \in folders :
            /\ f.name = WantedName(request[x])
            /\ request'[x] = [request[x] EXCEPT !.pc = "upsert", !.own = f]
        BY <3>1, <3>2 DEF Named, At
    <3>4. request[x].created /\ f.item = i
        BY <3>2, <3>3, OwnTypes DEF RequestType
    <3> QED
        BY <1>3, <2>3, <3>3, <3>4 DEF ReadCreated, Finds
  <2> QED
      BY <1>5, <2>1, <2>2, <2>3, TurnsOf DEF Turns, Finds, At
<1> QED
    BY <1>0, <1>4, <1>5, OthersAreUnmoved, OutsideAllAreUnmoved DEF Step

-----------------------------------------------------------------------------
(* What an undisturbed request lets through harms nobody *)

LEMMA InRowFrame ==
  ASSUME TypeOK, Step, NEW u \in Users, NEW i, InRow(u, i)', ~InRow(u, i)
  PROVE  \E r \in Requests : Upsert(r) /\ u = request[r].u /\ i = request[r].own.item
<1>1. PICK t \in Types : rows'[u][t] # None /\ rows'[u][t].item = i
    BY DEF InRow
<1>2. rows'[u][t] # rows[u][t]
    BY <1>1 DEF InRow
<1>3. PICK r \in Requests : Upsert(r)
    BY <1>1, <1>2, RowFrame
<1>4. u = request[r].u /\ t = Wanted[request[r].w]
    BY <1>2, <1>3, UpsertRows
<1>5. rows'[u][t].item = request[r].own.item
    BY <1>3, <1>4, UpsertRows
<1> QED
    BY <1>1, <1>3, <1>4, <1>5
\* An upsert of what the row already says changes no row; a created library is in nobody's view.
LEMMA UpsertOf ==
  ASSUME TypeOK, CreatedIsUnseen, NEW r \in Requests, Upsert(r)
  PROVE  /\ Kept(r) = Offered(r) => \A v \in Users : \A i : InRow(v, i)' <=> InRow(v, i)
         /\ \A v \in Users \ {request[r].u} : \A i : InRow(v, i)' <=> InRow(v, i)
         /\ request[r].created => ~Marked(request[r].own.item)
         /\ request[r].own.item \in Items
<1> DEFINE u == request[r].u
           t == Wanted[request[r].w]
<1>1. /\ rows'[u][t] = Offered(r)
      /\ \A v \in Users, s \in Types : v # u \/ s # t => rows'[v][s] = rows[v][s]
      /\ request[r].own \in Folder
    BY UpsertRows
<1>2. ASSUME Kept(r) = Offered(r), NEW v \in Users, NEW i PROVE InRow(v, i)' <=> InRow(v, i)
  <2>1. \A s \in Types : rows'[v][s] = rows[v][s]
      BY <1>1, <1>2 DEF Kept
  <2> QED
      BY <2>1 DEF InRow
<1>3. ASSUME NEW v \in Users \ {request[r].u}, NEW i PROVE InRow(v, i)' <=> InRow(v, i)
  <2>1. \A s \in Types : rows'[v][s] = rows[v][s]
      BY <1>1
  <2> QED
      BY <2>1 DEF InRow
<1>4. request[r].own.item \in Items
    BY <1>1 DEF Folder
<1>5. Finds(r, request[r].own.item)
    BY DEF Upsert, Finds
<1> QED
    BY <1>2, <1>3, <1>4, <1>5 DEF CreatedIsUnseen

LEMMA NextCalmIsHarmless ==
  TypeOK /\ CreatedIsUnseen /\ CalmIsHarmless /\ Step => CalmIsHarmless'
<1> SUFFICES ASSUME TypeOK, CreatedIsUnseen, CalmIsHarmless, Step,
                    NEW x \in Requests, request'[x].calm
             PROVE  /\ At(x, "current")' =>
                          \A i \in policy'[request'[x].row.username].enabled,
                             v \in Users \ {request'[x].u} :
                              InRow(v, i)' => i \in request'[x].others
                    /\ At(x, "lock")' \/ At(x, "post")' =>
                          \A i \in request'[x].current, v \in Users \ {request'[x].u} :
                              InRow(v, i)' => i \in request'[x].others
    BY DEF CalmIsHarmless, Harmless
<1> DEFINE a == request[x].row.username
           Fine(S) == \A i \in S, v \in Users \ {request'[x].u} :
                          InRow(v, i)' => i \in request'[x].others
<1>0. RequestsOK
    BY TypesSplit
<1>1. ASSUME StepOf(x), At(x, "current")'
      PROVE  Fine(policy'[request'[x].row.username].enabled)
  <2>1. ReadOthers(x)
      BY <1>1, TurnsOf DEF Turns, At
  <2>2. request'[x] = [request[x] EXCEPT !.pc = "current", !.calm = TRUE,
                                          !.others = ItemsExcluding(request[x].u)]
      BY <1>0, <2>1 DEF ReadOthers, RequestsOK
  <2>3. request'[x].u = request[x].u /\ request'[x].others = ItemsExcluding(request[x].u)
      BY <2>2, OwnTypes DEF RequestType
  <2>4. rows' = rows
      BY <2>1 DEF ReadOthers
  <2> QED
      BY <2>3, <2>4, Owned DEF ItemsExcluding, InRow
<1>2. ASSUME StepOf(x), At(x, "lock")'
      PROVE  Fine(request'[x].current)
  <2>1. PICK b \in BOOLEAN : ReadCurrent(x, b)
      BY <1>2, TurnsOf DEF Turns, At
  <2> DEFINE S == IF b THEN policy[a].enabled ELSE {}
  <2>2. request'[x] = [request[x] EXCEPT !.pc = "lock", !.current = S]
      BY <1>0, <2>1 DEF ReadCurrent, RequestsOK
  <2>3. S \subseteq policy[a].enabled
      OBVIOUS
  <2>4. /\ request'[x].u = request[x].u /\ request'[x].others = request[x].others
        /\ request'[x].calm = request[x].calm /\ request'[x].current = S
    <3> HIDE DEF S, a
    <3>1. request[x] \in RequestType
        BY OwnTypes
    <3> QED
        BY <2>2, <3>1 DEF RequestType
  <2>5. rows' = rows /\ At(x, "current")
      BY <2>1 DEF ReadCurrent
  <2>6. Harmless(request[x], policy[a].enabled)
      BY <2>4, <2>5 DEF CalmIsHarmless
  <2> HIDE DEF S, a
  <2> QED
      BY <2>3, <2>4, <2>5, <2>6 DEF Harmless, InRow
<1>7. ASSUME StepOf(x), At(x, "post")'
      PROVE  Fine(request'[x].current)
  <2>1. ReadPolicy(x)
      BY <1>7, TurnsOf DEF Turns, At
  <2>2. /\ request'[x].u = request[x].u /\ request'[x].others = request[x].others
        /\ request'[x].calm = request[x].calm /\ request'[x].current = request[x].current
        /\ At(x, "lock")
      BY <2>1, ReadPolicyEffect, TypesSplit DEF At
  <2>3. rows' = rows
      BY <2>1 DEF ReadPolicy
  <2>4. Harmless(request[x], request[x].current)
      BY <2>2 DEF CalmIsHarmless
  <2> QED
      BY <2>2, <2>3, <2>4 DEF Harmless, InRow
\* What others do to the rows and the policy leaves a calm request's knowledge true.
<1>3. ASSUME Unmoved(x), NEW S, Harmless(request[x], S), \A i \in S : Marked(i)
      PROVE  Fine(S)
  <2> SUFFICES ASSUME NEW i \in S, NEW v \in Users, v # request[x].u, InRow(v, i)', ~InRow(v, i)
               PROVE  FALSE
      BY <1>3 DEF Unmoved, Harmless
  <2>1. PICK r \in Requests : Upsert(r) /\ v = request[r].u /\ i = request[r].own.item
      BY InRowFrame
  <2>2. Kept(r) # Offered(r)
      BY <2>1, UpsertOf
  <2>3. CASE request[r].created
      BY <1>3, <2>1, <2>3, UpsertOf
  <2>4. CASE ~request[r].created /\ x # r
    <3>1. request'[x] = Calmed(request[x], FALSE, FALSE)
        BY <1>0, <2>1, <2>2, <2>4, UpsertEffect
    <3> QED
        BY <3>1, OwnTypes, CalmedFacts
  <2>5. CASE x = r
      BY <2>1, <2>5
  <2> QED
      BY <2>3, <2>4, <2>5
<1>4. ASSUME Unmoved(x), At(x, "current")'
      PROVE  Harmless(request[x], policy[a].enabled) /\ policy'[a] = policy[a] /\ a \in Accounts
  <2>1. At(x, "current") /\ request[x].calm
      BY <1>4 DEF Unmoved, At
  <2>2. a \in Accounts
      BY <2>1, OwnTypes DEF At, Steps
  <2>3. ASSUME NEW r \in Requests, SetUserLibraryAccess(r) PROVE policy'[a] = policy[a]
    <3>1. CASE a # request[r].row.username
        BY <2>2, <2>3, <3>1, AccessEffect
    <3>2. CASE a = request[r].row.username
      <4>1. x # r
          BY <2>1, <2>3 DEF SetUserLibraryAccess, At
      <4>2. Provisioning(x)
          BY <2>1 DEF Provisioning, At
      <4>3. request'[x] = [request[x] EXCEPT !.calm = FALSE]
          BY <2>3, <3>2, <4>1, <4>2 DEF SetUserLibraryAccess
      <4> QED
          BY <4>3, OwnTypes DEF RequestType
    <3> QED
        BY <3>1, <3>2
  <2>4. ASSUME NEW b \in Accounts, NEW p \in PolicyType, SetPolicy(b, p) PROVE FALSE
      BY <2>4, PolicyEffect
  <2>5. policy'[a] = policy[a]
    <3>1. CASE policy' = policy
        BY <3>1
    <3> QED
        BY <2>3, <2>4, <3>1, PolicyFrame
  <2> QED
      BY <2>1, <2>2, <2>5 DEF CalmIsHarmless
<1>5. CASE StepOf(x)
    BY <1>1, <1>2, <1>5, <1>7
<1>6. CASE Unmoved(x)
  <2>1. ASSUME At(x, "current")' PROVE Fine(policy'[request'[x].row.username].enabled)
    <3>1. \A i \in policy[a].enabled : Marked(i)
        BY <1>4, <1>6, <2>1 DEF Marked
    <3>2. Fine(policy[a].enabled)
        BY <1>3, <1>4, <1>6, <2>1, <3>1
    <3>3. policy'[request'[x].row.username].enabled = policy[a].enabled
        BY <1>4, <1>6, <2>1 DEF Unmoved
    <3> QED
        BY <3>2, <3>3
  <2>2. ASSUME At(x, "lock")' \/ At(x, "post")' PROVE Fine(request'[x].current)
    <3>1. /\ At(x, "lock") \/ At(x, "post")
          /\ request[x].calm /\ request'[x].current = request[x].current
        BY <1>6, <2>2 DEF Unmoved, At
    <3>2. Harmless(request[x], request[x].current)
        BY <3>1 DEF CalmIsHarmless
    <3>3. \A i \in request[x].current : Marked(i)
        BY DEF Marked
    <3>4. Fine(request[x].current)
        BY <1>3, <1>6, <3>2, <3>3
    <3> QED
        BY <3>1, <3>4
  <2> QED
      BY <2>1, <2>2
<1> QED
    BY <1>0, <1>5, <1>6, OthersAreUnmoved, OutsideAllAreUnmoved DEF Step

-----------------------------------------------------------------------------
(* A settled account sees its user's libraries and nobody else's *)

\* Who is there: somebody arrives, or leaves with their rows, or nothing changes for them but
\* their names and their link.
LEMMA PeopleFrame ==
  ASSUME TypeOK, Step, NEW u \in Users
  PROVE  \/ /\ There(u)' <=> There(u)
            /\ u \in gone' <=> u \in gone
         \/ There(u)' /\ ~There(u) /\ u \notin gone /\ gone' = gone /\ rows' = rows
         \/ /\ \E r \in Requests : Delete(r) /\ request[r].u = u
            /\ ~There(u)' /\ u \in gone' /\ \A t \in Types : rows'[u][t] = None
<1> DEFINE Same == (There(u)' <=> There(u)) /\ (u \in gone' <=> u \in gone)
           Joined == There(u)' /\ ~There(u) /\ u \notin gone /\ gone' = gone /\ rows' = rows
           Left == /\ \E r \in Requests : Delete(r) /\ request[r].u = u
                   /\ ~There(u)' /\ u \in gone' /\ \A t \in Types : rows'[u][t] = None
<1>0. users \in [Users -> UserRow \cup {None}] /\ None \notin UserRow
    BY NoneIsNothing DEF TypeOK
<1>1. CASE StepOutside
  <2>1. ASSUME NEW v \in Users, NEW n \in Names, NEW a \in Accounts, Patch(v, n, a) PROVE Same
    <3>1. /\ There(v) /\ gone' = gone
          /\ users' = [users EXCEPT ![v] = [users[v] EXCEPT !.name = n, !.username = a]]
        BY <1>0, <2>1 DEF Patch, There, UserRow
    <3>2. users[v] \in UserRow
        BY <1>0, <3>1 DEF There
    <3>3. [users[v] EXCEPT !.name = n, !.username = a] # None
        BY <1>0, <3>2 DEF UserRow
    <3> QED
        BY <1>0, <3>1, <3>3 DEF There
  <2>2. ASSUME UNCHANGED <<users, gone>> PROVE Same
      BY <2>2 DEF There
  <2> QED
      BY <1>1, <2>1, <2>2 DEF StepOutside, AddFolder, RemoveFolder, SetPolicy
<1>2. ASSUME NEW r \in Requests, StepOf(r) PROVE Same \/ Joined \/ Left
  <2>1. ASSUME NEW v \in Users, NEW n \in Names, NEW a \in Accounts, Create(r, v, n, a)
        PROVE  Same \/ Joined
    <3>1. /\ users' = [users EXCEPT ![v] = [name |-> n, username |-> a, link |-> a]]
          /\ ~There(v) /\ v \notin gone /\ gone' = gone /\ rows' = rows
        BY <2>1 DEF Create
    <3>2. [name |-> n, username |-> a, link |-> a] \in UserRow
        BY DEF UserRow
    <3>3. v = u => users'[u] \in UserRow
        BY <1>0, <3>1, <3>2
    <3>4. v # u => users'[u] = users[u]
        BY <1>0, <3>1
    <3> QED
        BY <1>0, <3>1, <3>3, <3>4 DEF There
  <2>2. CASE Resolve(r)
    <3>1. /\ gone' = gone
          /\ \/ users' = users
             \/ /\ There(request[r].u)
                /\ users' = [users EXCEPT ![request[r].u] =
                                [users[request[r].u] EXCEPT !.link = request[r].row.username]]
        BY <1>0, <2>2 DEF Resolve, There, UserRow
    <3>2. CASE users' = users
        BY <3>1, <3>2 DEF There
    <3>3. ASSUME There(request[r].u),
                 users' = [users EXCEPT ![request[r].u] =
                                [users[request[r].u] EXCEPT !.link = request[r].row.username]]
          PROVE  Same
      <4> DEFINE row == [users[request[r].u] EXCEPT !.link = request[r].row.username]
      <4>1. request[r].u \in Users
          BY <2>2, OwnTypes DEF Resolve, At, Steps
      <4>2. users[request[r].u] \in UserRow
          BY <1>0, <3>3, <4>1 DEF There
      <4>3. request[r].row.username \in Accounts
          BY <2>2, OwnTypes DEF Resolve, At, Steps
      <4>4. row # None
          BY <1>0, <4>2, <4>3 DEF UserRow
      <4>5. users' = [users EXCEPT ![request[r].u] = row]
          BY <3>3
      <4> HIDE DEF row
      <4> QED
          BY <1>0, <3>1, <3>3, <4>1, <4>4, <4>5 DEF There
    <3> QED
        BY <3>1, <3>2, <3>3
  <2>3. CASE Delete(r)
    <3>1. request[r].u \in Users
        BY <2>3 DEF Delete, At, TypeOK, RequestOK
    <3>2. /\ users' = [users EXCEPT ![request[r].u] = None]
          /\ gone' = gone \cup {request[r].u}
          /\ rows' = [rows EXCEPT ![request[r].u] = NoRows]
        BY <2>3 DEF Delete
    <3>3. CASE request[r].u = u
      <4>1. rows'[u] = NoRows
          BY <3>2, <3>3 DEF TypeOK
      <4> QED
          BY <1>0, <2>3, <3>2, <3>3, <4>1 DEF There, NoRows
    <3>4. CASE request[r].u # u
        BY <1>0, <3>2, <3>4 DEF There
    <3> QED
        BY <3>3, <3>4
  <2>4. ASSUME UNCHANGED <<users, gone>> PROVE Same
      BY <2>4 DEF There
  <2> QED
      BY <1>2, <2>1, <2>2, <2>3, <2>4 DEF StepOf, Provision, StartDelete, Enforce,
         ListFolders, FindLibrary, CreateLibrary, ReadCreated, Upsert, UpsertRefused, NextLibrary,
         ReadOthers, ReadCurrent, ReadPolicy, SetUserLibraryAccess, Throws, RemoveLibrary
<1> QED
    BY <1>1, <1>2 DEF Step

\* What leaves a settled user private.
Undisturbed(u) ==
  /\ u \in settled /\ There(u)' /\ users'[u].link = users[u].link
  /\ policy'[users[u].link] = policy[users[u].link]
  /\ \A i : InRow(u, i)' <=> InRow(u, i)
  /\ \A v \in Users : \A i : InRow(v, i)' => InRow(v, i) \/ i \notin policy[users[u].link].enabled
LEMMA UndisturbedIsPrivate ==
  ASSUME SettledArePrivate, NEW u \in Users, Undisturbed(u)
  PROVE  There(u)' /\ Private(u)'
<1>1. Private(u)
    BY DEF Undisturbed, SettledArePrivate
<1>2. (users[u].link)' = users[u].link
    BY DEF Undisturbed
<1> QED
    BY <1>1, <1>2 DEF Undisturbed, Private

LEMMA NextSettledArePrivate ==
  /\ TypeOK /\ ItemsHaveOneName /\ NamesHaveOneRow /\ CreatedIsUnseen /\ CalmIsHarmless
  /\ SettledArePrivate /\ Step
  => SettledArePrivate'
<1> SUFFICES ASSUME TypeOK, ItemsHaveOneName, NamesHaveOneRow, CreatedIsUnseen, CalmIsHarmless,
                    SettledArePrivate, Step
             PROVE  SettledArePrivate'
    OBVIOUS
<1> SUFFICES ASSUME NEW u \in Users, u \in settled' PROVE There(u)' /\ Private(u)'
  <2>1. settled' \subseteq Users
      BY NextHistory DEF HistoryOK
  <2> QED
      BY <2>1 DEF SettledArePrivate
<1>0. users \in [Users -> UserRow \cup {None}] /\ None \notin UserRow
    BY NoneIsNothing DEF TypeOK
<1>1. u \in settled => There(u) /\ users[u] \in UserRow /\ users[u].link \in Accounts
    BY <1>0 DEF SettledArePrivate, There, UserRow
<1> DEFINE link == users[u].link
\* Two users never have one library.
<1>2. ASSUME NEW v \in Users, NEW i, InRow(u, i), InRow(v, i) PROVE u = v
  <2>1. PICK s \in Types, t \in Types :
          /\ rows[u][s] # None /\ rows[u][s].item = i
          /\ rows[v][t] # None /\ rows[v][t].item = i
      BY <1>2 DEF InRow
  <2>2. /\ Bears(i, rows[u][s].name) /\ Bears(i, rows[v][t].name)
        /\ i \in Items /\ rows[u][s].name \in LibraryNames /\ rows[v][t].name \in LibraryNames
      BY <2>1 DEF Bears, TypeOK, LibraryRow
  <2>3. rows[u][s].name = rows[v][t].name
      BY <2>2 DEF ItemsHaveOneName
  <2> QED
      BY <2>1, <2>3 DEF NamesHaveOneRow
<1>3. ASSUME settled' \subseteq settled, users'[u] = users[u], policy' = policy, rows' = rows
      PROVE  There(u)' /\ Private(u)'
  <2>1. Undisturbed(u)
      BY <1>1, <1>3 DEF Undisturbed, There, InRow
  <2> QED
      BY <2>1, UndisturbedIsPrivate
<1>4. CASE StepOutside
  <2>1. ASSUME NEW v \in Users, NEW n \in Names, NEW a \in Accounts, Patch(v, n, a)
        PROVE  There(u)' /\ Private(u)'
    <3>1. /\ There(v) /\ settled' = settled /\ policy' = policy /\ rows' = rows
          /\ users' = [users EXCEPT ![v] = [users[v] EXCEPT !.name = n, !.username = a]]
        BY <1>0, <2>1 DEF Patch, There, UserRow
    <3>2. CASE v # u
        BY <1>0, <1>3, <3>1, <3>2
    <3>3. CASE v = u
      <4>1. users'[u] = [users[u] EXCEPT !.name = n, !.username = a] /\ users[u] \in UserRow
          BY <1>0, <3>1, <3>3 DEF There
      <4>2. users'[u] \in UserRow /\ users'[u].link = link
          BY <4>1 DEF UserRow
      <4>3. Undisturbed(u)
          BY <1>0, <3>1, <4>2 DEF Undisturbed, There, InRow
      <4> QED
          BY <4>3, UndisturbedIsPrivate
    <3> QED
        BY <3>2, <3>3
  <2>2. ASSUME NEW a \in Accounts, NEW p \in PolicyType, SetPolicy(a, p)
        PROVE  There(u)' /\ Private(u)'
    <3>1. /\ settled' = settled \ {v \in Users : There(v) /\ users[v].link = a}
          /\ users' = users /\ rows' = rows
          /\ \A b \in Accounts : b # a => policy'[b] = policy[b]
        BY <2>2, PolicyEffect
    <3>2. u \in settled /\ link # a /\ link \in Accounts
        BY <1>1, <3>1
    <3>3. Undisturbed(u)
        BY <1>1, <3>1, <3>2 DEF Undisturbed, There, InRow
    <3> QED
        BY <3>3, UndisturbedIsPrivate
  <2> QED
      BY <1>3, <1>4, <2>1, <2>2 DEF StepOutside, AddFolder, RemoveFolder
<1>5. ASSUME NEW r \in Requests, StepOf(r) PROVE There(u)' /\ Private(u)'
  <2>1. ASSUME NEW v \in Users, NEW n \in Names, NEW a \in Accounts, Create(r, v, n, a)
        PROVE  There(u)' /\ Private(u)'
    <3>1. /\ users' = [users EXCEPT ![v] = [name |-> n, username |-> a, link |-> a]] /\ ~There(v)
          /\ settled' = settled /\ policy' = policy /\ rows' = rows
        BY <2>1 DEF Create
    <3> QED
        BY <1>0, <1>1, <1>3, <3>1
  <2>2. CASE Resolve(r)
    <3>1. /\ settled' \subseteq settled /\ policy' = policy /\ rows' = rows
          /\ users'[u] = users[u]
      <4>1. CASE UNCHANGED <<users, settled>>
          BY <2>2, <4>1 DEF Resolve
      <4>2. CASE /\ users' = [users EXCEPT ![request[r].u].link = request[r].row.username]
                 /\ settled' = settled \ {request[r].u}
          BY <1>0, <2>2, <4>2 DEF Resolve
      <4> QED
          BY <2>2, <4>1, <4>2 DEF Resolve
    <3> QED
        BY <1>3, <3>1
  <2>3. CASE Upsert(r)
    <3>1. u \in settled /\ (Kept(r) # Offered(r) => request[r].created /\ u # request[r].u)
        BY <2>3 DEF Upsert, Kept, Offered
    <3>2. users' = users /\ policy' = policy
        BY <2>3 DEF Upsert
    <3>3. \A i : InRow(u, i)' <=> InRow(u, i)
        BY <2>3, <3>1, UpsertOf
    <3>4. ASSUME NEW v \in Users, NEW i, InRow(v, i)', ~InRow(v,
    i) PROVE i \notin policy[link].enabled
      <4>1. Kept(r) # Offered(r)
          BY <2>3, <3>4, UpsertOf
      <4>2. PICK p \in Requests : Upsert(p) /\ v = request[p].u /\ i = request[p].own.item
          BY <3>4, InRowFrame
      <4>3. PICK t \in Types :
              rows'[v][t] # None /\ rows'[v][t].item = i /\ rows'[v][t] # rows[v][t]
          BY <3>4 DEF InRow
      <4>4. i = request[r].own.item
        <5>1. v = request[r].u /\ t = Wanted[request[r].w]
            BY <2>3, <4>3, UpsertRows
        <5> QED
            BY <2>3, <4>3, <5>1, UpsertRows
      <4>5. ~Marked(i)
          BY <2>3, <3>1, <4>1, <4>4, UpsertOf
      <4> QED
          BY <1>1, <3>1, <4>5 DEF Marked
    <3>5. Undisturbed(u)
        BY <1>1, <3>1, <3>2, <3>3, <3>4 DEF Undisturbed, There
    <3> QED
        BY <3>5, UndisturbedIsPrivate
  <2>4. CASE SetUserLibraryAccess(r)
    <3> DEFINE q == request[r]
               a == request[r].row.username
    <3>1. /\ a \in Accounts /\ ~policy'[a].all /\ policy'[a].admin = q.admin
          /\ policy'[a].enabled = q.owned \cup (q.current \ q.others)
          /\ \A b \in Accounts : b # a => policy'[b] = policy[b]
          /\ users' = users /\ rows' = rows
        BY <2>4, AccessEffect
    <3>2. \/ u \in settled /\ ~(There(u) /\ link = a)
          \/ /\ There(u) /\ link = a /\ u = q.u /\ q.calm /\ ~q.admin
             /\ q.owned = ItemsOf(u)
        BY <2>4 DEF SetUserLibraryAccess
    <3>3. CASE u \in settled /\ ~(There(u) /\ link = a)
      <4>1. Undisturbed(u)
          BY <1>1, <3>1, <3>3 DEF Undisturbed, There, InRow
      <4> QED
          BY <4>1, UndisturbedIsPrivate
    <3>4. CASE /\ There(u) /\ link = a /\ u = q.u /\ q.calm /\ ~q.admin
               /\ q.owned = ItemsOf(u)
      <4>1. Harmless(q, q.current)
          BY <2>4, <3>4 DEF SetUserLibraryAccess, CalmIsHarmless
      <4>2. ASSUME NEW i \in policy'[a].enabled, NEW v \in Users \ {u} PROVE ~InRow(v, i)
        <5>1. CASE i \in q.owned
            BY <1>2, <3>4, <4>2, <5>1, Owned
        <5>2. CASE i \in q.current \ q.others
            BY <3>4, <4>1, <4>2, <5>2 DEF Harmless
        <5> QED
            BY <3>1, <4>2, <5>1, <5>2
      <4>3. \A i \in Items : InRow(u, i) => i \in policy'[a].enabled
          BY <3>1, <3>4, Owned
      <4>4. users'[u].link = a
          BY <3>1, <3>4
      <4> HIDE DEF q, a, link
      <4> QED
          BY <3>1, <3>4, <4>2, <4>3, <4>4 DEF Private, There, InRow
    <3> QED
        BY <3>2, <3>3, <3>4
  <2>5. CASE Delete(r)
    <3>1. request[r].u \in Users
        BY <2>5 DEF Delete, At, TypeOK, RequestOK
    <3>2. /\ users' = [users EXCEPT ![request[r].u] = None]
          /\ rows' = [rows EXCEPT ![request[r].u] = NoRows]
          /\ policy' = policy /\ settled' = settled \ {request[r].u}
        BY <2>5 DEF Delete
    <3>3. u # request[r].u /\ u \in settled /\ users'[u] = users[u] /\ rows'[u] = rows[u]
        BY <1>0, <3>2 DEF TypeOK
    <3>4. \A v \in Users : \A i : InRow(v, i)' => InRow(v, i)
      <4>1. \A v \in Users : rows'[v] = NoRows \/ rows'[v] = rows[v]
          BY <3>2 DEF TypeOK
      <4> QED
          BY <4>1 DEF InRow, NoRows
    <3>5. Undisturbed(u)
        BY <1>1, <3>2, <3>3, <3>4 DEF Undisturbed, There, InRow
    <3> QED
        BY <3>5, UndisturbedIsPrivate
  <2> QED
      BY <1>3, <1>5, <2>1, <2>2, <2>3, <2>4, <2>5 DEF StepOf, Provision, StartDelete, Enforce,
         ListFolders, FindLibrary, CreateLibrary, ReadCreated, UpsertRefused, NextLibrary,
         ReadOthers, ReadCurrent, ReadPolicy, Throws, RemoveLibrary
<1> QED
    BY <1>4, <1>5 DEF Step

-----------------------------------------------------------------------------
(* The family's library stays in view *)

LEMMA NextFamilyIsNobodys == TypeOK /\ FamilyIsNobodys /\ Step => FamilyIsNobodys'
<1> SUFFICES ASSUME TypeOK, FamilyIsNobodys, Step PROVE FamilyIsNobodys'
    OBVIOUS
<1>0. RequestsOK
    BY TypesSplit
<1>1. FamilyIsNobodys
    OBVIOUS
<1>2. \A r \in Requests : Upsert(r) => request[r].own.item # Family
    BY UpsertRows, NoneIsNothing DEF FamilyIsNobodys
<1>3. \A f \in folders' : Shared(f)
  <2>1. ASSUME NEW new, NewIn(new) PROVE new.item # Family /\ folders' = folders \cup {new}
      BY <2>1 DEF NewIn
  <2> QED
      BY <1>1, <2>1, FolderFrame DEF FamilyIsNobodys, Shared
<1>4. \A u \in Users : ~InRow(u, Family)'
    BY <1>1, <1>2, InRowFrame DEF FamilyIsNobodys
<1>5. ASSUME NEW x \in Requests
      PROVE  /\ \A f \in request'[x].snap : Shared(f)
             /\ request'[x].own # None => request'[x].own.item # Family
             /\ Family \notin request'[x].others /\ Family \notin request'[x].owned
  <2>1. /\ \A f \in request'[x].snap : Shared(f)
        /\ Family \notin request'[x].owned
      BY <1>1, <1>2, HandsOfAll DEF Hands, FamilyIsNobodys
  <2>2. CASE Unmoved(x)
      BY <1>1, <2>1, <2>2 DEF Unmoved, FamilyIsNobodys
  <2>3. CASE StepOf(x)
    <3>1. ASSUME FindLibrary(x) \/ ReadCreated(x)
          PROVE  request'[x].own # None => request'[x].own.item # Family
      <4>1. /\ request[x].u \in Users /\ request[x].row \in UserRow
            /\ request[x].w \in 1 .. Len(Wanted)
          BY <3>1, OwnTypes DEF FindLibrary, ReadCreated, At, Steps
      <4>2. /\ WantedName(request[x]) # LibraryName(None, None)
            /\ WantedDir(request[x]) # SharedDir
          BY <4>1, Asked
      <4>3. CASE FindLibrary(x)
        <5>1. PICK f \in request[x].snap :
                /\ f.name = WantedName(request[x]) \/ f.dir = WantedDir(request[x])
                /\ request' = [request EXCEPT ![x].pc = "upsert", ![x].own = f,
                                          ![x].created = FALSE]
            BY <4>3 DEF FindLibrary, Named, At_
        <5>2. f.item # Family
            BY <1>1, <4>2, <5>1 DEF FamilyIsNobodys, Shared
        <5>3. request'[x] = [request[x] EXCEPT !.pc = "upsert", !.own = f, !.created = FALSE]
            BY <1>0, <5>1 DEF RequestsOK
        <5>4. request'[x].own = f
            BY <5>3, OwnTypes DEF RequestType
        <5> QED
            BY <5>2, <5>4
      <4>4. CASE ReadCreated(x)
        <5>1. \/ request'[x] = [request[x] EXCEPT !.pc = "next", !.created = FALSE]
              \/ \E f \in folders :
                    /\ f.name = WantedName(request[x])
                    /\ request'[x] = [request[x] EXCEPT !.pc = "upsert", !.own = f]
            BY <1>0, <4>4 DEF ReadCreated, RequestsOK, Named
        <5>2. \/ request'[x].own = request[x].own
              \/ \E f \in folders : f.name = WantedName(request[x]) /\ request'[x].own = f
            BY <5>1, OwnTypes DEF RequestType
        <5> QED
            BY <1>1, <4>2, <5>2 DEF FamilyIsNobodys, Shared
      <4> QED
          BY <3>1, <4>3, <4>4
    <3>2. request'[x].own # None => request'[x].own.item # Family
        BY <1>1, <2>3, <3>1, TurnsOf DEF Turns, FamilyIsNobodys
    <3>3. ASSUME ReadOthers(x) PROVE Family \notin request'[x].others
      <4>1. request'[x] = [request[x] EXCEPT !.pc = "current", !.calm = TRUE,
                                              !.others = ItemsExcluding(request[x].u)]
          BY <1>0, <3>3 DEF ReadOthers, RequestsOK
      <4>2. request'[x].others = ItemsExcluding(request[x].u)
          BY <4>1, OwnTypes DEF RequestType
      <4> QED
          BY <1>1, <4>2, Owned DEF ItemsExcluding, FamilyIsNobodys
    <3>4. Family \notin request'[x].others
        BY <1>1, <2>3, <3>3, TurnsOf DEF Turns, FamilyIsNobodys
    <3> QED
        BY <2>1, <3>2, <3>4
  <2> QED
      BY <1>0, <2>2, <2>3, OthersAreUnmoved, OutsideAllAreUnmoved DEF Step
<1> QED
    BY <1>3, <1>4, <1>5 DEF FamilyIsNobodys, Shared

\* Who is known to see what changes when Jellyfin does not answer, or at an administrator's hand.
LEMMA BlindFrame ==
  ASSUME TypeOK, Step
  PROVE  \/ shared' = shared /\ blind \subseteq blind'
         \/ \E a \in Accounts, p \in PolicyType : SetPolicy(a, p)
<1>1. CASE StepOutside
    BY <1>1 DEF StepOutside, Patch, AddFolder, RemoveFolder
<1>2. ASSUME NEW r \in Requests, StepOf(r) PROVE shared' = shared /\ blind \subseteq blind'
    BY <1>2 DEF StepOf, Create, Provision, StartDelete, Enforce, Resolve, ListFolders,
       FindLibrary, CreateLibrary, ReadCreated, Upsert, UpsertRefused, NextLibrary, ReadOthers,
       ReadCurrent, ReadPolicy, SetUserLibraryAccess, Throws, RemoveLibrary, Delete
<1> QED
    BY <1>1, <1>2 DEF Step

\* A request comes to lock an account down by asking what it sees, and goes on doing so.
LEMMA LockingFrame ==
  ASSUME TypeOK, Step, NEW x \in Requests, NEW a \in Accounts, LockingDown(x, a)'
  PROVE  \/ LockingDown(x, a) /\ request'[x].current = request[x].current
         \/ /\ ReadCurrent(x, TRUE) /\ policy' = policy
            /\ request'[x].current = policy[a].enabled
         \/ ReadCurrent(x, FALSE) /\ a \in blind'
<1>0. RequestsOK /\ request[x] \in RequestType
    BY TypesSplit, OwnTypes
<1>1. CASE Unmoved(x)
    BY <1>1 DEF Unmoved, LockingDown, At
<1>2. CASE StepOf(x)
  <2>1. ReadPolicy(x) \/ \E b \in BOOLEAN : ReadCurrent(x, b)
      BY <1>2, TurnsOf DEF Turns, LockingDown, At
  <2>2. ASSUME ReadPolicy(x)
        PROVE  LockingDown(x, a) /\ request'[x].current = request[x].current
      BY <2>2, ReadPolicyEffect, TypesSplit DEF LockingDown, At
  <2>3. CASE ReadCurrent(x, TRUE)
    <3>1. request'[x] = [request[x] EXCEPT !.pc = "lock",
                                      !.current = policy[request[x].row.username].enabled]
        BY <1>0, <2>3 DEF ReadCurrent, RequestsOK
    <3>2. /\ request'[x].row = request[x].row
          /\ request'[x].current = policy[request[x].row.username].enabled
        BY <1>0, <3>1 DEF RequestType
    <3> QED
        BY <2>3, <3>2 DEF LockingDown, ReadCurrent
  <2>4. CASE ReadCurrent(x, FALSE)
    <3>1. request'[x] = [request[x] EXCEPT !.pc = "lock", !.current = {}]
        BY <1>0, <2>4 DEF ReadCurrent, RequestsOK
    <3>2. request'[x].row = request[x].row
        BY <1>0, <3>1 DEF RequestType
    <3> QED
        BY <2>4, <3>2 DEF LockingDown, ReadCurrent
  <2> QED
      BY <2>1, <2>2, <2>3, <2>4
<1> QED
    BY <1>0, <1>1, <1>2, OthersAreUnmoved, OutsideAllAreUnmoved DEF Step

LEMMA NextFamilyIsKept ==
  TypeOK /\ FamilyIsNobodys /\ FamilyIsKept /\ Step => FamilyIsKept'
<1> SUFFICES ASSUME TypeOK, FamilyIsNobodys, FamilyIsKept, Step,
                    NEW a \in Accounts, a \notin blind'
             PROVE  /\ Family \in policy'[a].enabled <=> a \in shared'
                    /\ \A x \in Requests :
                        LockingDown(x, a)' => (Family \in request'[x].current <=> a \in shared')
    BY DEF FamilyIsKept
<1>0. \A r \in Requests : Family \notin request[r].owned /\ Family \notin request[r].others
    BY DEF FamilyIsNobodys
\* An administrator's change is known, unless it comes while the account is being locked down.
<1>1. ASSUME NEW b \in Accounts, NEW p \in PolicyType, SetPolicy(b, p)
      PROVE  /\ Family \in policy'[a].enabled <=> a \in shared'
             /\ \A x \in Requests :
                 LockingDown(x, a)' => (Family \in request'[x].current <=> a \in shared')
  <2>1. /\ policy'[b] = p /\ \A c \in Accounts : c # b => policy'[c] = policy[c]
        /\ shared' = IF Family \in p.enabled THEN shared \cup {b} ELSE shared \ {b}
        /\ blind' = IF \E r \in Requests : LockingDown(r, b) THEN blind \cup {b}
                    ELSE blind \ {b}
      BY <1>1, PolicyEffect DEF SetPolicy
  <2>2. \A x \in Requests : LockingDown(x, a)' =>
            LockingDown(x, a) /\ request'[x].current = request[x].current
    <3>1. \A x \in Requests : Unmoved(x)
        BY <1>1, TypesSplit, OutsideAllAreUnmoved DEF StepOutside
    <3> QED
        BY <3>1 DEF Unmoved, LockingDown, At
  <2>3. CASE a = b
    <3>1. \A r \in Requests : ~LockingDown(r, a)
        BY <2>1, <2>3
    <3> QED
        BY <2>1, <2>2, <2>3, <3>1
  <2>4. CASE a # b
    <3>1. a \notin blind /\ (a \in shared' <=> a \in shared) /\ policy'[a] = policy[a]
        BY <2>1, <2>4
    <3> QED
        BY <2>2, <3>1 DEF FamilyIsKept
  <2> QED
      BY <2>3, <2>4
<1>2. ASSUME shared' = shared, blind \subseteq blind',
             \A b \in Accounts, p \in PolicyType : ~SetPolicy(b, p)
      PROVE  /\ Family \in policy'[a].enabled <=> a \in shared
             /\ \A x \in Requests :
                 LockingDown(x, a)' => (Family \in request'[x].current <=> a \in shared)
  <2>1. /\ Family \in policy[a].enabled <=> a \in shared
        /\ \A r \in Requests : LockingDown(r, a) => (Family \in request[r].current <=> a \in shared)
      BY <1>2 DEF FamilyIsKept
  <2>2. ASSUME NEW r \in Requests, SetUserLibraryAccess(r)
        PROVE  Family \in policy'[a].enabled <=> a \in shared
    <3>1. CASE a = request[r].row.username
      <4>1. LockingDown(r, a)
          BY <2>2, <3>1 DEF SetUserLibraryAccess, LockingDown
      <4>2. policy'[a].enabled = request[r].owned \cup (request[r].current \ request[r].others)
          BY <2>2, <3>1, AccessEffect
      <4> QED
          BY <1>0, <2>1, <4>1, <4>2
    <3>2. CASE a # request[r].row.username
        BY <2>1, <2>2, <3>2, AccessEffect
    <3> QED
        BY <3>1, <3>2
  <2>3. Family \in policy'[a].enabled <=> a \in shared
    <3>1. CASE policy' = policy
        BY <2>1, <3>1
    <3> QED
        BY <1>2, <2>2, <3>1, PolicyFrame
  <2>4. ASSUME NEW x \in Requests, LockingDown(x, a)'
        PROVE  Family \in request'[x].current <=> a \in shared
      BY <2>1, <2>4, LockingFrame
  <2> QED
      BY <2>3, <2>4
<1> QED
    BY <1>1, <1>2, BlindFrame

-----------------------------------------------------------------------------
(* Nobody's library is forgotten, and those who leave are gone *)

LEMMA SpoiledGrows == ASSUME TypeOK, Step PROVE spoiled \subseteq spoiled'
<1>1. CASE StepOutside
    BY <1>1 DEF StepOutside, Patch, AddFolder, RemoveFolder, SetPolicy, TypeOK
<1>2. ASSUME NEW r \in Requests, StepOf(r) PROVE spoiled \subseteq spoiled'
    BY <1>2 DEF StepOf, Create, Provision, StartDelete, Enforce, Resolve, ListFolders,
       FindLibrary, CreateLibrary, ReadCreated, Upsert, UpsertRefused, NextLibrary, ReadOthers,
       ReadCurrent, ReadPolicy, SetUserLibraryAccess, Throws, RemoveLibrary, Delete
<1> QED
    BY <1>1, <1>2 DEF Step

\* The users a request serves: it began with them, or goes on with them.
Serving(r) ==
  request'[r].pc \notin {"idle", "remove"} =>
    \/ /\ Provisioning(r)
       /\ request'[r].u = request[r].u \/ \E job \in request[r].todo : job.u = request'[r].u
       /\ request'[r].todo \subseteq request[r].todo
    \/ /\ Begins(r)
       /\ \/ BeingDeleted \subseteq spoiled'
          \/ \E u \in Users, n \in Names, a \in Accounts : Create(r, u, n, a) /\ request'[r].u = u
                                                             /\ request'[r].todo = {}
LEMMA StillServing == ASSUME NEW x, Unmoved(x) PROVE Serving(x)
  BY DEF Unmoved, Serving, Provisioning
LEMMA EndsServing == ASSUME NEW x, Provisioning(x), Ends(x) PROVE Serving(x)
  BY DEF Ends, Serving
LEMMA ServingOf ==
  ASSUME TypeOK, NEW r \in Requests, StepOf(r)
  PROVE  Serving(r)
<1>0. RequestsOK /\ request[r] \in RequestType
    BY TypesSplit, OwnTypes
<1> USE <1>0
<1>1. ASSUME NEW u \in Users, NEW n \in Names, NEW a \in Accounts, Create(r, u, n, a)
      PROVE  Serving(r)
  <2>1. Begins(r)
      BY <1>1, Beginnings
  <2>2. request'[r] = StartOf([u |-> u, row |-> [name |-> n, username |-> a, link |-> a]], {})
      BY <1>1 DEF Create, RequestsOK
  <2>3. request'[r].u = u /\ request'[r].todo = {}
      BY <2>2, StartIsBlank
  <2> QED
      BY <1>1, <2>1, <2>3 DEF Serving
<1>2. ASSUME NEW u \in Users, Provision(r, u) PROVE Serving(r)
  <2>1. Begins(r) /\ BeingDeleted \subseteq spoiled'
      BY <1>2, Beginnings DEF Provision
  <2> QED
      BY <2>1 DEF Serving
<1>3. ASSUME NEW u \in Users, StartDelete(r, u) PROVE Serving(r)
    BY <1>3, Departing DEF Serving
<1>4. CASE Enforce(r)
  <2>0. \E v \in Users : TRUE
      BY <1>4 DEF Enforce
  <2>1. Begins(r) /\ BeingDeleted \subseteq spoiled'
      BY <1>4, <2>0, Beginnings DEF Enforce
  <2> QED
      BY <2>1 DEF Serving
<1>5. CASE Resolve(r)
  <2>1. Provisioning(r)
      BY <1>5 DEF Resolve, Provisioning, At
  <2>2. request'[r].u = request[r].u /\ request'[r].todo = request[r].todo
    <3>1. request'[r] = [request[r] EXCEPT !.pc = "list",
    !.admin = policy[request[r].row.username].admin]
        BY <1>5 DEF Resolve, RequestsOK
    <3> QED
        BY <3>1 DEF RequestType
  <2> QED
      BY <2>1, <2>2 DEF Serving
<1>6. CASE ListFolders(r)
  <2>1. Provisioning(r)
      BY <1>6 DEF ListFolders, Provisioning, At
  <2>2. request'[r].u = request[r].u /\ request'[r].todo = request[r].todo
    <3>1. request'[r] = [request[r] EXCEPT !.pc = "library", !.snap = folders, !.w = 1]
        BY <1>6 DEF ListFolders, RequestsOK
    <3> QED
        BY <3>1 DEF RequestType
  <2> QED
      BY <2>1, <2>2 DEF Serving
<1>7. CASE FindLibrary(r)
  <2>1. Provisioning(r)
      BY <1>7 DEF FindLibrary, Provisioning, At
  <2>2. request'[r].u = request[r].u /\ request'[r].todo = request[r].todo
    <3>1. PICK f \in request[r].snap :
            request' = [request EXCEPT ![r].pc = "upsert", ![r].own = f, ![r].created = FALSE]
        BY <1>7 DEF FindLibrary, Named, At_
    <3>2. request'[r] = [request[r] EXCEPT !.pc = "upsert", !.own = f, !.created = FALSE]
        BY <3>1 DEF RequestsOK
    <3> QED
        BY <3>2 DEF RequestType
  <2> QED
      BY <2>1, <2>2 DEF Serving
<1>8. ASSUME NEW b \in BOOLEAN, CreateLibrary(r, b) PROVE Serving(r)
  <2>1. Provisioning(r)
      BY <1>8 DEF CreateLibrary, Provisioning, At
  <2>2. CASE b
    <3>1. \E v : request'[r] = [request[r] EXCEPT !.pc = "found", !.created = v]
        BY <1>8, <2>2 DEF CreateLibrary, RequestsOK
    <3> QED
        BY <2>1, <3>1 DEF Serving, RequestType
  <2>3. CASE ~b
      BY <1>8, <2>1, <2>3, Endings, EndsServing
  <2> QED
      BY <2>2, <2>3
<1>9. CASE ReadCreated(r)
  <2>1. Provisioning(r)
      BY <1>9 DEF ReadCreated, Provisioning, At
  <2>2. request'[r].u = request[r].u /\ request'[r].todo = request[r].todo
    <3>1. \/ request' = [request EXCEPT ![r].pc = "next", ![r].created = FALSE]
          \/ \E f \in folders : request' = [request EXCEPT ![r].pc = "upsert", ![r].own = f]
        BY <1>9 DEF ReadCreated, Named
    <3>2. \/ request'[r] = [request[r] EXCEPT !.pc = "next", !.created = FALSE]
          \/ \E f \in folders : request'[r] = [request[r] EXCEPT !.pc = "upsert", !.own = f]
        BY <3>1 DEF RequestsOK
    <3> QED
        BY <3>2 DEF RequestType
  <2> QED
      BY <2>1, <2>2 DEF Serving
<1>10. CASE Upsert(r)
  <2>1. Provisioning(r)
      BY <1>10 DEF Upsert, Provisioning, At
  <2>2. request'[r].u = request[r].u /\ request'[r].todo = request[r].todo
    <3>1. request'[r] = Took(r)
        BY <1>10, UpsertEffect
    <3> QED
        BY <3>1, TookFacts
  <2> QED
      BY <2>1, <2>2 DEF Serving
<1>11. CASE UpsertRefused(r)
  <2>1. Provisioning(r)
      BY <1>11 DEF UpsertRefused, Provisioning, At
  <2> QED
      BY <1>11, <2>1, Endings, EndsServing
<1>12. CASE NextLibrary(r)
  <2>1. \/ request'[r] = [request[r] EXCEPT !.pc = "library", !.w = @ + 1]
        \/ request'[r] = [request[r] EXCEPT !.pc = "others", !.snap = {}]
        \/ request'[r] \in Ended(r)
      BY <1>12 DEF NextLibrary, RequestsOK
  <2>2. Provisioning(r)
      BY <1>12 DEF NextLibrary, Provisioning, At
  <2>3. CASE request'[r] \in Ended(r)
      BY <2>2, <2>3, EndedEnds, EndsServing
  <2>4. CASE request'[r].u = request[r].u /\ request'[r].todo = request[r].todo
      BY <2>2, <2>4 DEF Serving
  <2> QED
      BY <2>1, <2>3, <2>4 DEF RequestType
<1>13. CASE ReadOthers(r)
  <2>1. Provisioning(r)
      BY <1>13 DEF ReadOthers, Provisioning, At
  <2>2. request'[r].u = request[r].u /\ request'[r].todo = request[r].todo
    <3>1. request'[r] = [request[r] EXCEPT !.pc = "current", !.calm = TRUE,
                                              !.others = ItemsExcluding(request[r].u)]
        BY <1>13 DEF ReadOthers, RequestsOK
    <3> QED
        BY <3>1 DEF RequestType
  <2> QED
      BY <2>1, <2>2 DEF Serving
<1>14. ASSUME NEW b \in BOOLEAN, ReadCurrent(r, b) PROVE Serving(r)
  <2>1. Provisioning(r)
      BY <1>14 DEF ReadCurrent, Provisioning, At
  <2>2. request'[r].u = request[r].u /\ request'[r].todo = request[r].todo
    <3>1. \E S : request'[r] = [request[r] EXCEPT !.pc = "lock", !.current = S]
        BY <1>14 DEF ReadCurrent, RequestsOK
    <3> QED
        BY <3>1 DEF RequestType
  <2> QED
      BY <2>1, <2>2 DEF Serving
<1>15. CASE SetUserLibraryAccess(r)
  <2>1. Provisioning(r)
      BY <1>15 DEF SetUserLibraryAccess, Provisioning, At
  <2> QED
      BY <1>15, <2>1, Endings, EndsServing
<1>16. CASE Throws(r)
  <2>1. Provisioning(r)
      BY <1>16 DEF Throws, Provisioning, At
  <2> QED
      BY <1>16, <2>1, Endings, EndsServing
<1>17. ASSUME NEW n \in request[r].names, NEW b \in BOOLEAN, RemoveLibrary(r, n, b) PROVE Serving(r)
  <2>1. request'[r] = [request[r] EXCEPT !.names = @ \ {n}]
      BY <1>17 DEF RemoveLibrary, RequestsOK
  <2>2. request'[r].pc = "remove"
      BY <1>17, <2>1 DEF RemoveLibrary, At, RequestType
  <2> QED
      BY <2>2 DEF Serving
<1>18. CASE Delete(r)
  <2>1. request[r].u \in Users
      BY <1>18 DEF Delete, At, TypeOK, RequestOK
  <2> QED
      BY <1>18, <2>1, Departing, EndsServing DEF Serving
<1>19. CASE ReadPolicy(r)
  <2>1. Provisioning(r)
      BY <1>19 DEF ReadPolicy, Provisioning, At
  <2> QED
      BY <1>19, <2>1, ReadPolicyEffect, TypesSplit DEF Serving
<1> QED
    BY <1>1, <1>2, <1>3, <1>4, <1>5, <1>6, <1>7, <1>8, <1>9, <1>10, <1>11, <1>12, <1>13, <1>14,
       <1>15, <1>16, <1>17, <1>18, <1>19 DEF StepOf

LEMMA DeletesFrame ==
  ASSUME TypeOK, Step, NEW x \in Requests, NEW u \in Users, Deletes(x, u)'
  PROVE  \/ Deletes(x, u) /\ request'[x].names = request[x].names
         \/ \E n \in request[x].names, b \in BOOLEAN :
              /\ Deletes(x, u) /\ RemoveLibrary(x, n, b)
              /\ request'[x].names = request[x].names \ {n}
         \/ StartDelete(x, u) /\ request'[x].names = RecordedNames(u)
<1>0. RequestsOK
    BY TypesSplit
<1>1. CASE Unmoved(x)
    BY <1>1 DEF Unmoved, Deletes, At
<1>2. CASE StepOf(x)
  <2>1. \/ \E v \in Users : StartDelete(x, v)
        \/ \E n \in request[x].names, b \in BOOLEAN : RemoveLibrary(x, n, b)
      BY <1>2, TurnsOf DEF Turns, Deletes, At
  <2>2. ASSUME NEW v \in Users, StartDelete(x, v)
        PROVE  StartDelete(x, u) /\ request'[x].names = RecordedNames(u)
    <3>1. request'[x].u = v /\ request'[x].names = RecordedNames(v)
        BY <1>0, <2>2, Departing
    <3> QED
        BY <2>2, <3>1 DEF Deletes
  <2>3. ASSUME NEW n \in request[x].names, NEW b \in BOOLEAN, RemoveLibrary(x, n, b)
        PROVE  Deletes(x, u) /\ request'[x].names = request[x].names \ {n}
    <3>1. request'[x] = [request[x] EXCEPT !.names = @ \ {n}] /\ At(x, "remove")
        BY <1>0, <2>3 DEF RemoveLibrary, RequestsOK
    <3>2. request'[x].u = request[x].u /\ request'[x].names = request[x].names \ {n}
        BY <3>1, OwnTypes DEF RequestType
    <3> QED
        BY <3>1, <3>2 DEF Deletes
  <2> QED
      BY <2>1, <2>2, <2>3
<1> QED
    BY <1>0, <1>1, <1>2, OthersAreUnmoved, OutsideAllAreUnmoved DEF Step

LEMMA NextDepartures == TypeOK /\ Departures /\ Step => Departures'
<1> SUFFICES ASSUME TypeOK, Departures, Step PROVE Departures'
    OBVIOUS
<1>1. ASSUME NEW u \in Users, ~There(u)', NEW t \in Types PROVE rows'[u][t] = None
  <2>1. CASE ~There(u)
    <3>1. ASSUME NEW r \in Requests, Upsert(r) PROVE rows'[u][t] = rows[u][t]
        BY <2>1, <3>1, UpsertRows
    <3> QED
        BY <2>1, <3>1, RowFrame DEF Departures
  <2> QED
      BY <1>1, <2>1, PeopleFrame
<1>2. ASSUME NEW u \in Users, u \in gone' PROVE ~There(u)'
    BY <1>2, PeopleFrame DEF Departures
<1>3. gone' \subseteq Users
    BY NextHistory DEF HistoryOK
<1>4. ASSUME NEW x \in Requests, NEW u \in Users, Deletes(x, u)' PROVE There(u)' \/ u \in gone'
  <2>1. Deletes(x, u) \/ StartDelete(x, u)
      BY <1>4, DeletesFrame
  <2>2. There(u) \/ u \in gone
      BY <2>1 DEF Departures, StartDelete
  <2> QED
      BY <2>2, PeopleFrame
<1> QED
    BY <1>1, <1>2, <1>3, <1>4 DEF Departures

\* Nobody comes to be served while they are deleted or are not there.
LEMMA OverlapFrame ==
  ASSUME TypeOK, Departures, Step, NEW u \in Users, u \notin spoiled', Overlap(u)', ~Overlap(u)
  PROVE  There(u)' /\ (There(u) \/ u \notin gone) /\ \A x \in Requests : ~Deletes(x, u)
<1>0. RequestsOK
    BY TypesSplit
<1>1. PICK r \in Requests : Provisioning(r)' /\ Serves(r, u)'
    BY DEF Overlap
<1>2. /\ request'[r].pc \notin {"idle", "remove"}
      /\ request'[r].u = u \/ \E job \in request'[r].todo : job.u = u
    BY <1>1 DEF Provisioning, Serves
<1>3. Serving(r)
    BY <1>0, OthersAreUnmoved, OutsideAllAreUnmoved, StillServing, ServingOf DEF Step
<1>4. ASSUME Provisioning(r),
             request'[r].u = request[r].u \/ \E job \in request[r].todo : job.u = request'[r].u,
             request'[r].todo \subseteq request[r].todo
      PROVE  FALSE
  <2>1. Serves(r, u)
      BY <1>2, <1>4 DEF Serves
  <2> QED
      BY <1>4, <2>1 DEF Overlap
<1>5. There(u)' /\ (\/ BeingDeleted \subseteq spoiled'
                    \/ \E v \in Users, n \in Names, a \in Accounts :
                          Create(r, v, n, a) /\ request'[r].u = v /\ request'[r].todo = {})
    BY <1>2, <1>3, <1>4 DEF Serving, Begins, There
<1>6. CASE BeingDeleted \subseteq spoiled'
  <2>1. \A x \in Requests : ~Deletes(x, u)
      BY <1>6 DEF Deletes, BeingDeleted, At
  <2>2. There(u) \/ u \notin gone
      BY <1>5, PeopleFrame DEF Departures
  <2> QED
      BY <1>5, <2>1, <2>2
<1>7. ASSUME NEW v \in Users, NEW n \in Names, NEW a \in Accounts, Create(r, v, n, a),
             request'[r].u = v, request'[r].todo = {}
      PROVE  There(u)' /\ u \notin gone /\ \A x \in Requests : ~Deletes(x, u)
  <2>1. u = v /\ ~There(u) /\ u \notin gone
      BY <1>2, <1>7 DEF Create
  <2> QED
      BY <1>5, <2>1 DEF Departures
<1> QED
    BY <1>5, <1>6, <1>7

\* A library that was made for a user is looked for until it is recorded.
LEMMA SeeksFrame ==
  ASSUME TypeOK, NEW r \in Requests, StepOf(r), NEW n, Seeks(r, n), Named(folders, n) # {}
  PROVE  \/ request[r].u \in spoiled'
         \/ Seeks(r, n)' /\ request'[r].u = request[r].u
         \/ Upsert(r) /\ request[r].own.name = n
<1>0. RequestsOK
    BY TypesSplit
<1>1. request[r].pc \in {"found", "upsert"}
    BY DEF Seeks, At
<1>2. ReadCreated(r) \/ Upsert(r) \/ UpsertRefused(r) \/ Throws(r)
    BY <1>1 DEF StepOf, Create, Provision, StartDelete, Enforce, Begin, Resolve, ListFolders,
       FindLibrary, CreateLibrary, NextLibrary, ReadOthers, ReadCurrent, ReadPolicy,
       SetUserLibraryAccess, RemoveLibrary, Delete, At
<1>3. UpsertRefused(r) \/ Throws(r) => request[r].u \in spoiled'
    BY DEF UpsertRefused, Throws
<1>4. Upsert(r) => request[r].own.name = n
    BY DEF Upsert, Seeks, At
<1>5. ASSUME ReadCreated(r) PROVE Seeks(r, n)' /\ request'[r].u = request[r].u
  <2>1. WantedName(request[r]) = n
      BY <1>5 DEF ReadCreated, Seeks, At
  <2>2. PICK f \in folders :
          f.name = n /\ request' = [request EXCEPT ![r].pc = "upsert", ![r].own = f]
      BY <1>5, <2>1 DEF ReadCreated, Named
  <2>3. request'[r] = [request[r] EXCEPT !.pc = "upsert", !.own = f]
      BY <1>0, <2>2 DEF RequestsOK
  <2>4. request'[r].pc = "upsert" /\ request'[r].own = f /\ request'[r].u = request[r].u
      BY <2>3, OwnTypes DEF RequestType
  <2> QED
      BY <2>2, <2>4 DEF Seeks, At
<1> QED
    BY <1>2, <1>3, <1>4, <1>5

LEMMA NextNothingForgotten == TypeOK /\ Departures /\ NothingForgotten /\ Step => NothingForgotten'
<1> SUFFICES ASSUME TypeOK, Departures, NothingForgotten, Step,
                    NEW u \in Users, u \notin spoiled'
             PROVE  /\ \A f \in folders' : f.dir[1] = u =>
                        /\ Remembered(u, f.name)'
                        /\ \A x \in Requests : Deletes(x, u)' => f.name \in request'[x].names
                    /\ ~There(u)' \/ (\E x \in Requests : Deletes(x, u)') => ~Overlap(u)'
    BY DEF NothingForgotten
<1>0. RequestsOK
    BY TypesSplit
<1>1. /\ \A f \in folders : f.dir[1] = u =>
            /\ Remembered(u, f.name)
            /\ \A x \in Requests : Deletes(x, u) => f.name \in request[x].names
      /\ ~There(u) \/ (\E x \in Requests : Deletes(x, u)) => ~Overlap(u)
    BY SpoiledGrows DEF NothingForgotten
<1>2. \A x \in Requests : StartDelete(x, u) => There(u) /\ ~Overlap(u)
    BY DEF StartDelete
<1>3. ASSUME ~There(u)' \/ \E x \in Requests : Deletes(x, u)' PROVE ~Overlap(u)'
  <2>1. CASE ~Overlap(u)
    <3> SUFFICES ASSUME Overlap(u)' PROVE FALSE
        OBVIOUS
    <3>1. There(u)' /\ (There(u) \/ u \notin gone) /\ \A x \in Requests : ~Deletes(x, u)
        BY <2>1, OverlapFrame
    <3>2. PICK x \in Requests : StartDelete(x, u)
        BY <1>3, <3>1, DeletesFrame
    <3>3. PICK r \in Requests : Provisioning(r)' /\ Serves(r, u)'
        BY DEF Overlap
    <3>4. r # x
        BY <1>0, <3>2, <3>3, Departing DEF Provisioning
    <3>5. Unmoved(r)
        BY <1>0, <3>2, <3>4, OthersAreUnmoved DEF StepOf
    <3> QED
        BY <2>1, <3>3, <3>5 DEF Overlap, Provisioning, Serves, Unmoved
  <2>2. CASE Overlap(u)
    <3>1. There(u) /\ \A x \in Requests : ~Deletes(x, u)
        BY <1>1, <2>2
    <3>2. There(u)'
      <4>1. ASSUME NEW x \in Requests, Delete(x), request[x].u = u PROVE FALSE
          BY <3>1, <4>1 DEF Delete, Deletes
      <4> QED
          BY <3>1, <4>1, PeopleFrame
    <3>3. \A x \in Requests : ~Deletes(x, u)'
        BY <1>2, <2>2, <3>1, DeletesFrame
    <3> QED
        BY <1>3, <3>2, <3>3
  <2> QED
      BY <2>1, <2>2
\* A library that was there already.
<1>4. ASSUME NEW f \in folders, f.dir[1] = u, f \in folders' PROVE Remembered(u, f.name)'
  <2>0. Named(folders, f.name) # {}
      BY DEF Named
  <2>1. CASE Recorded(u, f.name)
    <3>1. PICK t \in Types : rows[u][t] # None /\ rows[u][t].name = f.name
        BY <2>1 DEF Recorded
    <3>2. ASSUME NEW r \in Requests, Upsert(r) PROVE rows'[u][t] # None /\ rows'[u][t].name = f.name
      <4>1. CASE u = request[r].u /\ t = Wanted[request[r].w]
        <5>1. rows'[u][t] = Offered(r) /\ Offered(r) # None
            BY <3>2, <4>1, UpsertRows
        <5>2. Offered(r).name = f.name
            BY <2>0, <3>1, <3>2, <4>1 DEF Upsert, Offered
        <5> QED
            BY <5>1, <5>2
      <4>2. CASE ~(u = request[r].u /\ t = Wanted[request[r].w])
          BY <3>1, <3>2, <4>2, UpsertRows
      <4> QED
          BY <4>1, <4>2
    <3>3. ASSUME rows'[u][t] = None, \A r \in Requests : ~Upsert(r) PROVE FALSE
      <4>1. PICK r \in Requests : Delete(r) /\ request[r].u = u
        <5>1. rows' # rows
            BY <3>1, <3>3
        <5>2. \E r \in Requests : Delete(r)
          <6>1. CASE StepOutside
              BY <5>1, <6>1 DEF StepOutside, Patch, AddFolder, RemoveFolder, SetPolicy
          <6>2. ASSUME NEW r \in Requests, StepOf(r) PROVE Delete(r)
              BY <3>3, <5>1, <6>2 DEF StepOf, Create, Provision, StartDelete, Enforce, Resolve,
                 ListFolders, FindLibrary, CreateLibrary, ReadCreated, UpsertRefused, NextLibrary,
                 ReadOthers, ReadCurrent, ReadPolicy, SetUserLibraryAccess, Throws, RemoveLibrary
          <6> QED
              BY <6>1, <6>2 DEF Step
        <5>3. PICK r \in Requests : Delete(r)
            BY <5>2
        <5>4. rows' = [rows EXCEPT ![request[r].u] = NoRows]
            BY <5>3 DEF Delete
        <5>5. request[r].u = u
            BY <3>1, <3>3, <5>4 DEF TypeOK
        <5> QED
            BY <5>3, <5>5
      <4>2. Deletes(r, u) /\ request[r].names = {}
          BY <4>1 DEF Delete, Deletes
      <4> QED
          BY <1>1, <1>4, <4>2
    <3>4. rows'[u][t] # None /\ rows'[u][t].name = f.name
        BY <3>1, <3>2, <3>3, RowFrame
    <3> QED
        BY <3>4 DEF Remembered, Recorded
  <2>2. ASSUME NEW r \in Requests, request[r].u = u, Seeks(r, f.name) PROVE Remembered(u, f.name)'
    <3>1. CASE Unmoved(r)
      <4>1. Seeks(r, f.name)' /\ request'[r].u = u
          BY <2>2, <3>1 DEF Unmoved, Seeks, At, WantedName
      <4> QED
          BY <4>1 DEF Remembered
    <3>2. CASE StepOf(r)
      <4>1. \/ Seeks(r, f.name)' /\ request'[r].u = u
            \/ Upsert(r) /\ request[r].own.name = f.name
          BY <2>0, <2>2, <3>2, SeeksFrame
      <4>2. ASSUME Upsert(r), request[r].own.name = f.name PROVE Recorded(u, f.name)'
        <5>1. /\ Wanted[request[r].w] \in Types
              /\ rows'[u][Wanted[request[r].w]] = Offered(r) /\ Offered(r) # None
              /\ Offered(r).name = f.name
            BY <2>2, <4>2, UpsertRows
        <5> QED
            BY <5>1 DEF Recorded
      <4> QED
          BY <4>1, <4>2 DEF Remembered
    <3> QED
        BY <1>0, <3>1, <3>2, OthersAreUnmoved, OutsideAllAreUnmoved DEF Step
  <2> QED
      BY <1>1, <1>4, <2>1, <2>2 DEF Remembered
<1>5. ASSUME NEW f \in folders, f.dir[1] = u, f \in folders', NEW x \in Requests, Deletes(x, u)'
      PROVE  f.name \in request'[x].names
  <2>1. CASE Deletes(x, u) /\ request'[x].names = request[x].names
      BY <1>1, <1>5, <2>1
  <2>2. ASSUME NEW n \in request[x].names, NEW b \in BOOLEAN, Deletes(x, u), RemoveLibrary(x, n, b),
               request'[x].names = request[x].names \ {n}
        PROVE  f.name \in request'[x].names
    <3>1. b
        BY <2>2 DEF RemoveLibrary, Deletes
    <3>2. folders' = folders \ Named(folders, n)
        BY <2>2, <3>1 DEF RemoveLibrary
    <3>3. f.name # n
        BY <1>5, <3>2 DEF Named
    <3> QED
        BY <1>1, <1>5, <2>2, <3>3
  <2>3. CASE StartDelete(x, u) /\ request'[x].names = RecordedNames(u)
    <3>1. ~Overlap(u)
        BY <1>2, <2>3
    <3>2. ASSUME NEW r \in Requests, request[r].u = u, Seeks(r, f.name) PROVE FALSE
        BY <3>1, <3>2 DEF Overlap, Serves, Provisioning, Seeks, At
    <3>3. Recorded(u, f.name)
        BY <1>1, <1>5, <3>2 DEF Remembered
    <3> QED
        BY <2>3, <3>3 DEF Recorded, RecordedNames
  <2> QED
      BY <1>5, <2>1, <2>2, <2>3, DeletesFrame
\* One that is new.
<1>6. ASSUME NEW r \in Requests, NEW b \in BOOLEAN, CreateLibrary(r, b), NEW f \in folders',
             f \notin folders, f.dir[1] = u
      PROVE  /\ Remembered(u, f.name)'
             /\ \A x \in Requests : ~Deletes(x, u)'
  <2>1. PICK new : /\ NewIn(new) /\ new.dir = WantedDir(request[r])
                   /\ \/ new.name = WantedName(request[r])
                      \/ /\ Named(folders, WantedName(request[r])) # {}
                         /\ new.name = <<None, request[r].u>>
      BY <1>6, NewLibrary
  <2>2. f = new
      BY <1>6, <2>1 DEF NewIn
  <2>3. request[r].u = u
    <3>1. /\ request[r].u \in Users /\ request[r].row \in UserRow
          /\ request[r].w \in 1 .. Len(Wanted)
        BY <1>6, OwnTypes DEF CreateLibrary, At, Steps
    <3> QED
        BY <1>6, <2>1, <2>2, <3>1, Asked
  <2>4. b
      BY <1>6, <2>3 DEF CreateLibrary
  <2>5. Named(folders, WantedName(request[r])) = {}
      BY <1>6, <2>3, <2>4 DEF CreateLibrary
  <2>6. \E v : request'[r] = [request[r] EXCEPT !.pc = "found", !.created = v]
      BY <1>0, <1>6, <2>4 DEF CreateLibrary, RequestsOK
  <2>7. /\ request'[r].pc = "found" /\ request'[r].u = u
        /\ request'[r].row = request[r].row /\ request'[r].w = request[r].w
      BY <2>3, <2>6, OwnTypes DEF RequestType
  <2>8. WantedName(request'[r]) = f.name
      BY <2>1, <2>2, <2>5, <2>7 DEF WantedName
  <2>9. Seeks(r, f.name)'
      BY <2>7, <2>8 DEF Seeks, At
  <2>10. Overlap(u)
      BY <1>6, <2>3 DEF Overlap, Provisioning, Serves, CreateLibrary, At
  <2>11. ASSUME NEW x \in Requests, Deletes(x, u)' PROVE FALSE
    <3>1. Deletes(x, u)
        BY <1>2, <2>10, <2>11, DeletesFrame
    <3> QED
        BY <1>1, <2>10, <3>1
  <2> QED
      BY <2>7, <2>9, <2>11 DEF Remembered
<1>7. ASSUME NEW f \in folders', f \notin folders
      PROVE  \E r \in Requests, b \in BOOLEAN : CreateLibrary(r, b)
  <2>1. CASE StepOutside
      BY <1>7, <2>1 DEF StepOutside, Patch, AddFolder, RemoveFolder, SetPolicy
  <2>2. ASSUME NEW r \in Requests, StepOf(r) PROVE \E b \in BOOLEAN : CreateLibrary(r, b)
      BY <1>7, <2>2 DEF StepOf, Create, Provision, StartDelete, Enforce, Resolve, ListFolders,
         FindLibrary, ReadCreated, Upsert, UpsertRefused, NextLibrary, ReadOthers,
         ReadCurrent, ReadPolicy, SetUserLibraryAccess, Throws, RemoveLibrary, Delete
  <2> QED
      BY <2>1, <2>2 DEF Step
<1> QED
    BY <1>3, <1>4, <1>5, <1>6, <1>7

-----------------------------------------------------------------------------
(* The invariant *)

LEMMA InitInvariant == Init => IInv
<1> SUFFICES ASSUME Init PROVE IInv
    OBVIOUS
<1> DEFINE family == [item |-> Family, name |-> LibraryName(None, None), dir |-> SharedDir]
<1>1. TypeOK
    BY InitTypes
<1>2. /\ folders = {family} /\ family.item = Family /\ family.name = LibraryName(None, None)
      /\ family.dir = SharedDir
    BY DEF Init
<1> HIDE DEF family
<1>3. \A r \in Requests : request[r] = Idle
    BY DEF Init
<1>4. \A u \in Users : /\ users[u] = None /\ \A t \in Types : rows[u][t] = None
    BY DEF Init, NoRows
<1>5. \A r \in Requests :
        /\ request[r].pc = "idle" /\ request[r].snap = {} /\ request[r].own = None
        /\ ~request[r].created /\ request[r].others = {} /\ request[r].owned = {}
    BY <1>3 DEF Idle
<1>6. ItemsHaveOneName
    BY <1>2, <1>4, <1>5 DEF ItemsHaveOneName, Bears
<1>7. NamesHaveOneRow
    BY <1>4 DEF NamesHaveOneRow
<1>8. CreatedIsUnseen /\ CalmIsHarmless
    BY <1>5 DEF CreatedIsUnseen, CalmIsHarmless, At
<1>9. SettledArePrivate
    BY DEF Init, SettledArePrivate
<1>10. FamilyIsNobodys /\ FamilyIsKept
  <2>1. \A a \in Accounts : Family \in policy[a].enabled <=> a \in shared
      BY DEF Init
  <2>2. FamilyIsNobodys
      BY <1>2, <1>4, <1>5 DEF FamilyIsNobodys, Shared, InRow
  <2>3. \A r \in Requests, a \in Accounts : ~LockingDown(r, a)
      BY <1>5 DEF LockingDown, At
  <2> QED
      BY <2>1, <2>2, <2>3 DEF FamilyIsKept
<1>11. NothingForgotten
  <2>1. \A u \in Users : ~Overlap(u)
      BY <1>5 DEF Overlap, Provisioning
  <2>2. \A u \in Users, f \in folders : f.dir[1] # u
      BY <1>2, NoneIsNothing DEF SharedDir
  <2> QED
      BY <2>1, <2>2 DEF NothingForgotten
<1>12. Departures
    BY <1>4, <1>5 DEF Init, Departures, Deletes, At
<1> QED
    BY <1>1, <1>6, <1>7, <1>8, <1>9, <1>10, <1>11, <1>12 DEF IInv

LEMMA NextInvariant == IInv /\ [Next]_vars => IInv'
<1> SUFFICES ASSUME IInv, Step \/ UNCHANGED vars PROVE IInv'
    BY NextIsStep DEF IInv
<1>1. CASE Step
  <2>1. TypeOK'
      BY <1>1, NextTypes DEF IInv
  <2>2. ItemsHaveOneName' /\ NamesHaveOneRow'
      BY <1>1, NextItemsHaveOneName, NextNamesHaveOneRow DEF IInv
  <2>3. CreatedIsUnseen' /\ CalmIsHarmless'
      BY <1>1, NextCreatedIsUnseen, NextCalmIsHarmless DEF IInv
  <2>4. SettledArePrivate'
      BY <1>1, NextSettledArePrivate DEF IInv
  <2>5. FamilyIsNobodys' /\ FamilyIsKept'
      BY <1>1, NextFamilyIsNobodys, NextFamilyIsKept DEF IInv
  <2>6. NothingForgotten' /\ Departures'
      BY <1>1, NextNothingForgotten, NextDepartures DEF IInv
  <2> QED
      BY <2>1, <2>2, <2>3, <2>4, <2>5, <2>6 DEF IInv
<1>2. CASE UNCHANGED vars
  <2>1. TypeOK'
      BY <1>2 DEF IInv, vars, TypeOK
  <2>2. ItemsHaveOneName' /\ NamesHaveOneRow'
      BY <1>2 DEF IInv, vars, ItemsHaveOneName, Bears, NamesHaveOneRow
  <2>3. CreatedIsUnseen'
      BY <1>2 DEF IInv, vars, CreatedIsUnseen, Finds, Marked, InRow, At
  <2>4. CalmIsHarmless'
      BY <1>2 DEF IInv, vars, CalmIsHarmless, Harmless, InRow, At
  <2>5. SettledArePrivate'
      BY <1>2 DEF IInv, vars, SettledArePrivate, Private, InRow, There
  <2>6. FamilyIsNobodys' /\ FamilyIsKept'
      BY <1>2 DEF IInv, vars, FamilyIsKept, FamilyIsNobodys, LockingDown, Shared, InRow, At
  <2>7. NothingForgotten'
      BY <1>2 DEF IInv, vars, NothingForgotten, Remembered, Recorded, Seeks, Deletes, Overlap,
         Provisioning, Serves, There, At
  <2>8. Departures'
      BY <1>2 DEF IInv, vars, Departures, Deletes, There, At
  <2> QED
      BY <2>1, <2>2, <2>3, <2>4, <2>5, <2>6, <2>7, <2>8 DEF IInv
<1> QED
    BY <1>1, <1>2

LEMMA Invariance == Spec => []IInv
  BY InitInvariant, NextInvariant, PTL DEF Spec

-----------------------------------------------------------------------------
(* The theorems *)

(* The tables, the requests and what Jellyfin holds always have their types. *)
THEOREM TypeCorrect == Spec => []TypeOK
<1>1. IInv => TypeOK
    BY DEF IInv
<1> QED
    BY <1>1, Invariance, PTL

(* Once locked down, an account sees its user's libraries and nobody else's, *)
(* however many requests interleave: enabledFoldersFor keeps out what the    *)
(* rows gave to others, and what they have gained since was in nobody's view.*)
THEOREM SettledAccountsArePrivate == Spec => []SettledIsPrivate
<1>1. IInv => SettledIsPrivate
  <2> SUFFICES ASSUME IInv, NEW u \in settled
               PROVE  LET p == policy[users[u].link] IN
                      /\ ~p.admin /\ ~p.all
                      /\ p.enabled \cap ItemsExcluding(u) = {}
                      /\ ItemsOf(u) \subseteq p.enabled
      BY DEF SettledIsPrivate
  <2>1. Private(u) /\ u \in Users /\ TypeOK
      BY DEF IInv, SettledArePrivate, TypeOK
  <2>2. \A i : InRow(u, i) => i \in Items
      BY <2>1 DEF InRow, TypeOK, LibraryRow
  <2> QED
      BY <2>1, <2>2, Owned DEF Private, ItemsExcluding
<1> QED
    BY <1>1, Invariance, PTL

(* Provisioning neither gives nor takes a library that is nobody's: what   *)
(* is written is what the account was seen to name, less what is others',  *)
(* and the library is neither others' nor in the request's own list.       *)
THEOREM SharedLibrariesAreKept == Spec => []SharedIsKept
<1>1. IInv => SharedIsKept
    BY DEF IInv, FamilyIsKept, SharedIsKept
<1> QED
    BY <1>1, Invariance, PTL

(* A deleted user leaves no library behind: as long as nothing failed and  *)
(* no provisioning overlapped, each was recorded when the deletion began,  *)
(* and the deletion ends when every recorded one is gone.                  *)
THEOREM DeletionLeavesNothing == Spec => []NothingLeftBehind
<1>1. IInv => NothingLeftBehind
  <2> SUFFICES ASSUME IInv, NEW u \in gone \ spoiled, NEW f \in folders, f.dir[1] = u PROVE FALSE
      BY DEF NothingLeftBehind
  <2>1. u \in Users \ spoiled /\ ~There(u)
      BY DEF IInv, TypeOK, Departures
  <2>2. Remembered(u, f.name) /\ ~Overlap(u)
      BY <2>1 DEF IInv, NothingForgotten
  <2>3. ~Recorded(u, f.name)
      BY <2>1 DEF IInv, Departures, Recorded
  <2>4. PICK r \in Requests : request[r].u = u /\ Seeks(r, f.name)
      BY <2>2, <2>3 DEF Remembered
  <2> QED
      BY <2>2, <2>4 DEF Overlap, Provisioning, Serves, Seeks, At
<1> QED
    BY <1>1, Invariance, PTL

(* What the audit reports is true of any state whatever: its checks, taken *)
(* together, imply what its reader concludes from them.                    *)
THEOREM AuditTellsTheTruth == Spec => []AuditIsTruth
<1>1. AuditIsTruth
  <2> SUFFICES ASSUME AuditIsOk, NEW a \in Accounts, ~policy[a].admin, NEW f \in Sees(a),
                      NEW u \in Users, There(u), f.dir[1] = u
               PROVE  \E v \in Owner(a) : f.item \in ItemsOf(v)
      BY DEF AuditIsTruth
  <2>1. ~policy[a].all /\ Foreign(a) = {} /\ ~UnmanagedWayIn
      BY DEF AuditIsOk
  <2>2. f \in folders /\ f.item \in policy[a].enabled
      BY <2>1 DEF Sees
  <2>3. f.item \in ManagedItems
      BY <2>1, <2>2 DEF UnmanagedWayIn
  <2> QED
      BY <2>1, <2>2, <2>3 DEF Foreign
<1> QED
    BY <1>1, PTL

-----------------------------------------------------------------------------
(* The dashboard *)


Places == /\ Visited \subseteq DOMAIN routes /\ Nothing \notin Visited
          /\ Nothing \notin [page : Visited, born : Nat]

Polls(p) == routes[p].polls

\* What the render of token b draws is of page p: of the page on screen, if b is the current
\* token, or of the log page, whose timer was started after it had been left.
Fits(p, b) == b <= token /\ (b = token => p = page \/ (rearmed /\ p = "logs"))

DrawsFit == \A d \in Draws : draw[d] # Nothing => Fits(draw[d].page, draw[d].born)
TimerFits == timer # Nothing => Fits(timer.page, timer.born)
ChangeFits == change # Nothing => Fits(change.page, change.born) /\ change.page \in {"users", "user"}
MainFits == main.page # Nothing => main.page = page \/ (rearmed /\ main.page = "logs")
TimerIsCurrent == timer # Nothing => timer.born = token \/ rearmed

\* Behind the sign-in form nothing is answered, but for a reader who is signed in.
SignedOut == view = "login" => ~session \/ late
DrawsInApp == view = "login" => late \/ rearmed \/
  \A d \in Draws : draw[d] # Nothing /\ draw[d].born = token => draw[d].state # Ready
TimerInApp == view = "login" => late \/ rearmed \/ timer = Nothing

TimerPolls == timer # Nothing => Polls(timer.page) # "never"
DrawsLive == \A d \in Draws : draw[d] # Nothing /\ draw[d].live => Polls(draw[d].page) = "unfinished"
MainLive == main.live => main.page # Nothing /\ Polls(main.page) = "unfinished"

OnItsPage == view = "app" /\ main.page = page
AlwaysPolled == OnItsPage /\ Polls(page) = "always" => timer # Nothing \/ rearmed
RedrawsPolled ==
  \A d \in Draws : draw[d] # Nothing /\ draw[d].born = token /\ Polls(draw[d].page) = "always"
                     /\ draw[d].kind \in {"tick", "again"} => timer # Nothing \/ rearmed
PollingIsTimer == ~rearmed => (polling <=> timer # Nothing /\ Polls(page) = "unfinished")
PollingIsLive == OnItsPage /\ Polls(page) = "unfinished" => (main.live <=> polling) \/ rearmed

Heeded == told <= changes
CacheFresh == cache # Nothing => cache >= told \/ raced
FetchFresh == fetch # Nothing /\ fetch.state = Ready => fetch.list >= told \/ raced

Drawings == [page : Visited, born : Nat, kind : {"open", "tab", "tick", "again"},
             users : Nat \cup {Nothing}, state : States, live : BOOLEAN]
Timers == [page : Visited, born : Nat]
Forms == [page : Visited, born : Nat, kind : {"edit", "token"}, made : BOOLEAN, closed : BOOLEAN,
          heard : BOOLEAN]

Screen ==
  /\ DrawsFit /\ TimerFits /\ ChangeFits /\ MainFits /\ TimerIsCurrent
  /\ SignedOut /\ DrawsInApp /\ TimerInApp
  /\ TimerPolls /\ DrawsLive /\ MainLive
  /\ AlwaysPolled /\ RedrawsPolled /\ PollingIsTimer /\ PollingIsLive
Lists == Heeded /\ CacheFresh /\ FetchFresh

LEMMA Routes ==
  ASSUME Places, NEW p \in Visited
  PROVE /\ Polls(p) \in {"never", "always", "unfinished"}
        /\ routes[p].users \in {"never", "cached", "dropped"}
        /\ routes[p].token \in {"opened", "drawn"}
        /\ routes[p].token = "drawn" => p = "logs"
        /\ p \in {"users", "user"} => Polls(p) = "never"
  <1>1. p \in DOMAIN routes
    BY DEF Places
  <1>2. DOMAIN routes = {"dashboard", "users", "user", "uploads", "upload", "multipart", "mtproto",
                         "media", "storage", "health", "privacy", "settings", "logs",
                         "notFound"}
    BY DEF routes
  <1>3. p \in {"dashboard", "users", "user", "uploads", "upload", "multipart", "mtproto",
                         "media", "storage", "health", "privacy", "settings", "logs",
                         "notFound"}
    BY <1>1, <1>2
  <1>a. /\ Still.polls = "never" /\ Still.users = "never" /\ Still.token = "opened"
        /\ Polled.polls = "always" /\ Polled.users = "never" /\ Polled.token = "opened"
        /\ WithUsers.polls = "always" /\ WithUsers.users = "cached" /\ WithUsers.token = "opened"
    BY DEF Still, Polled, WithUsers
  <1>4. CASE p \in {"users", "user"}
    <2>1. Still.polls = "never" /\ renderUsers.polls = "never" /\ renderUsers.users = "dropped"
          /\ renderUsers.token = "opened"
      BY DEF Still, renderUsers
    <2> QED
      BY <1>4, <1>a, <2>1 DEF routes, renderUserDetail, Polls
  <1>5. CASE p \in {"dashboard", "uploads", "multipart", "mtproto", "health"}
    BY <1>5, <1>a DEF routes, renderDashboard, renderUploads, renderMultipart, renderMtproto,
                      renderHealth, Polls
  <1>6. CASE p \in {"upload", "media"}
    <2>1. /\ renderUploadDetail.polls = "unfinished" /\ renderUploadDetail.users = "never"
          /\ renderUploadDetail.token = "opened"
          /\ renderMedia.polls = "never" /\ renderMedia.users = "cached"
          /\ renderMedia.token = "opened"
      BY DEF Still, renderUploadDetail, renderMedia
    <2> QED
      BY <1>6, <2>1 DEF routes, Polls
  <1>7. CASE p \in {"storage", "privacy", "settings", "notFound"}
    BY <1>7, <1>a DEF routes, renderStorage, renderPrivacy, renderSettings, renderNotFound, Polls
  <1>8. CASE p = "logs"
    <2>1. renderLogs.polls = "always" /\ renderLogs.users = "never"
          /\ renderLogs.token = "drawn"
      BY DEF Still, renderLogs, drawServiceLogs, drawActivity
    <2> QED
      BY <1>8, <2>1 DEF routes, Polls
  <1> QED
    BY <1>3, <1>4, <1>5, <1>6, <1>7, <1>8

LEMMA Drawn ==
  ASSUME DashboardTypeOK, NEW d \in Draws
  PROVE /\ draw[d] # Nothing => draw[d] \in Drawings
        /\ \A r \in Drawings \cup {Nothing} :
             [draw EXCEPT ![d] = r] \in [Draws -> Drawings \cup {Nothing}]
  BY DEF DashboardTypeOK, Drawings

LEMMA Started ==
  ASSUME Places, DashboardTypeOK, NEW p \in Visited, NEW b \in Nat,
         NEW kind \in {"open", "tab", "tick", "again"}, NEW had \in Nat \cup {Nothing},
         StartDraw(p, b, kind, had)
  PROVE /\ \E d0 \in Draws, r \in Drawings :
             /\ \A d \in Draws : draw'[d] = IF d = d0 THEN r ELSE draw[d]
             /\ r.page = p /\ r.born = b /\ r.kind = kind /\ r.state = "asked" /\ ~r.live
        /\ draw' \in [Draws -> Drawings \cup {Nothing}]
        /\ cache' \in {had, Nothing}
        /\ fetch' = fetch \/ fetch' = [state |-> "asked", list |-> 0]
  <1>1. PICK d0 \in Draws, list \in cachedUsers(p, had) :
          /\ draw' = [draw EXCEPT ![d0] = [page |-> p, born |-> b, kind |-> kind,
                                    users |-> list, state |-> "asked", live |-> FALSE]]
          /\ cache' = IF routes[p].users = "dropped" THEN Nothing ELSE had
          /\ fetch' = IF list = Nothing /\ fetch = Nothing THEN [state |-> "asked", list |-> 0]
                                                      ELSE fetch
    BY DEF StartDraw
  <1>2. list \in Nat \cup {Nothing}
    <2>1. CASE routes[p].users = "never"
      BY <1>1, <2>1 DEF cachedUsers
    <2>2. CASE routes[p].users = "cached"
      <3>1. cachedUsers(p, had) = {had, Nothing}
        BY <2>2 DEF cachedUsers
      <3> QED
        BY <1>1, <3>1
    <2>3. CASE routes[p].users = "dropped"
      <3>1. cachedUsers(p, had) = {Nothing}
        BY <2>3 DEF cachedUsers
      <3> QED
        BY <1>1, <3>1
    <2> QED
      BY <2>1, <2>2, <2>3, Routes
  <1> DEFINE r == [page |-> p, born |-> b, kind |-> kind,
                   users |-> list, state |-> "asked", live |-> FALSE]
  <1>3. r \in Drawings
    BY <1>2 DEF Drawings, States
  <1>4. r.page = p /\ r.born = b /\ r.kind = kind /\ r.state = "asked" /\ ~r.live
    OBVIOUS
  <1>5. \E d1 \in Draws, r1 \in Drawings :
             /\ \A d \in Draws : draw'[d] = IF d = d1 THEN r1 ELSE draw[d]
             /\ r1.page = p /\ r1.born = b /\ r1.kind = kind /\ r1.state = "asked" /\ ~r1.live
    <2>1. draw' = [draw EXCEPT ![d0] = r]
      BY <1>1
    <2>2. \A d \in Draws : draw'[d] = IF d = d0 THEN r ELSE draw[d]
      BY <2>1 DEF DashboardTypeOK
    <2> HIDE DEF r
    <2> QED
      BY <2>2, <1>3, <1>4
  <1> HIDE DEF r
  <1>6. cache' \in {had, Nothing}
    BY <1>1
  <1>7. fetch' = fetch \/ fetch' = [state |-> "asked", list |-> 0]
    BY <1>1
  <1>8. draw' \in [Draws -> Drawings \cup {Nothing}]
    <2>1. draw' = [draw EXCEPT ![d0] = r]
      BY <1>1 DEF r
    <2> QED
      BY <2>1, <1>3 DEF DashboardTypeOK, Drawings
  <1> QED
    BY <1>5, <1>6, <1>7, <1>8

\* A redraw on the page that is on screen, or by its timer.
LEMMA RedrawKeeps ==
  ASSUME Places, DashboardTypeOK, Screen,
         NEW d0 \in Draws, NEW r \in Drawings,
         \A d \in Draws : draw'[d] = IF d = d0 THEN r ELSE draw[d],
         r.state = "asked", ~r.live, Fits(r.page, r.born),
         r.born = token /\ Polls(r.page) = "always" /\ r.kind \in {"tick", "again"}
           => timer # Nothing \/ rearmed,
         change' \in {change, Nothing},
         UNCHANGED <<view, page, token, main, timer, polling, session, rearmed, late>>
  PROVE  Screen'
  <1>b. /\ view' = view /\ page' = page /\ token' = token /\ main' = main /\ timer' = timer
        /\ polling' = polling /\ session' = session /\ rearmed' = rearmed /\ late' = late
    OBVIOUS
  <1>1. DrawsFit'
    BY <1>b DEF Screen, DrawsFit, Fits
  <1>2. TimerFits'
    BY <1>b DEF Screen, TimerFits, Fits
  <1>3. ChangeFits'
    BY <1>b DEF Screen, ChangeFits, Fits
  <1>4. MainFits'
    BY <1>b DEF Screen, MainFits
  <1>5. TimerIsCurrent'
    BY <1>b DEF Screen, TimerIsCurrent
  <1>6. SignedOut'
    BY <1>b DEF Screen, SignedOut
  <1>7. DrawsInApp'
    BY <1>b DEF Screen, DrawsInApp, Ready
  <1>8. TimerInApp'
    BY <1>b DEF Screen, TimerInApp
  <1>9. TimerPolls'
    BY <1>b DEF Screen, TimerPolls
  <1>10. DrawsLive'
    BY <1>b DEF Screen, DrawsLive
  <1>11. MainLive'
    BY <1>b DEF Screen, MainLive
  <1>12. AlwaysPolled'
    BY <1>b DEF Screen, AlwaysPolled, OnItsPage
  <1>13. RedrawsPolled'
    BY <1>b DEF Screen, RedrawsPolled
  <1>14. PollingIsTimer'
    BY <1>b DEF Screen, PollingIsTimer
  <1>15. PollingIsLive'
    BY <1>b DEF Screen, PollingIsLive, OnItsPage
  <1> QED
    BY <1>1, <1>2, <1>3, <1>4, <1>5, <1>6, <1>7, <1>8, <1>9, <1>10, <1>11, <1>12, <1>13, <1>14,
       <1>15 DEF Screen

\* A page is opened: nothing drawn before it has its token.
LEMMA OpenKeeps ==
  ASSUME Places, DashboardTypeOK, Screen, NEW p \in Visited, NEW had \in Nat \cup {Nothing},
         Open(p, had),
         view' \in {"app", view}, view' = "login" => session' = session /\ late' = late,
         rearmed' = rearmed, change' \in {change, Nothing}
  PROVE  Screen'
  <1>a. /\ page' = p /\ token' = token + 1 /\ timer' = Nothing /\ polling' = FALSE /\ main' = Loading
        /\ StartDraw(p, token + 1, "open", had)
    BY DEF Open
  <1>b. token \in Nat /\ token + 1 \in Nat
    BY DEF DashboardTypeOK
  <1>j. PICK b \in Nat : b = token + 1
    BY <1>b
  <1>k. PICK kind \in {"open", "tab", "tick", "again"} : kind = "open"
    OBVIOUS
  <1>m. StartDraw(p, b, kind, had)
    BY <1>a, <1>j, <1>k DEF StartDraw
  <1>n. PICK d0 \in Draws, r \in Drawings :
             /\ \A d \in Draws : draw'[d] = IF d = d0 THEN r ELSE draw[d]
             /\ r.page = p /\ r.born = b /\ r.kind = kind /\ r.state = "asked" /\ ~r.live
    BY <1>m, Started
  <1>l. /\ \A d \in Draws : draw'[d] = IF d = d0 THEN r ELSE draw[d]
        /\ r.page = p /\ r.born = b /\ r.kind = "open" /\ r.state = "asked" /\ ~r.live
    BY <1>k, <1>n
  <1>c. /\ \A d \in Draws : draw'[d] = IF d = d0 THEN r ELSE draw[d]
        /\ r.page = p /\ r.born = token + 1 /\ r.kind = "open" /\ r.state = "asked" /\ ~r.live
    BY <1>j, <1>l
  <1>e. \A d \in Draws : draw[d] # Nothing => draw[d].born <= token /\ draw[d].born \in Nat
    BY Drawn DEF Screen, DrawsFit, Fits, Drawings
  <1>f. \A d \in Draws : draw'[d] # Nothing /\ draw'[d].born = token' => draw'[d] = r
    BY <1>a, <1>b, <1>c, <1>e
  <1>g. main'.page = Nothing /\ main'.live = FALSE
    BY <1>a DEF Loading
  <1>h. change' # Nothing => change' = change /\ change.born <= token /\ change.born \in Nat
    BY DEF DashboardTypeOK, Screen, ChangeFits, Fits
  <1>i. Nothing # p
    BY DEF Places
  <1>1. DrawsFit'
    <2>1. \A d \in Draws : draw'[d] # Nothing => draw'[d] = r \/ draw'[d] = draw[d]
      BY <1>c
    <2> QED
      BY <1>a, <1>b, <1>c, <1>e, <2>1, <1>f DEF DrawsFit, Fits
  <1>2. TimerFits'
    BY <1>a DEF TimerFits
  <1>3. ChangeFits'
    BY <1>a, <1>b, <1>h DEF Screen, ChangeFits, Fits
  <1>4. MainFits'
    BY <1>g DEF MainFits
  <1>5. TimerIsCurrent'
    BY <1>a DEF TimerIsCurrent
  <1>6. SignedOut'
    BY DEF Screen, SignedOut
  <1>7. DrawsInApp'
    BY <1>c, <1>f DEF DrawsInApp, Ready
  <1>8. TimerInApp'
    BY <1>a DEF TimerInApp
  <1>9. TimerPolls'
    BY <1>a DEF TimerPolls
  <1>10. DrawsLive'
    BY <1>c DEF Screen, DrawsLive
  <1>11. MainLive'
    BY <1>g DEF MainLive
  <1>12. AlwaysPolled'
    BY <1>a, <1>g, <1>i DEF AlwaysPolled, OnItsPage
  <1>13. RedrawsPolled'
    BY <1>c, <1>f DEF RedrawsPolled
  <1>14. PollingIsTimer'
    BY <1>a DEF PollingIsTimer
  <1>15. PollingIsLive'
    BY <1>a, <1>g, <1>i DEF PollingIsLive, OnItsPage
  <1> QED
    BY <1>1, <1>2, <1>3, <1>4, <1>5, <1>6, <1>7, <1>8, <1>9, <1>10, <1>11, <1>12, <1>13, <1>14,
       <1>15 DEF Screen

\* The sign-in form is shown.
LEMMA LeaveKeeps ==
  ASSUME Places, DashboardTypeOK, Screen, ShowLogin, session' => late',
         \A d \in Draws : draw'[d] \in {draw[d], Nothing},
         UNCHANGED <<page, main, change, rearmed>>
  PROVE  Screen'
  <1>a. /\ page' = page /\ token' = token + 1 /\ timer' = Nothing /\ polling' = FALSE
        /\ view' = "login"
        /\ main' = main /\ change' = change /\ rearmed' = rearmed
    BY DEF ShowLogin
  <1>b. token \in Nat
    BY DEF DashboardTypeOK
  <1>e. \A d \in Draws : draw'[d] # Nothing =>
          draw'[d] = draw[d] /\ draw[d].born <= token /\ draw[d].born \in Nat
    BY Drawn DEF Screen, DrawsFit, Fits, Drawings
  <1>f. \A d \in Draws : draw'[d] # Nothing => draw'[d].born # token' /\ draw'[d].born <= token'
    BY <1>a, <1>b, <1>e
  <1>h. change # Nothing => change.born <= token /\ change.born \in Nat
    BY DEF DashboardTypeOK, Screen, ChangeFits, Fits
  <1>1. DrawsFit'
    BY <1>f DEF DrawsFit, Fits
  <1>2. TimerFits'
    BY <1>a DEF TimerFits
  <1>3. ChangeFits'
    BY <1>a, <1>b, <1>h DEF Screen, ChangeFits, Fits
  <1>4. MainFits'
    BY <1>a DEF Screen, MainFits
  <1>5. TimerIsCurrent'
    BY <1>a DEF TimerIsCurrent
  <1>6. SignedOut'
    BY DEF SignedOut
  <1>7. DrawsInApp'
    BY <1>f DEF DrawsInApp
  <1>8. TimerInApp'
    BY <1>a DEF TimerInApp
  <1>9. TimerPolls'
    BY <1>a DEF TimerPolls
  <1>10. DrawsLive'
    BY <1>e DEF Screen, DrawsLive
  <1>11. MainLive'
    BY <1>a DEF Screen, MainLive
  <1>12. AlwaysPolled'
    BY <1>a DEF AlwaysPolled, OnItsPage
  <1>13. RedrawsPolled'
    BY <1>f DEF RedrawsPolled
  <1>14. PollingIsTimer'
    BY <1>a DEF PollingIsTimer
  <1>15. PollingIsLive'
    BY <1>a DEF PollingIsLive, OnItsPage
  <1> QED
    BY <1>1, <1>2, <1>3, <1>4, <1>5, <1>6, <1>7, <1>8, <1>9, <1>10, <1>11, <1>12, <1>13, <1>14,
       <1>15 DEF Screen

\* Draws are answered, refused or dropped; a page may go back to saying nothing.
LEMMA AnswerKeeps ==
  ASSUME Places, DashboardTypeOK, Screen, main' \in {main, Loading},
         \A d \in Draws : draw'[d] # Nothing =>
           /\ draw[d] # Nothing /\ draw'[d].page = draw[d].page /\ draw'[d].born = draw[d].born
           /\ draw'[d].kind = draw[d].kind
           /\ draw'[d].live => draw[d].live \/ Polls(draw[d].page) = "unfinished"
           /\ draw'[d].state = Ready => draw[d].state = Ready \/ session,
         UNCHANGED <<view, page, token, timer, polling, change, session, rearmed, late>>
  PROVE  Screen'
  <1>b. /\ view' = view /\ page' = page /\ token' = token /\ timer' = timer /\ change' = change
        /\ polling' = polling /\ session' = session /\ rearmed' = rearmed /\ late' = late
    OBVIOUS
  <1>c. main' = main \/ (main'.page = Nothing /\ main'.live = FALSE)
    BY DEF Loading
  <1>d. page # Nothing
    BY DEF Places, DashboardTypeOK
  <1>1. DrawsFit'
    BY <1>b DEF Screen, DrawsFit, Fits
  <1>2. TimerFits'
    BY <1>b DEF Screen, TimerFits, Fits
  <1>3. ChangeFits'
    BY <1>b DEF Screen, ChangeFits, Fits
  <1>4. MainFits'
    BY <1>b, <1>c DEF Screen, MainFits
  <1>5. TimerIsCurrent'
    BY <1>b DEF Screen, TimerIsCurrent
  <1>6. SignedOut'
    BY <1>b DEF Screen, SignedOut
  <1>7. DrawsInApp'
    BY <1>b DEF Screen, DrawsInApp, SignedOut
  <1>8. TimerInApp'
    BY <1>b DEF Screen, TimerInApp
  <1>9. TimerPolls'
    BY <1>b DEF Screen, TimerPolls
  <1>10. DrawsLive'
    BY <1>b DEF Screen, DrawsLive
  <1>11. MainLive'
    BY <1>b, <1>c DEF Screen, MainLive
  <1>12. AlwaysPolled'
    BY <1>b, <1>c, <1>d DEF Screen, AlwaysPolled, OnItsPage
  <1>13. RedrawsPolled'
    BY <1>b DEF Screen, RedrawsPolled
  <1>14. PollingIsTimer'
    BY <1>b DEF Screen, PollingIsTimer
  <1>15. PollingIsLive'
    BY <1>b, <1>c, <1>d DEF Screen, PollingIsLive, OnItsPage
  <1> QED
    BY <1>1, <1>2, <1>3, <1>4, <1>5, <1>6, <1>7, <1>8, <1>9, <1>10, <1>11, <1>12, <1>13, <1>14,
       <1>15 DEF Screen

\* What happens beside the drawing.
LEMMA BesideKeeps ==
  ASSUME DashboardTypeOK, Screen, session' => session, ChangeFits',
         UNCHANGED <<view, page, token, main, timer, polling, draw, rearmed, late>>
  PROVE  Screen'
  <1>b. /\ view' = view /\ page' = page /\ token' = token /\ timer' = timer /\ main' = main
        /\ polling' = polling /\ draw' = draw /\ rearmed' = rearmed /\ late' = late
    OBVIOUS
  <1>1. DrawsFit'
    BY <1>b DEF Screen, DrawsFit, Fits
  <1>2. TimerFits'
    BY <1>b DEF Screen, TimerFits, Fits
  <1>3. ChangeFits'
    OBVIOUS
  <1>4. MainFits'
    BY <1>b DEF Screen, MainFits
  <1>5. TimerIsCurrent'
    BY <1>b DEF Screen, TimerIsCurrent
  <1>6. SignedOut'
    BY <1>b DEF Screen, SignedOut
  <1>7. DrawsInApp'
    BY <1>b DEF Screen, DrawsInApp
  <1>8. TimerInApp'
    BY <1>b DEF Screen, TimerInApp
  <1>9. TimerPolls'
    BY <1>b DEF Screen, TimerPolls
  <1>10. DrawsLive'
    BY <1>b DEF Screen, DrawsLive
  <1>11. MainLive'
    BY <1>b DEF Screen, MainLive
  <1>12. AlwaysPolled'
    BY <1>b DEF Screen, AlwaysPolled, OnItsPage
  <1>13. RedrawsPolled'
    BY <1>b DEF Screen, RedrawsPolled
  <1>14. PollingIsTimer'
    BY <1>b DEF Screen, PollingIsTimer
  <1>15. PollingIsLive'
    BY <1>b DEF Screen, PollingIsLive, OnItsPage
  <1> QED
    BY <1>1, <1>2, <1>3, <1>4, <1>5, <1>6, <1>7, <1>8, <1>9, <1>10, <1>11, <1>12, <1>13, <1>14,
       <1>15 DEF Screen

\* What an answer on time does.
LEMMA ArriveIs ==
  ASSUME Places, DashboardTypeOK, NEW d \in Draws, Arrive(d)
  PROVE  \E q \in Drawings, t \in Timers :
    /\ q = draw[d] /\ draw[d] # Nothing /\ q.state = Ready
    /\ t.page = q.page /\ t.born = q.born /\ t # Nothing
    /\ \A e \in Draws : draw'[e] = IF e = d THEN Nothing ELSE draw[e]
    /\ q.born = token => main'.page = q.page /\ main'.live = q.live
    /\ q.born # token => main' = main
    /\ \/ /\ Polls(q.page) = "always" /\ timer' = t /\ polling' = polling
          /\ rearmed' = (rearmed \/ q.born # token)
       \/ /\ Polls(q.page) = "unfinished" /\ q.born = token
          /\ timer' \in {timer, t, Nothing} /\ (polling' <=> q.live)
          /\ polling' = polling => timer' = timer
          /\ polling' # polling => timer' = IF q.live THEN t ELSE Nothing
          /\ rearmed' = rearmed
       \/ /\ ~(Polls(q.page) = "always" /\ q.kind \in {"open", "tab"})
          /\ ~(Polls(q.page) = "unfinished" /\ q.born = token)
          /\ timer' = timer /\ polling' = polling /\ rearmed' = rearmed
    /\ view' = view /\ page' = page /\ token' = token /\ change' = change /\ session' = session
    /\ late' = late
  <1>1. PICK q \in Drawings : q = draw[d] /\ draw[d] # Nothing /\ q.state = Ready
    BY Drawn DEF Arrive, Arrived
  <1> DEFINE t == [page |-> q.page, born |-> q.born]
  <1>2. t \in Timers /\ t # Nothing /\ t.page = q.page /\ t.born = q.born
    BY DEF Drawings, Timers, Places
  <1>3. \A e \in Draws : draw'[e] = IF e = d THEN Nothing ELSE draw[e]
    BY DEF Arrive, Done, DashboardTypeOK
  <1>4. (q.born = token => main'.page = q.page /\ main'.live = q.live) /\ (q.born # token => main' = main)
    BY <1>1 DEF Arrive, mount
  <1>5. autoRefresh(d) => timer' = t /\ rearmed' = (rearmed \/ q.born # token)
    BY <1>1 DEF autoRefresh
  <1>6. polling \in BOOLEAN /\ q.live \in BOOLEAN
    BY DEF DashboardTypeOK, Drawings
  <1>7. view' = view /\ page' = page /\ token' = token /\ change' = change /\ session' = session
        /\ late' = late
    BY DEF Arrive, server
  <1>8. CASE Polls(q.page) = "always" /\ q.kind \in {"open", "tab"} /\ autoRefresh(d) /\ polling' = polling
    <2> HIDE DEF t
    <2> QED
      BY <1>1, <1>2, <1>3, <1>4, <1>5, <1>7, <1>8
  <1>9. CASE Polls(q.page) = "unfinished" /\ q.born = token /\ Watch(d)
    <2>1. /\ timer' \in {timer, t, Nothing} /\ (polling' <=> q.live)
          /\ polling' = polling => timer' = timer
          /\ polling' # polling => timer' = IF q.live THEN t ELSE Nothing
          /\ rearmed' = rearmed
      <3> HIDE DEF t
      <3>0. Watch(d) /\ q = draw[d] /\ q.born = token
        BY <1>1, <1>9
      <3>1. CASE q.live /\ ~polling /\ autoRefresh(d) /\ polling' = TRUE
        <4>1. rearmed' = rearmed
          BY <3>0, <3>1, <1>5 DEF DashboardTypeOK
        <4> QED
          BY <3>1, <4>1, <1>5
      <3>2. CASE ~q.live /\ polling /\ timer' = Nothing /\ polling' = FALSE /\ UNCHANGED rearmed
        BY <3>2
      <3>3. CASE q.live = polling /\ UNCHANGED <<timer, polling, rearmed>>
        BY <3>3
      <3> QED
        BY <3>0, <3>1, <3>2, <3>3 DEF Watch
    <2> HIDE DEF t
    <2> QED
      BY <1>1, <1>2, <1>3, <1>4, <1>7, <1>9, <2>1
  <1>10. CASE /\ ~(Polls(q.page) = "always" /\ q.kind \in {"open", "tab"})
              /\ ~(Polls(q.page) = "unfinished" /\ q.born = token)
              /\ UNCHANGED <<timer, polling, rearmed>>
    <2> HIDE DEF t
    <2> QED
      BY <1>1, <1>2, <1>3, <1>4, <1>7, <1>10
  <1> QED
    BY <1>1, <1>8, <1>9, <1>10 DEF Arrive, Polls

LEMMA ArriveKeeps ==
  ASSUME Places, DashboardTypeOK, Screen, NEW d \in Draws, Arrive(d)
  PROVE  Screen'
  <1>a. PICK q \in Drawings, t \in Timers :
    /\ q = draw[d] /\ draw[d] # Nothing /\ q.state = Ready
    /\ t.page = q.page /\ t.born = q.born /\ t # Nothing
    /\ \A e \in Draws : draw'[e] = IF e = d THEN Nothing ELSE draw[e]
    /\ q.born = token => main'.page = q.page /\ main'.live = q.live
    /\ q.born # token => main' = main
    /\ \/ /\ Polls(q.page) = "always" /\ timer' = t /\ polling' = polling
          /\ rearmed' = (rearmed \/ q.born # token)
       \/ /\ Polls(q.page) = "unfinished" /\ q.born = token
          /\ timer' \in {timer, t, Nothing} /\ (polling' <=> q.live)
          /\ polling' = polling => timer' = timer
          /\ polling' # polling => timer' = IF q.live THEN t ELSE Nothing
          /\ rearmed' = rearmed
       \/ /\ ~(Polls(q.page) = "always" /\ q.kind \in {"open", "tab"})
          /\ ~(Polls(q.page) = "unfinished" /\ q.born = token)
          /\ timer' = timer /\ polling' = polling /\ rearmed' = rearmed
    /\ view' = view /\ page' = page /\ token' = token /\ change' = change /\ session' = session
    /\ late' = late
    BY ArriveIs
  <1>b. /\ view' = view /\ page' = page /\ token' = token /\ change' = change /\ session' = session
        /\ late' = late
    BY <1>a
  <1>c. rearmed => rearmed'
    BY <1>a
  <1>d. \A e \in Draws : draw'[e] # Nothing => e # d /\ draw'[e] = draw[e]
    BY <1>a
  <1>e. q.born <= token /\ (q.born = token => q.page = page \/ (rearmed /\ q.page = "logs"))
    BY <1>a DEF Screen, DrawsFit, Fits
  <1>f. \/ timer' = timer
        \/ timer' = Nothing /\ q.born = token /\ Polls(q.page) = "unfinished"
        \/ timer' = t /\ (q.born = token \/ rearmed') /\ Polls(q.page) \in {"always", "unfinished"}
    BY <1>a
  <1>g. polling \in BOOLEAN /\ page # Nothing /\ page \in Visited /\ q.page \in Visited
    BY DEF DashboardTypeOK, Places, Drawings
  <1>1. DrawsFit'
    BY <1>b, <1>c, <1>d DEF Screen, DrawsFit, Fits
  <1>2. TimerFits'
    BY <1>a, <1>b, <1>c, <1>e, <1>f DEF Screen, TimerFits, Fits
  <1>3. ChangeFits'
    BY <1>b, <1>c DEF Screen, ChangeFits, Fits
  <1>4. MainFits'
    BY <1>a, <1>b, <1>c, <1>e DEF Screen, MainFits
  <1>5. TimerIsCurrent'
    BY <1>a, <1>b, <1>c, <1>f DEF Screen, TimerIsCurrent
  <1>6. SignedOut'
    BY <1>b DEF Screen, SignedOut
  <1>7. DrawsInApp'
    BY <1>b, <1>c, <1>d DEF Screen, DrawsInApp
  <1>8. TimerInApp'
    BY <1>a, <1>b, <1>c, <1>f DEF Screen, TimerInApp, DrawsInApp
  <1>9. TimerPolls'
    BY <1>a, <1>f DEF Screen, TimerPolls
  <1>10. DrawsLive'
    BY <1>d DEF Screen, DrawsLive
  <1>11. MainLive'
    <2>1. q.live => Polls(q.page) = "unfinished"
      BY <1>a DEF Screen, DrawsLive
    <2>2. q.page # Nothing
      BY <1>g DEF Places
    <2> QED
      BY <1>a, <2>1, <2>2 DEF Screen, MainLive
  <1>12. AlwaysPolled'
    <2> SUFFICES ASSUME view = "app", main'.page = page, Polls(page) = "always", ~rearmed',
                        timer' = Nothing
                 PROVE  FALSE
      BY <1>b DEF AlwaysPolled, OnItsPage
    <2>1. ~rearmed
      BY <1>c
    <2>2. CASE q.born = token
      <3>1. q.page = page /\ Polls(q.page) = "always"
        BY <2>1, <2>2, <1>e
      <3>2. q.kind \in {"tick", "again"} /\ timer = Nothing
        BY <3>1, <1>a DEF Drawings
      <3> QED
        BY <1>a, <2>1, <2>2, <3>1, <3>2 DEF Screen, RedrawsPolled
    <2>3. CASE q.born # token
      <3>1. main' = main /\ timer = Nothing
        BY <1>a, <2>3
      <3> QED
        BY <3>1, <2>1 DEF Screen, AlwaysPolled, OnItsPage
    <2> QED
      BY <2>2, <2>3
  <1>13. RedrawsPolled'
    <2> SUFFICES ASSUME NEW e \in Draws, draw'[e] # Nothing, draw'[e].born = token,
                        Polls(draw'[e].page) = "always", draw'[e].kind \in {"tick", "again"},
                        timer' = Nothing, ~rearmed'
                 PROVE  FALSE
      BY <1>b DEF RedrawsPolled
    <2>1. ~rearmed /\ draw'[e] = draw[e] /\ draw[e] # Nothing
      BY <1>c, <1>d
    <2>2. timer # Nothing
      BY <2>1 DEF Screen, RedrawsPolled
    <2>3. q.page = page /\ Polls(q.page) = "unfinished"
      BY <1>a, <1>e, <1>f, <2>1, <2>2
    <2>4. draw[e].page = page
      BY <2>1 DEF Screen, DrawsFit, Fits
    <2> QED
      BY <2>1, <2>3, <2>4
  <1>14. PollingIsTimer'
    <2> SUFFICES ASSUME ~rearmed'
                 PROVE  polling' <=> timer' # Nothing /\ Polls(page) = "unfinished"
      BY <1>b DEF PollingIsTimer
    <2>1. ~rearmed
      BY <1>c
    <2>2. polling <=> timer # Nothing /\ Polls(page) = "unfinished"
      BY <2>1 DEF Screen, PollingIsTimer
    <2> QED
      BY <1>a, <1>e, <1>g, <2>1, <2>2
  <1>15. PollingIsLive'
    <2> SUFFICES ASSUME view = "app", main'.page = page, Polls(page) = "unfinished", ~rearmed'
                 PROVE  main'.live <=> polling'
      BY <1>b DEF PollingIsLive, OnItsPage
    <2>1. ~rearmed
      BY <1>c
    <2>2. main.page = page => (main.live <=> polling)
      BY <2>1 DEF Screen, PollingIsLive, OnItsPage
    <2> QED
      BY <1>a, <1>e, <1>g, <2>1, <2>2
  <1> QED
    BY <1>1, <1>2, <1>3, <1>4, <1>5, <1>6, <1>7, <1>8, <1>9, <1>10, <1>11, <1>12, <1>13, <1>14,
       <1>15 DEF Screen

LEMMA RedrawStarts ==
  ASSUME Places, DashboardTypeOK, Screen, NEW p \in Visited, NEW b \in Nat,
         NEW kind \in {"open", "tab", "tick", "again"}, NEW had \in Nat \cup {Nothing},
         StartDraw(p, b, kind, had), Fits(p, b),
         b = token /\ Polls(p) = "always" /\ kind \in {"tick", "again"} => timer # Nothing \/ rearmed,
         change' \in {change, Nothing},
         UNCHANGED <<view, page, token, main, timer, polling, session, rearmed, late>>
  PROVE  Screen'
  <1>1. PICK d0 \in Draws, r \in Drawings :
             /\ \A d \in Draws : draw'[d] = IF d = d0 THEN r ELSE draw[d]
             /\ r.page = p /\ r.born = b /\ r.kind = kind /\ r.state = "asked" /\ ~r.live
    BY Started
  <1>2. Fits(r.page, r.born)
    BY <1>1
  <1> QED
    BY <1>1, <1>2, RedrawKeeps

LEMMA TypesNext ==
  ASSUME Places, DashboardTypeOK, [DashboardNext]_dashboardVars
  PROVE  DashboardTypeOK'
  <1>0. CASE UNCHANGED dashboardVars
    BY <1>0 DEF dashboardVars, DashboardTypeOK, server, userList, ghosts
  <1>1. ASSUME NEW d \in Draws, Answer(d)
        PROVE  DashboardTypeOK'
    <2>1. PICK q \in Drawings : q = draw[d]
      BY <1>1, Drawn DEF Answer
    <2>2. PICK r \in Drawings : r = [q EXCEPT !.state = IF session THEN Ready ELSE "refused",
                                              !.live = running /\ routes[q.page].polls = "unfinished"]
      BY DEF Drawings, States
    <2>3. draw' = [draw EXCEPT ![d] = r]
      BY <1>1, <2>1, <2>2 DEF Answer, DashboardTypeOK
    <2>4. draw' \in [Draws -> Drawings \cup {Nothing}]
      BY <2>3, Drawn
    <2> QED
      BY <1>1, <2>4 DEF Answer, DashboardTypeOK, Drawings, server, userList, ghosts
  <1>2. ASSUME NEW d \in Draws, Arrive(d)
        PROVE  DashboardTypeOK'
    <2>1. PICK q \in Drawings, t \in Timers :
            /\ q = draw[d] /\ t.page = q.page /\ t.born = q.born
            /\ timer' \in {timer, t, Nothing}
      BY <1>2, ArriveIs
    <2>2. main' \in [page : Visited \cup {Nothing}, live : BOOLEAN]
      BY <1>2, <2>1 DEF Arrive, mount, DashboardTypeOK, Drawings
    <2>3. draw' \in [Draws -> Drawings \cup {Nothing}]
      BY <1>2, Drawn DEF Arrive, Done
    <2>4. polling' \in BOOLEAN /\ rearmed' \in BOOLEAN
      BY <1>2 DEF Arrive, autoRefresh, Watch, DashboardTypeOK
    <2> QED
      BY <1>2, <2>1, <2>2, <2>3, <2>4 DEF Arrive, DashboardTypeOK, Drawings, Timers, server, userList
  <1>3. ASSUME NEW d \in Draws, Refused(d)
        PROVE  DashboardTypeOK'
    <2>1. draw' \in [Draws -> Drawings \cup {Nothing}]
      BY <1>3, Drawn DEF Refused, Done
    <2>2. /\ view' \in {"app", "login"} /\ page' = page /\ token' \in Nat
          /\ main' \in {main, Loading} /\ timer' \in {timer, Nothing} /\ polling' \in BOOLEAN
      <3>1. view' = "login" \/ view' = view
        BY <1>3 DEF Refused, ShowLogin
      <3>2. token' \in Nat /\ timer' \in {timer, Nothing} /\ polling' \in BOOLEAN
        <4>1. \/ token' = token /\ timer' = timer /\ polling' = polling
              \/ token' = token + 1 /\ timer' = Nothing /\ polling' = FALSE
          BY <1>3 DEF Refused, ShowLogin
        <4>2. token' \in Nat
          BY <4>1 DEF DashboardTypeOK
        <4>3. polling' \in BOOLEAN
          BY <4>1, Zenon DEF DashboardTypeOK
        <4>4. timer' \in {timer, Nothing}
          BY <4>1
        <4> QED
          BY <4>2, <4>3, <4>4
      <3>3. main' \in {main, Loading} /\ page' = page
        BY <1>3 DEF Refused
      <3> QED
        BY <3>1, <3>2, <3>3 DEF DashboardTypeOK
    <2>4. late' \in BOOLEAN
      BY <1>3 DEF Refused, DashboardTypeOK, ghosts
    <2>3. /\ change' = change /\ session' = session /\ leaving' = leaving /\ running' = running /\ changes' = changes
          /\ cache' = cache /\ fetch' = fetch /\ told' = told /\ raced' = raced /\ rearmed' = rearmed
      BY <1>3 DEF Refused, server, userList, ghosts
    <2>11. /\ view' \in {"app", "login"} /\ session' \in BOOLEAN /\ running' \in BOOLEAN
           /\ page' \in Visited /\ token' \in Nat /\ leaving' \in BOOLEAN
      BY <2>1, <2>2, <2>3, <2>4 DEF DashboardTypeOK
    <2>12. main' \in [page : Visited \cup {Nothing}, live : BOOLEAN]
      <3>1. Loading \in [page : Visited \cup {Nothing}, live : BOOLEAN]
        BY DEF Loading
      <3> QED
        BY <3>1, <2>1, <2>2, <2>3, <2>4 DEF DashboardTypeOK
    <2>13. timer' \in {Nothing} \cup Timers /\ polling' \in BOOLEAN
      BY <2>1, <2>2, <2>3, <2>4 DEF DashboardTypeOK, Timers
    <2>14. draw' \in [Draws -> Drawings \cup {Nothing}]
      BY <2>1, <2>2, <2>3, <2>4 DEF DashboardTypeOK, Drawings
    <2>15. cache' \in Nat \cup {Nothing} /\ fetch' \in {Nothing} \cup [state : States, list : Nat]
      BY <2>1, <2>2, <2>3, <2>4 DEF DashboardTypeOK
    <2>16. /\ changes' \in Nat /\ told' \in Nat /\ raced' \in BOOLEAN /\ rearmed' \in BOOLEAN
           /\ late' \in BOOLEAN /\ change' \in {Nothing} \cup Forms
      BY <2>1, <2>2, <2>3, <2>4 DEF DashboardTypeOK, Forms
    <2> QED
      BY <2>11, <2>12, <2>13, <2>14, <2>15, <2>16 DEF DashboardTypeOK, Drawings, Timers, Forms
  <1>4. ASSUME NEW d \in Draws, Failed(d)
        PROVE  DashboardTypeOK'
    <2>1. draw' \in [Draws -> Drawings \cup {Nothing}]
      BY <1>4, Drawn DEF Failed, Done
    <2>2. /\ view' \in {"app", "login"} /\ page' = page /\ token' \in Nat
          /\ main' \in {main, Loading} /\ timer' \in {timer, Nothing} /\ polling' \in BOOLEAN
      <3>1. view' = "login" \/ view' = view
        BY <1>4 DEF Failed, ShowLogin
      <3>2. token' \in Nat /\ timer' \in {timer, Nothing} /\ polling' \in BOOLEAN
        <4>1. \/ token' = token /\ timer' = timer /\ polling' = polling
              \/ token' = token + 1 /\ timer' = Nothing /\ polling' = FALSE
          BY <1>4 DEF Failed, ShowLogin
        <4>2. token' \in Nat
          BY <4>1 DEF DashboardTypeOK
        <4>3. polling' \in BOOLEAN
          BY <4>1, Zenon DEF DashboardTypeOK
        <4>4. timer' \in {timer, Nothing}
          BY <4>1
        <4> QED
          BY <4>2, <4>3, <4>4
      <3>3. main' \in {main, Loading} /\ page' = page
        BY <1>4 DEF Failed
      <3> QED
        BY <3>1, <3>2, <3>3 DEF DashboardTypeOK
    <2>4. late' \in BOOLEAN
      BY <1>4 DEF Failed, DashboardTypeOK, ghosts
    <2>3. /\ change' = change /\ session' = session /\ leaving' = leaving /\ running' = running /\ changes' = changes
          /\ cache' = cache /\ fetch' = fetch /\ told' = told /\ raced' = raced /\ rearmed' = rearmed
      BY <1>4 DEF Failed, server, userList, ghosts
    <2>11. /\ view' \in {"app", "login"} /\ session' \in BOOLEAN /\ running' \in BOOLEAN
           /\ page' \in Visited /\ token' \in Nat /\ leaving' \in BOOLEAN
      BY <2>1, <2>2, <2>3, <2>4 DEF DashboardTypeOK
    <2>12. main' \in [page : Visited \cup {Nothing}, live : BOOLEAN]
      <3>1. Loading \in [page : Visited \cup {Nothing}, live : BOOLEAN]
        BY DEF Loading
      <3> QED
        BY <3>1, <2>1, <2>2, <2>3, <2>4 DEF DashboardTypeOK
    <2>13. timer' \in {Nothing} \cup Timers /\ polling' \in BOOLEAN
      BY <2>1, <2>2, <2>3, <2>4 DEF DashboardTypeOK, Timers
    <2>14. draw' \in [Draws -> Drawings \cup {Nothing}]
      BY <2>1, <2>2, <2>3, <2>4 DEF DashboardTypeOK, Drawings
    <2>15. cache' \in Nat \cup {Nothing} /\ fetch' \in {Nothing} \cup [state : States, list : Nat]
      BY <2>1, <2>2, <2>3, <2>4 DEF DashboardTypeOK
    <2>16. /\ changes' \in Nat /\ told' \in Nat /\ raced' \in BOOLEAN /\ rearmed' \in BOOLEAN
           /\ late' \in BOOLEAN /\ change' \in {Nothing} \cup Forms
      BY <2>1, <2>2, <2>3, <2>4 DEF DashboardTypeOK, Forms
    <2> QED
      BY <2>11, <2>12, <2>13, <2>14, <2>15, <2>16 DEF DashboardTypeOK, Drawings, Timers, Forms
  <1>5. ASSUME NEW d \in Draws, Ignored(d)
        PROVE  DashboardTypeOK'
    <2>1. draw' \in [Draws -> Drawings \cup {Nothing}]
      BY <1>5, Drawn DEF Ignored, Done
    <2>2. /\ view' \in {"app", "login"} /\ page' = page /\ token' \in Nat
          /\ main' \in {main, Loading} /\ timer' \in {timer, Nothing} /\ polling' \in BOOLEAN
      <3>1. view' = "login" \/ view' = view
        BY <1>5 DEF Ignored, ShowLogin
      <3>2. token' \in Nat /\ timer' \in {timer, Nothing} /\ polling' \in BOOLEAN
        <4>1. \/ token' = token /\ timer' = timer /\ polling' = polling
              \/ token' = token + 1 /\ timer' = Nothing /\ polling' = FALSE
          BY <1>5 DEF Ignored, ShowLogin
        <4>2. token' \in Nat
          BY <4>1 DEF DashboardTypeOK
        <4>3. polling' \in BOOLEAN
          BY <4>1, Zenon DEF DashboardTypeOK
        <4>4. timer' \in {timer, Nothing}
          BY <4>1
        <4> QED
          BY <4>2, <4>3, <4>4
      <3>3. main' \in {main, Loading} /\ page' = page
        BY <1>5 DEF Ignored
      <3> QED
        BY <3>1, <3>2, <3>3 DEF DashboardTypeOK
    <2>4. late' \in BOOLEAN
      BY <1>5 DEF Ignored, DashboardTypeOK, ghosts
    <2>3. /\ change' = change /\ session' = session /\ leaving' = leaving /\ running' = running /\ changes' = changes
          /\ cache' = cache /\ fetch' = fetch /\ told' = told /\ raced' = raced /\ rearmed' = rearmed
      BY <1>5 DEF Ignored, server, userList, ghosts
    <2>11. /\ view' \in {"app", "login"} /\ session' \in BOOLEAN /\ running' \in BOOLEAN
           /\ page' \in Visited /\ token' \in Nat /\ leaving' \in BOOLEAN
      BY <2>1, <2>2, <2>3, <2>4 DEF DashboardTypeOK
    <2>12. main' \in [page : Visited \cup {Nothing}, live : BOOLEAN]
      <3>1. Loading \in [page : Visited \cup {Nothing}, live : BOOLEAN]
        BY DEF Loading
      <3> QED
        BY <3>1, <2>1, <2>2, <2>3, <2>4 DEF DashboardTypeOK
    <2>13. timer' \in {Nothing} \cup Timers /\ polling' \in BOOLEAN
      BY <2>1, <2>2, <2>3, <2>4 DEF DashboardTypeOK, Timers
    <2>14. draw' \in [Draws -> Drawings \cup {Nothing}]
      BY <2>1, <2>2, <2>3, <2>4 DEF DashboardTypeOK, Drawings
    <2>15. cache' \in Nat \cup {Nothing} /\ fetch' \in {Nothing} \cup [state : States, list : Nat]
      BY <2>1, <2>2, <2>3, <2>4 DEF DashboardTypeOK
    <2>16. /\ changes' \in Nat /\ told' \in Nat /\ raced' \in BOOLEAN /\ rearmed' \in BOOLEAN
           /\ late' \in BOOLEAN /\ change' \in {Nothing} \cup Forms
      BY <2>1, <2>2, <2>3, <2>4 DEF DashboardTypeOK, Forms
    <2> QED
      BY <2>11, <2>12, <2>13, <2>14, <2>15, <2>16 DEF DashboardTypeOK, Drawings, Timers, Forms
  <1>6. ASSUME AnswerUsers
        PROVE  DashboardTypeOK'
    BY <1>6 DEF AnswerUsers, DashboardTypeOK, States, server, ghosts
  <1>7. ASSUME UsersArrive
        PROVE  DashboardTypeOK'
    <2>1. ASSUME NEW d \in Draws PROVE draw'[d] \in Drawings \cup {Nothing}
      <3>1. draw'[d] = IF draw[d] = Nothing \/ draw[d].users # Nothing THEN draw[d]
                       ELSE IF fetch.state = Ready THEN [draw[d] EXCEPT !.users = fetch.list]
                       ELSE [draw[d] EXCEPT !.users = 0, !.state = "refused"]
        BY <1>7 DEF UsersArrive
      <3>2. fetch.list \in Nat
        BY <1>7 DEF UsersArrive, DashboardTypeOK
      <3>3. CASE draw[d] = Nothing \/ draw[d].users # Nothing
        BY <3>1, <3>3, Drawn
      <3>4. CASE draw[d] # Nothing /\ draw[d].users = Nothing
        <4>1. PICK q \in Drawings : q = draw[d]
          BY <3>4, Drawn
        <4>2. [q EXCEPT !.users = fetch.list] \in Drawings
          BY <3>2 DEF Drawings
        <4>3. [q EXCEPT !.users = 0, !.state = "refused"] \in Drawings
          BY DEF Drawings, States
        <4> QED
          BY <3>1, <3>4, <4>1, <4>2, <4>3
      <3> QED
        BY <3>3, <3>4
    <2>2. draw' \in [Draws -> Drawings \cup {Nothing}]
      BY <1>7, <2>1 DEF UsersArrive
    <2>3. cache' \in Nat \cup {Nothing} /\ fetch' = Nothing
      BY <1>7 DEF UsersArrive, DashboardTypeOK
    <2>4. /\ leaving' = leaving /\ view' = view /\ page' = page /\ token' = token /\ main' = main
          /\ timer' = timer /\ polling' = polling /\ change' = change /\ session' = session
          /\ running' = running /\ changes' = changes /\ told' = told /\ raced' = raced
          /\ rearmed' = rearmed /\ late' = late
      BY <1>7 DEF UsersArrive, server, ghosts
    <2> QED
      BY <2>2, <2>3, <2>4 DEF DashboardTypeOK, Drawings
  <1>8. ASSUME Login
        PROVE  DashboardTypeOK'
    <2>0. page \in Visited /\ token + 1 \in Nat
          /\ cache \in Nat \cup {Nothing}
      BY DEF DashboardTypeOK
    <2>1. PICK q \in Visited, b \in Nat, had \in Nat \cup {Nothing} :
            q = page /\ had = cache /\ b = token + 1
      BY <2>0
    <2>2. /\ StartDraw(q, b, "open", had) /\ "open" \in {"open", "tab", "tick", "again"}
          /\ page' = q /\ token' = b /\ timer' = Nothing /\ polling' = FALSE /\ main' = Loading
      BY <1>8, <2>1 DEF Login, Open, StartDraw
    <2>3. /\ draw' \in [Draws -> Drawings \cup {Nothing}] /\ cache' \in {had, Nothing}
          /\ fetch' = fetch \/ fetch' = [state |-> "asked", list |-> 0]
      BY <2>2, Started
    <2>4. cache' \in Nat \cup {Nothing} /\ fetch' \in {Nothing} \cup [state : States, list : Nat]
      BY <2>3 DEF DashboardTypeOK, States
    <2> QED
      BY <1>8, <2>2, <2>3, <2>4
         DEF Login, Hear, Loading, DashboardTypeOK, Drawings, server, userList, ghosts
  <1>9. ASSUME Logout
        PROVE  DashboardTypeOK'
    BY <1>9 DEF Logout, DashboardTypeOK, server, userList, ghosts
  <1>10. ASSUME Expire
        PROVE  DashboardTypeOK'
    <2>1. /\ leaving' = leaving /\ view' = view /\ page' = page /\ token' = token /\ main' = main
          /\ timer' = timer /\ polling' = polling
          /\ draw' = draw /\ change' = change /\ running' = running /\ changes' = changes
          /\ cache' = cache /\ fetch' = fetch /\ told' = told /\ raced' = raced
          /\ rearmed' = rearmed /\ late' = late
      BY <1>10 DEF Expire, ShowLogin, server, userList, ghosts
    <2>2. session' = FALSE
      BY <1>10 DEF Expire
    <2>11. /\ view' \in {"app", "login"} /\ session' \in BOOLEAN /\ running' \in BOOLEAN
           /\ page' \in Visited /\ token' \in Nat /\ leaving' \in BOOLEAN
      BY <2>1, <2>2 DEF DashboardTypeOK
    <2>12. main' \in [page : Visited \cup {Nothing}, live : BOOLEAN]
      <3>1. Loading \in [page : Visited \cup {Nothing}, live : BOOLEAN]
        BY DEF Loading
      <3> QED
        BY <3>1, <2>1, <2>2 DEF DashboardTypeOK
    <2>13. timer' \in {Nothing} \cup Timers /\ polling' \in BOOLEAN
      BY <2>1, <2>2 DEF DashboardTypeOK, Timers
    <2>14. draw' \in [Draws -> Drawings \cup {Nothing}]
      BY <2>1, <2>2 DEF DashboardTypeOK, Drawings
    <2>15. cache' \in Nat \cup {Nothing} /\ fetch' \in {Nothing} \cup [state : States, list : Nat]
      BY <2>1, <2>2 DEF DashboardTypeOK
    <2>16. /\ changes' \in Nat /\ told' \in Nat /\ raced' \in BOOLEAN /\ rearmed' \in BOOLEAN
           /\ late' \in BOOLEAN /\ change' \in {Nothing} \cup Forms
      BY <2>1, <2>2 DEF DashboardTypeOK, Forms
    <2> QED
      BY <2>11, <2>12, <2>13, <2>14, <2>15, <2>16 DEF DashboardTypeOK, Drawings, Timers, Forms
  <1>11. ASSUME Tick
        PROVE  DashboardTypeOK'
    <2>1. timer \in Timers /\ timer # Nothing
      BY <1>11 DEF Tick, DashboardTypeOK, Timers
    <2>2. PICK q \in Visited, b \in Nat, had \in Nat \cup {Nothing} :
            /\ q = timer.page
            /\ had = cache
            /\ b = IF routes[timer.page].token = "drawn" THEN token ELSE timer.born
      BY <2>1 DEF DashboardTypeOK, Timers, Forms
    <2>3. StartDraw(q, b, "tick", had) /\ "tick" \in {"open", "tab", "tick", "again"}
      BY <1>11, <2>2 DEF Tick, StartDraw
    <2>4. /\ draw' \in [Draws -> Drawings \cup {Nothing}] /\ cache' \in {had, Nothing}
          /\ fetch' = fetch \/ fetch' = [state |-> "asked", list |-> 0]
      BY <2>3, Started
    <2>5. cache' \in Nat \cup {Nothing} /\ fetch' \in {Nothing} \cup [state : States, list : Nat]
      BY <2>4 DEF DashboardTypeOK, States
    <2> QED
      BY <1>11, <2>4, <2>5 DEF Tick, Hear, DashboardTypeOK, Drawings, server, userList, ghosts
  <1>12. ASSUME NEW p \in Visited, Navigate(p)
        PROVE  DashboardTypeOK'
    <2>0. page \in Visited /\ token + 1 \in Nat
          /\ cache \in Nat \cup {Nothing}
      BY DEF DashboardTypeOK
    <2>1. PICK q \in Visited, b \in Nat, had \in Nat \cup {Nothing} :
            q = p /\ had = cache /\ b = token + 1
      BY <2>0
    <2>2. /\ StartDraw(q, b, "open", had) /\ "open" \in {"open", "tab", "tick", "again"}
          /\ page' = q /\ token' = b /\ timer' = Nothing /\ polling' = FALSE /\ main' = Loading
      BY <1>12, <2>1 DEF Navigate, Open, StartDraw
    <2>3. /\ draw' \in [Draws -> Drawings \cup {Nothing}] /\ cache' \in {had, Nothing}
          /\ fetch' = fetch \/ fetch' = [state |-> "asked", list |-> 0]
      BY <2>2, Started
    <2>4. cache' \in Nat \cup {Nothing} /\ fetch' \in {Nothing} \cup [state : States, list : Nat]
      BY <2>3 DEF DashboardTypeOK, States
    <2> QED
      BY <1>12, <2>2, <2>3, <2>4
         DEF Navigate, Hear, Loading, DashboardTypeOK, Drawings, server, userList, ghosts
  <1>13. ASSUME Filter
        PROVE  DashboardTypeOK'
    <2>1. page \in Visited /\ token \in Nat
      BY DEF DashboardTypeOK
    <2>2. PICK q \in Visited, b \in Nat, had \in Nat \cup {Nothing} :
            /\ q = page /\ had = cache
            /\ b = token
      BY <2>1 DEF DashboardTypeOK, Timers, Forms
    <2>3. StartDraw(q, b, "again", had) /\ "again" \in {"open", "tab", "tick", "again"}
      BY <1>13, <2>2 DEF Filter, StartDraw
    <2>4. /\ draw' \in [Draws -> Drawings \cup {Nothing}] /\ cache' \in {had, Nothing}
          /\ fetch' = fetch \/ fetch' = [state |-> "asked", list |-> 0]
      BY <2>3, Started
    <2>5. cache' \in Nat \cup {Nothing} /\ fetch' \in {Nothing} \cup [state : States, list : Nat]
      BY <2>4 DEF DashboardTypeOK, States
    <2> QED
      BY <1>13, <2>4, <2>5 DEF Filter, Hear, DashboardTypeOK, Drawings, server, userList, ghosts
  <1>14. ASSUME logTabs
        PROVE  DashboardTypeOK'
    <2>1. page \in Visited /\ token \in Nat
      BY DEF DashboardTypeOK
    <2>2. PICK q \in Visited, b \in Nat, had \in Nat \cup {Nothing} :
            /\ q = page /\ had = cache
            /\ b = token
      BY <2>1 DEF DashboardTypeOK, Timers, Forms
    <2>3. StartDraw(q, b, "tab", had) /\ "tab" \in {"open", "tab", "tick", "again"}
      BY <1>14, <2>2 DEF logTabs, StartDraw
    <2>4. /\ draw' \in [Draws -> Drawings \cup {Nothing}] /\ cache' \in {had, Nothing}
          /\ fetch' = fetch \/ fetch' = [state |-> "asked", list |-> 0]
      BY <2>3, Started
    <2>5. cache' \in Nat \cup {Nothing} /\ fetch' \in {Nothing} \cup [state : States, list : Nat]
      BY <2>4 DEF DashboardTypeOK, States
    <2> QED
      BY <1>14, <2>4, <2>5 DEF logTabs, Hear, DashboardTypeOK, Drawings, server, userList, ghosts
  <1>15. ASSUME cancelUpload
        PROVE  DashboardTypeOK'
    <2>1. page \in Visited /\ token \in Nat
      BY DEF DashboardTypeOK
    <2>2. PICK q \in Visited, b \in Nat, had \in Nat \cup {Nothing} :
            /\ q = page /\ had = cache
            /\ b = token
      BY <2>1 DEF DashboardTypeOK, Timers, Forms
    <2>3. StartDraw(q, b, "again", had) /\ "again" \in {"open", "tab", "tick", "again"}
      BY <1>15, <2>2 DEF cancelUpload, StartDraw
    <2>4. /\ draw' \in [Draws -> Drawings \cup {Nothing}] /\ cache' \in {had, Nothing}
          /\ fetch' = fetch \/ fetch' = [state |-> "asked", list |-> 0]
      BY <2>3, Started
    <2>5. cache' \in Nat \cup {Nothing} /\ fetch' \in {Nothing} \cup [state : States, list : Nat]
      BY <2>4 DEF DashboardTypeOK, States
    <2> QED
      BY <1>15, <2>4, <2>5 DEF cancelUpload, Hear, DashboardTypeOK, Drawings, server, userList, ghosts
  <1>16. ASSUME ActOnUpload
        PROVE  DashboardTypeOK'
    <2>1. page \in Visited /\ token \in Nat
      BY DEF DashboardTypeOK
    <2>2. PICK q \in Visited, b \in Nat, had \in Nat \cup {Nothing} :
            /\ q = page /\ had = cache
            /\ b = token
      BY <2>1 DEF DashboardTypeOK, Timers, Forms
    <2>3. StartDraw(q, b, "again", had) /\ "again" \in {"open", "tab", "tick", "again"}
      BY <1>16, <2>2 DEF ActOnUpload, StartDraw
    <2>4. /\ draw' \in [Draws -> Drawings \cup {Nothing}] /\ cache' \in {had, Nothing}
          /\ fetch' = fetch \/ fetch' = [state |-> "asked", list |-> 0]
      BY <2>3, Started
    <2>5. cache' \in Nat \cup {Nothing} /\ fetch' \in {Nothing} \cup [state : States, list : Nat]
      BY <2>4 DEF DashboardTypeOK, States
    <2> QED
      BY <1>16, <2>4, <2>5 DEF ActOnUpload, Hear, DashboardTypeOK, Drawings, server, userList, ghosts
  <1>17. ASSUME UploadEnds
        PROVE  DashboardTypeOK'
    <2>1. /\ leaving' = leaving /\ view' = view /\ page' = page /\ token' = token /\ main' = main
          /\ timer' = timer /\ polling' = polling
          /\ draw' = draw /\ change' = change /\ session' = session /\ changes' = changes
          /\ cache' = cache /\ fetch' = fetch /\ told' = told /\ raced' = raced
          /\ rearmed' = rearmed /\ late' = late
      BY <1>17 DEF UploadEnds, ShowLogin, server, userList, ghosts
    <2>2. running' = FALSE
      BY <1>17 DEF UploadEnds
    <2>11. /\ view' \in {"app", "login"} /\ session' \in BOOLEAN /\ running' \in BOOLEAN
           /\ page' \in Visited /\ token' \in Nat /\ leaving' \in BOOLEAN
      BY <2>1, <2>2 DEF DashboardTypeOK
    <2>12. main' \in [page : Visited \cup {Nothing}, live : BOOLEAN]
      <3>1. Loading \in [page : Visited \cup {Nothing}, live : BOOLEAN]
        BY DEF Loading
      <3> QED
        BY <3>1, <2>1, <2>2 DEF DashboardTypeOK
    <2>13. timer' \in {Nothing} \cup Timers /\ polling' \in BOOLEAN
      BY <2>1, <2>2 DEF DashboardTypeOK, Timers
    <2>14. draw' \in [Draws -> Drawings \cup {Nothing}]
      BY <2>1, <2>2 DEF DashboardTypeOK, Drawings
    <2>15. cache' \in Nat \cup {Nothing} /\ fetch' \in {Nothing} \cup [state : States, list : Nat]
      BY <2>1, <2>2 DEF DashboardTypeOK
    <2>16. /\ changes' \in Nat /\ told' \in Nat /\ raced' \in BOOLEAN /\ rearmed' \in BOOLEAN
           /\ late' \in BOOLEAN /\ change' \in {Nothing} \cup Forms
      BY <2>1, <2>2 DEF DashboardTypeOK, Forms
    <2> QED
      BY <2>11, <2>12, <2>13, <2>14, <2>15, <2>16 DEF DashboardTypeOK, Drawings, Timers, Forms
  <1>18. ASSUME NEW kind \in {"edit", "token"}, Send(kind)
        PROVE  DashboardTypeOK'
    BY <1>18 DEF Send, DashboardTypeOK, server, userList, ghosts
  <1>19. ASSUME MakeChange
        PROVE  DashboardTypeOK'
    <2>1. /\ leaving' = leaving /\ view' = view /\ page' = page /\ token' = token /\ main' = main
          /\ timer' = timer /\ polling' = polling
          /\ draw' = draw /\ session' = session /\ running' = running /\ cache' = cache
          /\ fetch' = fetch /\ told' = told /\ raced' = raced /\ rearmed' = rearmed /\ late' = late
      BY <1>19 DEF MakeChange, ShowLogin, server, userList, ghosts
    <2>3. PICK c \in Forms : c = change
      BY <1>19 DEF MakeChange, DashboardTypeOK, Forms
    <2>4. [c EXCEPT !.made = TRUE] \in Forms
      BY DEF Forms
    <2>2. changes' \in Nat /\ change' \in {Nothing} \cup Forms
      BY <1>19, <2>3, <2>4 DEF MakeChange, DashboardTypeOK
    <2>11. /\ view' \in {"app", "login"} /\ session' \in BOOLEAN /\ running' \in BOOLEAN
           /\ page' \in Visited /\ token' \in Nat /\ leaving' \in BOOLEAN
      BY <2>1, <2>2 DEF DashboardTypeOK
    <2>12. main' \in [page : Visited \cup {Nothing}, live : BOOLEAN]
      <3>1. Loading \in [page : Visited \cup {Nothing}, live : BOOLEAN]
        BY DEF Loading
      <3> QED
        BY <3>1, <2>1, <2>2 DEF DashboardTypeOK
    <2>13. timer' \in {Nothing} \cup Timers /\ polling' \in BOOLEAN
      BY <2>1, <2>2 DEF DashboardTypeOK, Timers
    <2>14. draw' \in [Draws -> Drawings \cup {Nothing}]
      BY <2>1, <2>2 DEF DashboardTypeOK, Drawings
    <2>15. cache' \in Nat \cup {Nothing} /\ fetch' \in {Nothing} \cup [state : States, list : Nat]
      BY <2>1, <2>2 DEF DashboardTypeOK
    <2>16. /\ changes' \in Nat /\ told' \in Nat /\ raced' \in BOOLEAN /\ rearmed' \in BOOLEAN
           /\ late' \in BOOLEAN /\ change' \in {Nothing} \cup Forms
      BY <2>1, <2>2 DEF DashboardTypeOK, Forms
    <2> QED
      BY <2>11, <2>12, <2>13, <2>14, <2>15, <2>16 DEF DashboardTypeOK, Drawings, Timers, Forms
  <1>20. ASSUME Escape
        PROVE  DashboardTypeOK'
    <2>1. /\ leaving' = leaving /\ view' = view /\ page' = page /\ token' = token /\ main' = main
          /\ timer' = timer /\ polling' = polling
          /\ draw' = draw /\ session' = session /\ running' = running /\ changes' = changes
          /\ cache' = cache /\ fetch' = fetch /\ told' = told /\ raced' = raced
          /\ rearmed' = rearmed /\ late' = late
      BY <1>20 DEF Escape, ShowLogin, server, userList, ghosts
    <2>2. change' \in {Nothing} \cup Forms
      BY <1>20 DEF Escape, DashboardTypeOK, Forms
    <2>11. /\ view' \in {"app", "login"} /\ session' \in BOOLEAN /\ running' \in BOOLEAN
           /\ page' \in Visited /\ token' \in Nat /\ leaving' \in BOOLEAN
      BY <2>1, <2>2 DEF DashboardTypeOK
    <2>12. main' \in [page : Visited \cup {Nothing}, live : BOOLEAN]
      <3>1. Loading \in [page : Visited \cup {Nothing}, live : BOOLEAN]
        BY DEF Loading
      <3> QED
        BY <3>1, <2>1, <2>2 DEF DashboardTypeOK
    <2>13. timer' \in {Nothing} \cup Timers /\ polling' \in BOOLEAN
      BY <2>1, <2>2 DEF DashboardTypeOK, Timers
    <2>14. draw' \in [Draws -> Drawings \cup {Nothing}]
      BY <2>1, <2>2 DEF DashboardTypeOK, Drawings
    <2>15. cache' \in Nat \cup {Nothing} /\ fetch' \in {Nothing} \cup [state : States, list : Nat]
      BY <2>1, <2>2 DEF DashboardTypeOK
    <2>16. /\ changes' \in Nat /\ told' \in Nat /\ raced' \in BOOLEAN /\ rearmed' \in BOOLEAN
           /\ late' \in BOOLEAN /\ change' \in {Nothing} \cup Forms
      BY <2>1, <2>2 DEF DashboardTypeOK, Forms
    <2> QED
      BY <2>11, <2>12, <2>13, <2>14, <2>15, <2>16 DEF DashboardTypeOK, Drawings, Timers, Forms
  <1>21. ASSUME Saved
        PROVE  DashboardTypeOK'
    <2>0. page \in Visited /\ token + 1 \in Nat
          /\ Nothing \in Nat \cup {Nothing}
      BY DEF DashboardTypeOK
    <2>1. PICK q \in Visited, b \in Nat, had \in Nat \cup {Nothing} :
            q = page /\ had = Nothing /\ b = token + 1
      BY <2>0
    <2>2. /\ StartDraw(q, b, "open", had) /\ "open" \in {"open", "tab", "tick", "again"}
          /\ page' = q /\ token' = b /\ timer' = Nothing /\ polling' = FALSE /\ main' = Loading
      BY <1>21, <2>1 DEF Saved, Open, StartDraw
    <2>3. /\ draw' \in [Draws -> Drawings \cup {Nothing}] /\ cache' \in {had, Nothing}
          /\ fetch' = fetch \/ fetch' = [state |-> "asked", list |-> 0]
      BY <2>2, Started
    <2>4. cache' \in Nat \cup {Nothing} /\ fetch' \in {Nothing} \cup [state : States, list : Nat]
      BY <2>3 DEF DashboardTypeOK, States
    <2> QED
      BY <1>21, <2>2, <2>3, <2>4
         DEF Saved, Hear, Loading, DashboardTypeOK, Drawings, server, userList, ghosts
  <1>22. ASSUME Redrawn
        PROVE  DashboardTypeOK'
    <2>1. change \in Forms /\ change # Nothing
      BY <1>22 DEF Redrawn, Heard, DashboardTypeOK, Forms
    <2>2. PICK q \in Visited, b \in Nat, had \in Nat \cup {Nothing} :
            /\ q = change.page /\ had = cache
            /\ b = change.born
      BY <2>1 DEF DashboardTypeOK, Timers, Forms
    <2>3. StartDraw(q, b, "again", had) /\ "again" \in {"open", "tab", "tick", "again"}
      BY <1>22, <2>2 DEF Redrawn, StartDraw
    <2>4. /\ draw' \in [Draws -> Drawings \cup {Nothing}] /\ cache' \in {had, Nothing}
          /\ fetch' = fetch \/ fetch' = [state |-> "asked", list |-> 0]
      BY <2>3, Started
    <2>5. cache' \in Nat \cup {Nothing} /\ fetch' \in {Nothing} \cup [state : States, list : Nat]
      BY <2>4 DEF DashboardTypeOK, States
    <2> QED
      BY <1>22, <2>4, <2>5 DEF Redrawn, Hear, DashboardTypeOK, Drawings, server, userList, ghosts
  <1>23. ASSUME Unheard
        PROVE  DashboardTypeOK'
    BY <1>23 DEF Unheard, DashboardTypeOK, server, userList, ghosts
  <1>24. ASSUME UsersFail
        PROVE  DashboardTypeOK'
    <2>1. ASSUME NEW d \in Draws PROVE draw'[d] \in Drawings \cup {Nothing}
      <3>1. draw'[d] = IF draw[d] = Nothing \/ draw[d].users # Nothing THEN draw[d]
                       ELSE [draw[d] EXCEPT !.users = 0, !.state = "failed"]
        BY <1>24 DEF UsersFail
      <3>3. CASE draw[d] = Nothing \/ draw[d].users # Nothing
        BY <3>1, <3>3, Drawn
      <3>4. CASE draw[d] # Nothing /\ draw[d].users = Nothing
        <4>1. PICK q \in Drawings : q = draw[d]
          BY <3>4, Drawn
        <4>3. [q EXCEPT !.users = 0, !.state = "failed"] \in Drawings
          BY DEF Drawings, States
        <4> QED
          BY <3>1, <3>4, <4>1, <4>3
      <3> QED
        BY <3>3, <3>4
    <2>2. draw' \in [Draws -> Drawings \cup {Nothing}]
      BY <1>24, <2>1 DEF UsersFail
    <2>3. cache' \in Nat \cup {Nothing} /\ fetch' = Nothing
      BY <1>24 DEF UsersFail, DashboardTypeOK
    <2>4. /\ leaving' = leaving /\ view' = view /\ page' = page /\ token' = token /\ main' = main
          /\ timer' = timer /\ polling' = polling /\ change' = change /\ session' = session
          /\ running' = running /\ changes' = changes /\ told' = told /\ raced' = raced
          /\ rearmed' = rearmed /\ late' = late
      BY <1>24 DEF UsersFail, server, ghosts
    <2> QED
      BY <2>2, <2>3, <2>4 DEF DashboardTypeOK, Drawings
  <1>25. ASSUME LoggedOut
        PROVE  DashboardTypeOK'
    <2>1. /\ page' = page /\ main' = main /\ draw' = draw /\ change' = change
          /\ running' = running /\ changes' = changes
          /\ fetch' = fetch /\ told' = told /\ raced' = raced /\ rearmed' = rearmed
          /\ session' = session
      BY <1>25 DEF LoggedOut, ShowLogin, server, userList, ghosts
    <2>2. view' = "login" /\ token' \in Nat /\ timer' = Nothing /\ polling' = FALSE /\ leaving' = FALSE
          /\ cache' = Nothing /\ late' \in BOOLEAN
      BY <1>25 DEF LoggedOut, ShowLogin, DashboardTypeOK
    <2>11. /\ view' \in {"app", "login"} /\ session' \in BOOLEAN /\ running' \in BOOLEAN
           /\ page' \in Visited /\ token' \in Nat /\ leaving' \in BOOLEAN
      BY <2>1, <2>2 DEF DashboardTypeOK
    <2>12. main' \in [page : Visited \cup {Nothing}, live : BOOLEAN]
      <3>1. Loading \in [page : Visited \cup {Nothing}, live : BOOLEAN]
        BY DEF Loading
      <3> QED
        BY <3>1, <2>1, <2>2 DEF DashboardTypeOK
    <2>13. timer' \in {Nothing} \cup Timers /\ polling' \in BOOLEAN
      BY <2>1, <2>2 DEF DashboardTypeOK, Timers
    <2>14. draw' \in [Draws -> Drawings \cup {Nothing}]
      BY <2>1, <2>2 DEF DashboardTypeOK, Drawings
    <2>15. cache' \in Nat \cup {Nothing} /\ fetch' \in {Nothing} \cup [state : States, list : Nat]
      BY <2>1, <2>2 DEF DashboardTypeOK
    <2>16. /\ changes' \in Nat /\ told' \in Nat /\ raced' \in BOOLEAN /\ rearmed' \in BOOLEAN
           /\ late' \in BOOLEAN /\ change' \in {Nothing} \cup Forms
      BY <2>1, <2>2 DEF DashboardTypeOK, Forms
    <2> QED
      BY <2>11, <2>12, <2>13, <2>14, <2>15, <2>16 DEF DashboardTypeOK, Drawings, Timers, Forms
  <1>26. ASSUME Issued
        PROVE  DashboardTypeOK'
    <2>1. PICK q \in Forms : q = change /\ change # Nothing
      BY <1>26 DEF Issued, Heard, DashboardTypeOK, Forms
    <2>2. [q EXCEPT !.heard = TRUE] \in Forms
      BY DEF Forms
    <2>3. change' \in Forms /\ cache' = Nothing /\ told' = changes /\ raced' = (fetch # Nothing)
      BY <1>26, <2>1, <2>2 DEF Issued, Hear
    <2>4. raced' \in BOOLEAN
      BY <2>3, Zenon
    <2>5. told' \in Nat
      BY <2>3 DEF DashboardTypeOK
    <2>6. /\ leaving' = leaving /\ view' = view /\ page' = page /\ token' = token /\ main' = main
          /\ timer' = timer /\ polling' = polling /\ draw' = draw /\ fetch' = fetch
          /\ session' = session /\ running' = running /\ changes' = changes
          /\ rearmed' = rearmed /\ late' = late
      BY <1>26 DEF Issued, Hear, server
    <2> QED
      BY <2>3, <2>4, <2>5, <2>6 DEF DashboardTypeOK, Forms
  <1> QED
    BY <1>0, <1>1, <1>2, <1>3, <1>4, <1>5, <1>6, <1>7, <1>8, <1>9, <1>10, <1>11,
       <1>12, <1>13, <1>14, <1>15, <1>16, <1>17, <1>18, <1>19, <1>20, <1>21, <1>22, <1>23,
       <1>24, <1>25, <1>26
       DEF DashboardNext

LEMMA ScreenNext ==
  ASSUME Places, DashboardTypeOK, Screen, [DashboardNext]_dashboardVars
  PROVE  Screen'
  <1>0. CASE UNCHANGED dashboardVars
    <2>1. ChangeFits' /\ session' = session
          /\ UNCHANGED <<view, page, token, main, timer, polling, draw, rearmed, late>>
      BY <1>0 DEF dashboardVars, Screen, ChangeFits, Fits, server, ghosts
    <2> QED
      BY <2>1, BesideKeeps
  <1>1. ASSUME NEW d \in Draws, Answer(d)
        PROVE  Screen'
    <2>1. PICK q \in Drawings : q = draw[d] /\ draw[d] # Nothing
      BY <1>1, Drawn DEF Answer
    <2>2. PICK r \in Drawings : r = [q EXCEPT !.state = IF session THEN Ready ELSE "refused",
                                              !.live = running /\ routes[q.page].polls = "unfinished"]
      BY DEF Drawings, States
    <2>3. draw' = [draw EXCEPT ![d] = r]
      BY <1>1, <2>1, <2>2 DEF Answer, DashboardTypeOK
    <2>4. \A e \in Draws : draw'[e] = IF e = d THEN r ELSE draw[e]
      BY <2>3 DEF DashboardTypeOK
    <2>5. /\ r.page = q.page /\ r.born = q.born /\ r.kind = q.kind
          /\ r.live => Polls(q.page) = "unfinished"
          /\ r.state = Ready => session
      BY <2>2 DEF Drawings, Polls, Ready
    <2>6. UNCHANGED <<view, page, token, timer, polling, change, session, rearmed, late, main>>
      BY <1>1 DEF Answer, server, ghosts
    <2> QED
      BY <2>1, <2>4, <2>5, <2>6, AnswerKeeps
  <1>2. ASSUME NEW d \in Draws, Arrive(d)
        PROVE  Screen'
    BY <1>2, ArriveKeeps
  <1>3. ASSUME NEW d \in Draws, Refused(d)
        PROVE  Screen'
    <2>1. \A e \in Draws : draw'[e] \in {draw[e], Nothing}
      BY <1>3 DEF Refused, Done, DashboardTypeOK
    <2>2. ShowLogin /\ (session' => late') /\ UNCHANGED <<page, main, change, rearmed>>
      BY <1>3 DEF Refused, server
    <2> QED
      BY <2>1, <2>2, LeaveKeeps
  <1>4. ASSUME NEW d \in Draws, Failed(d)
        PROVE  Screen'
    <2>1. \A e \in Draws : draw'[e] # Nothing => draw'[e] = draw[e]
      BY <1>4 DEF Failed, Done, DashboardTypeOK
    <2>2. UNCHANGED <<view, page, token, timer, polling, change, session, rearmed, late>>
          /\ main' \in {main, Loading}
      BY <1>4 DEF Failed, server, ghosts
    <2> QED
      BY <2>1, <2>2, AnswerKeeps
  <1>5. ASSUME NEW d \in Draws, Ignored(d)
        PROVE  Screen'
    <2>1. \A e \in Draws : draw'[e] # Nothing => draw'[e] = draw[e]
      BY <1>5 DEF Ignored, Done, DashboardTypeOK
    <2>2. UNCHANGED <<view, page, token, timer, polling, change, session, rearmed, late>>
          /\ main' \in {main, Loading}
      BY <1>5 DEF Ignored, server, ghosts
    <2> QED
      BY <2>1, <2>2, AnswerKeeps
  <1>6. ASSUME AnswerUsers
        PROVE  Screen'
    <2>1. ChangeFits'
      BY <1>6 DEF AnswerUsers, Screen, ChangeFits, Fits, ghosts
    <2>2. (session' => session) /\ UNCHANGED <<view, page, token, main, timer, polling, draw, rearmed, late>>
      BY <1>6 DEF AnswerUsers, server, ghosts
    <2> QED
      BY <2>1, <2>2, BesideKeeps
  <1>7. ASSUME UsersArrive
        PROVE  Screen'
    <2>1. ASSUME NEW d \in Draws, draw'[d] # Nothing
          PROVE  /\ draw[d] # Nothing /\ draw'[d].page = draw[d].page /\ draw'[d].born = draw[d].born
                 /\ draw'[d].kind = draw[d].kind /\ (draw'[d].live <=> draw[d].live)
                 /\ draw'[d].state = Ready => draw[d].state = Ready
      <3>1. draw'[d] = IF draw[d] = Nothing \/ draw[d].users # Nothing THEN draw[d]
                       ELSE IF fetch.state = Ready THEN [draw[d] EXCEPT !.users = fetch.list]
                       ELSE [draw[d] EXCEPT !.users = 0, !.state = "refused"]
        BY <1>7 DEF UsersArrive
      <3>2. draw[d] \in Drawings
        BY <2>1, <3>1, Drawn
      <3> QED
        BY <2>1, <3>1, <3>2 DEF Drawings, Ready
    <2>2. UNCHANGED <<view, page, token, timer, polling, change, session, rearmed, late, main>>
      BY <1>7 DEF UsersArrive, server, ghosts
    <2> QED
      BY <2>1, <2>2, AnswerKeeps
  <1>8. ASSUME Login
        PROVE  Screen'
    <2>1. PICK q \in Visited, had \in Nat \cup {Nothing} : q = page /\ had = cache
      BY <1>8 DEF DashboardTypeOK
    <2>2. Open(q, had)
      BY <1>8, <2>1 DEF Login, Open, StartDraw
    <2>3. /\ view' \in {"app", view} /\ (view' = "login" => session' = session /\ late' = late)
          /\ rearmed' = rearmed /\ change' \in {change, Nothing}
      BY <1>8 DEF Login, Hear, server, ghosts
    <2> QED
      BY <2>2, <2>3, OpenKeeps
  <1>9. ASSUME Logout
        PROVE  Screen'
    <2>1. ChangeFits'
      BY <1>9 DEF Logout, Screen, ChangeFits, Fits, ghosts
    <2>2. (session' => session) /\ UNCHANGED <<view, page, token, main, timer, polling, draw, rearmed, late>>
      BY <1>9 DEF Logout, server, ghosts
    <2> QED
      BY <2>1, <2>2, BesideKeeps
  <1>10. ASSUME Expire
        PROVE  Screen'
    <2>1. ChangeFits'
      BY <1>10 DEF Expire, Screen, ChangeFits, Fits, ghosts
    <2>2. (session' => session) /\ UNCHANGED <<view, page, token, main, timer, polling, draw, rearmed, late>>
      BY <1>10 DEF Expire, server, ghosts
    <2> QED
      BY <2>1, <2>2, BesideKeeps
  <1>11. ASSUME Tick
        PROVE  Screen'
    <2>1. timer \in Timers /\ timer # Nothing
      BY <1>11 DEF Tick, DashboardTypeOK, Timers
    <2>2. PICK q \in Visited, b \in Nat, had \in Nat \cup {Nothing} :
            /\ q = timer.page
            /\ had = cache
            /\ b = IF routes[timer.page].token = "drawn" THEN token ELSE timer.born
      BY <2>1 DEF DashboardTypeOK, Timers, Forms
    <2>3. StartDraw(q, b, "tick", had) /\ "tick" \in {"open", "tab", "tick", "again"}
      BY <1>11, <2>2 DEF Tick, StartDraw
    <2>4. Fits(q, b)
      BY <1>11, <2>1, <2>2, Routes
         DEF Screen, TimerFits, TimerIsCurrent, Fits, DashboardTypeOK, Timers
    <2>5. timer # Nothing
      BY <2>1
    <2>6. /\ change' \in {change, Nothing}
          /\ UNCHANGED <<view, page, token, main, timer, polling, session, rearmed, late>>
      BY <1>11 DEF Tick, Hear, server, ghosts
    <2> QED
      BY <2>3, <2>4, <2>5, <2>6, RedrawStarts
  <1>12. ASSUME NEW p \in Visited, Navigate(p)
        PROVE  Screen'
    <2>1. PICK q \in Visited, had \in Nat \cup {Nothing} : q = p /\ had = cache
      BY <1>12 DEF DashboardTypeOK
    <2>2. Open(q, had)
      BY <1>12, <2>1 DEF Navigate, Open, StartDraw
    <2>3. /\ view' \in {"app", view} /\ (view' = "login" => session' = session /\ late' = late)
          /\ rearmed' = rearmed /\ change' \in {change, Nothing}
      BY <1>12 DEF Navigate, Hear, server, ghosts
    <2> QED
      BY <2>2, <2>3, OpenKeeps
  <1>13. ASSUME Filter
        PROVE  Screen'
    <2>1. page \in Visited /\ token \in Nat
      BY DEF DashboardTypeOK
    <2>2. PICK q \in Visited, b \in Nat, had \in Nat \cup {Nothing} :
            /\ q = page /\ had = cache
            /\ b = token
      BY <2>1 DEF DashboardTypeOK, Timers, Forms
    <2>3. StartDraw(q, b, "again", had) /\ "again" \in {"open", "tab", "tick", "again"}
      BY <1>13, <2>2 DEF Filter, StartDraw
    <2>4. Fits(q, b)
      BY <2>1, <2>2 DEF Fits
    <2>5. Polls(q) = "always" => timer # Nothing \/ rearmed
      BY <1>13, <2>2 DEF Filter, Screen, AlwaysPolled, OnItsPage
    <2>6. /\ change' \in {change, Nothing}
          /\ UNCHANGED <<view, page, token, main, timer, polling, session, rearmed, late>>
      BY <1>13 DEF Filter, Hear, server, ghosts
    <2> QED
      BY <2>3, <2>4, <2>5, <2>6, RedrawStarts
  <1>14. ASSUME logTabs
        PROVE  Screen'
    <2>1. page \in Visited /\ token \in Nat
      BY DEF DashboardTypeOK
    <2>2. PICK q \in Visited, b \in Nat, had \in Nat \cup {Nothing} :
            /\ q = page /\ had = cache
            /\ b = token
      BY <2>1 DEF DashboardTypeOK, Timers, Forms
    <2>3. StartDraw(q, b, "tab", had) /\ "tab" \in {"open", "tab", "tick", "again"}
      BY <1>14, <2>2 DEF logTabs, StartDraw
    <2>4. Fits(q, b)
      BY <2>1, <2>2 DEF Fits
    <2>5. Polls(q) = "always" => timer # Nothing \/ rearmed
      BY <1>14, <2>2 DEF logTabs, Screen, AlwaysPolled, OnItsPage
    <2>6. /\ change' \in {change, Nothing}
          /\ UNCHANGED <<view, page, token, main, timer, polling, session, rearmed, late>>
      BY <1>14 DEF logTabs, Hear, server, ghosts
    <2> QED
      BY <2>3, <2>4, <2>5, <2>6, RedrawStarts
  <1>15. ASSUME cancelUpload
        PROVE  Screen'
    <2>1. page \in Visited /\ token \in Nat
      BY DEF DashboardTypeOK
    <2>2. PICK q \in Visited, b \in Nat, had \in Nat \cup {Nothing} :
            /\ q = page /\ had = cache
            /\ b = token
      BY <2>1 DEF DashboardTypeOK, Timers, Forms
    <2>3. StartDraw(q, b, "again", had) /\ "again" \in {"open", "tab", "tick", "again"}
      BY <1>15, <2>2 DEF cancelUpload, StartDraw
    <2>4. Fits(q, b)
      BY <2>1, <2>2 DEF Fits
    <2>5. Polls(q) = "always" => timer # Nothing \/ rearmed
      BY <1>15, <2>2 DEF cancelUpload, Screen, AlwaysPolled, OnItsPage
    <2>6. /\ change' \in {change, Nothing}
          /\ UNCHANGED <<view, page, token, main, timer, polling, session, rearmed, late>>
      BY <1>15 DEF cancelUpload, Hear, server, ghosts
    <2> QED
      BY <2>3, <2>4, <2>5, <2>6, RedrawStarts
  <1>16. ASSUME ActOnUpload
        PROVE  Screen'
    <2>1. page \in Visited /\ token \in Nat
      BY DEF DashboardTypeOK
    <2>2. PICK q \in Visited, b \in Nat, had \in Nat \cup {Nothing} :
            /\ q = page /\ had = cache
            /\ b = token
      BY <2>1 DEF DashboardTypeOK, Timers, Forms
    <2>3. StartDraw(q, b, "again", had) /\ "again" \in {"open", "tab", "tick", "again"}
      BY <1>16, <2>2 DEF ActOnUpload, StartDraw
    <2>4. Fits(q, b)
      BY <2>1, <2>2 DEF Fits
    <2>5. Polls(q) = "always" => timer # Nothing \/ rearmed
      BY <1>16, <2>2 DEF ActOnUpload, Screen, AlwaysPolled, OnItsPage
    <2>6. /\ change' \in {change, Nothing}
          /\ UNCHANGED <<view, page, token, main, timer, polling, session, rearmed, late>>
      BY <1>16 DEF ActOnUpload, Hear, server, ghosts
    <2> QED
      BY <2>3, <2>4, <2>5, <2>6, RedrawStarts
  <1>17. ASSUME UploadEnds
        PROVE  Screen'
    <2>1. ChangeFits'
      BY <1>17 DEF UploadEnds, Screen, ChangeFits, Fits, ghosts
    <2>2. (session' => session) /\ UNCHANGED <<view, page, token, main, timer, polling, draw, rearmed, late>>
      BY <1>17 DEF UploadEnds, server, ghosts
    <2> QED
      BY <2>1, <2>2, BesideKeeps
  <1>18. ASSUME NEW kind \in {"edit", "token"}, Send(kind)
        PROVE  Screen'
    <2>1. ChangeFits'
      BY <1>18 DEF Send, ChangeFits, Fits, DashboardTypeOK
    <2>2. (session' => session) /\ UNCHANGED <<view, page, token, main, timer, polling, draw, rearmed, late>>
      BY <1>18 DEF Send, server, ghosts
    <2> QED
      BY <2>1, <2>2, BesideKeeps
  <1>19. ASSUME MakeChange
        PROVE  Screen'
    <2>1. ChangeFits'
      BY <1>19 DEF MakeChange, Screen, ChangeFits, Fits, DashboardTypeOK, ghosts
    <2>2. (session' => session) /\ UNCHANGED <<view, page, token, main, timer, polling, draw, rearmed, late>>
      BY <1>19 DEF MakeChange, server, ghosts
    <2> QED
      BY <2>1, <2>2, BesideKeeps
  <1>20. ASSUME Escape
        PROVE  Screen'
    <2>1. ChangeFits'
      BY <1>20 DEF Escape, Screen, ChangeFits, Fits, DashboardTypeOK, ghosts
    <2>2. (session' => session) /\ UNCHANGED <<view, page, token, main, timer, polling, draw, rearmed, late>>
      BY <1>20 DEF Escape, server, ghosts
    <2> QED
      BY <2>1, <2>2, BesideKeeps
  <1>21. ASSUME Saved
        PROVE  Screen'
    <2>1. PICK q \in Visited, had \in Nat \cup {Nothing} : q = page /\ had = Nothing
      BY <1>21 DEF DashboardTypeOK
    <2>2. Open(q, had)
      BY <1>21, <2>1 DEF Saved, Open, StartDraw
    <2>3. /\ view' \in {"app", view} /\ (view' = "login" => session' = session /\ late' = late)
          /\ rearmed' = rearmed /\ change' \in {change, Nothing}
      BY <1>21 DEF Saved, Hear, server, ghosts
    <2> QED
      BY <2>2, <2>3, OpenKeeps
  <1>22. ASSUME Redrawn
        PROVE  Screen'
    <2>1. change \in Forms /\ change # Nothing
      BY <1>22 DEF Redrawn, Heard, DashboardTypeOK, Forms
    <2>2. PICK q \in Visited, b \in Nat, had \in Nat \cup {Nothing} :
            /\ q = change.page /\ had = cache
            /\ b = change.born
      BY <2>1 DEF DashboardTypeOK, Timers, Forms
    <2>3. StartDraw(q, b, "again", had) /\ "again" \in {"open", "tab", "tick", "again"}
      BY <1>22, <2>2 DEF Redrawn, StartDraw
    <2>4. Fits(q, b)
      BY <2>1, <2>2 DEF Screen, ChangeFits, Fits
    <2>5. Polls(q) = "never"
      BY <2>1, <2>2, Routes DEF Screen, ChangeFits
    <2>6. /\ change' \in {change, Nothing}
          /\ UNCHANGED <<view, page, token, main, timer, polling, session, rearmed, late>>
      BY <1>22 DEF Redrawn, Hear, server, ghosts
    <2> QED
      BY <2>3, <2>4, <2>5, <2>6, RedrawStarts
  <1>23. ASSUME Unheard
        PROVE  Screen'
    <2>1. ChangeFits'
      BY <1>23 DEF Unheard, ChangeFits
    <2>2. (session' => session) /\ UNCHANGED <<view, page, token, main, timer, polling, draw, rearmed, late>>
      BY <1>23 DEF Unheard, server, ghosts
    <2> QED
      BY <2>1, <2>2, BesideKeeps
  <1>24. ASSUME UsersFail
        PROVE  Screen'
    <2>1. ASSUME NEW d \in Draws, draw'[d] # Nothing
          PROVE  /\ draw[d] # Nothing /\ draw'[d].page = draw[d].page /\ draw'[d].born = draw[d].born
                 /\ draw'[d].kind = draw[d].kind /\ (draw'[d].live <=> draw[d].live)
                 /\ draw'[d].state = Ready => draw[d].state = Ready
      <3>1. draw'[d] = IF draw[d] = Nothing \/ draw[d].users # Nothing THEN draw[d]
                       ELSE [draw[d] EXCEPT !.users = 0, !.state = "failed"]
        BY <1>24 DEF UsersFail
      <3>2. draw[d] \in Drawings
        BY <2>1, <3>1, Drawn
      <3> QED
        BY <2>1, <3>1, <3>2 DEF Drawings, Ready
    <2>2. UNCHANGED <<view, page, token, timer, polling, change, session, rearmed, late, main>>
      BY <1>24 DEF UsersFail, server, ghosts
    <2> QED
      BY <2>1, <2>2, AnswerKeeps
  <1>25. ASSUME LoggedOut
        PROVE  Screen'
    <2>1. \A e \in Draws : draw'[e] \in {draw[e], Nothing}
      BY <1>25 DEF LoggedOut
    <2>2. ShowLogin /\ (session' => late') /\ UNCHANGED <<page, main, change, rearmed>>
      BY <1>25 DEF LoggedOut, server
    <2> QED
      BY <2>1, <2>2, LeaveKeeps
  <1>26. ASSUME Issued
        PROVE  Screen'
    <2>3. PICK q \in Forms : q = change /\ change # Nothing
      BY <1>26 DEF Issued, Heard, DashboardTypeOK, Forms
    <2>4. /\ change' = [q EXCEPT !.heard = TRUE] /\ token' = token /\ page' = page
          /\ rearmed' = rearmed
      BY <1>26, <2>3 DEF Issued, Hear
    <2>5. change'.page = q.page /\ change'.born = q.born
      BY <2>4 DEF Forms
    <2>6. Fits(q.page, q.born) /\ q.page \in {"users", "user"}
      BY <2>3 DEF Screen, ChangeFits
    <2>1. ChangeFits'
      BY <2>4, <2>5, <2>6 DEF ChangeFits, Fits
    <2>2. (session' => session) /\ UNCHANGED <<view, page, token, main, timer, polling, draw, rearmed, late>>
      BY <1>26 DEF Issued, Hear, server
    <2> QED
      BY <2>1, <2>2, BesideKeeps
  <1> QED
    BY <1>0, <1>1, <1>2, <1>3, <1>4, <1>5, <1>6, <1>7, <1>8, <1>9, <1>10, <1>11,
       <1>12, <1>13, <1>14, <1>15, <1>16, <1>17, <1>18, <1>19, <1>20, <1>21, <1>22, <1>23,
       <1>24, <1>25, <1>26
       DEF DashboardNext

LEMMA ListsNext ==
  ASSUME Places, DashboardTypeOK, Lists, [DashboardNext]_dashboardVars
  PROVE  Lists'
  <1>0. CASE UNCHANGED dashboardVars
    BY <1>0 DEF dashboardVars, Lists, Heeded, CacheFresh, FetchFresh, server, userList, ghosts
  <1>1. ASSUME NEW d \in Draws, Answer(d)
        PROVE  Lists'
    BY <1>1
       DEF Answer, Lists, Heeded, CacheFresh, FetchFresh, DashboardTypeOK, server, userList, ghosts
  <1>2. ASSUME NEW d \in Draws, Arrive(d)
        PROVE  Lists'
    BY <1>2 DEF Arrive, Lists, Heeded, CacheFresh, FetchFresh, DashboardTypeOK, server, userList
  <1>3. ASSUME NEW d \in Draws, Refused(d)
        PROVE  Lists'
    BY <1>3 DEF Refused, Lists, Heeded, CacheFresh, FetchFresh, DashboardTypeOK, server, userList,
           ShowLogin
  <1>4. ASSUME NEW d \in Draws, Failed(d)
        PROVE  Lists'
    BY <1>4
       DEF Failed, Lists, Heeded, CacheFresh, FetchFresh, DashboardTypeOK, server, userList, ghosts
  <1>5. ASSUME NEW d \in Draws, Ignored(d)
        PROVE  Lists'
    BY <1>5
       DEF Ignored, Lists, Heeded, CacheFresh, FetchFresh, DashboardTypeOK, server, userList, ghosts
  <1>6. ASSUME AnswerUsers
        PROVE  Lists'
    <2>1. /\ fetch'.list = changes /\ cache' = cache /\ told' = told /\ changes' = changes
          /\ raced' = raced /\ told \in Nat /\ changes \in Nat
      BY <1>6 DEF AnswerUsers, server, ghosts, DashboardTypeOK
    <2> QED
      BY <2>1 DEF Lists, Heeded, CacheFresh, FetchFresh
  <1>7. ASSUME UsersArrive
        PROVE  Lists'
    <2>1. /\ cache' = IF fetch.state = Ready THEN fetch.list ELSE cache
          /\ fetch' = Nothing /\ fetch # Nothing /\ told' = told /\ changes' = changes
          /\ raced' = raced
      BY <1>7 DEF UsersArrive, server, ghosts
    <2> QED
      BY <2>1 DEF Lists, Heeded, CacheFresh, FetchFresh
  <1>8. ASSUME Login
        PROVE  Lists'
    <2>0. page \in Visited /\ token + 1 \in Nat
          /\ cache \in Nat \cup {Nothing}
      BY DEF DashboardTypeOK
    <2>1. PICK q \in Visited, b \in Nat, had \in Nat \cup {Nothing} :
            q = page /\ had = cache /\ b = token + 1
      BY <2>0
    <2>2. StartDraw(q, b, "open", had) /\ "open" \in {"open", "tab", "tick", "again"}
      BY <1>8, <2>1 DEF Login, Open, StartDraw
    <2>3. cache' \in {had, Nothing} /\ (fetch' = fetch \/ fetch' = [state |-> "asked", list |-> 0])
      BY <2>2, Started
    <2>7. cache' \in {cache, Nothing} /\ (fetch' = fetch \/ fetch'.state # Ready)
      BY <2>1, <2>3 DEF Ready
    <2>8. told' = told /\ changes' = changes /\ raced' = raced
      BY <1>8 DEF Login, server, ghosts
    <2> QED
      BY <2>7, <2>8 DEF Lists, Heeded, CacheFresh, FetchFresh
  <1>9. ASSUME Logout
        PROVE  Lists'
    BY <1>9
       DEF Logout, Lists, Heeded, CacheFresh, FetchFresh, DashboardTypeOK, server, userList, ghosts
  <1>10. ASSUME Expire
        PROVE  Lists'
    BY <1>10
       DEF Expire, Lists, Heeded, CacheFresh, FetchFresh, DashboardTypeOK, server, userList, ghosts
  <1>11. ASSUME Tick
        PROVE  Lists'
    <2>1. timer \in Timers /\ timer # Nothing
      BY <1>11 DEF Tick, DashboardTypeOK, Timers
    <2>2. PICK q \in Visited, b \in Nat, had \in Nat \cup {Nothing} :
            /\ q = timer.page
            /\ had = cache
            /\ b = IF routes[timer.page].token = "drawn" THEN token ELSE timer.born
      BY <2>1 DEF DashboardTypeOK, Timers, Forms
    <2>3. StartDraw(q, b, "tick", had) /\ "tick" \in {"open", "tab", "tick", "again"}
      BY <1>11, <2>2 DEF Tick, StartDraw
    <2>4. cache' \in {had, Nothing} /\ (fetch' = fetch \/ fetch' = [state |-> "asked", list |-> 0])
      BY <2>3, Started
    <2>7. cache' \in {cache, Nothing} /\ (fetch' = fetch \/ fetch'.state # Ready)
      BY <2>2, <2>4 DEF Ready
    <2>8. told' = told /\ changes' = changes /\ raced' = raced
      BY <1>11 DEF Tick, server, ghosts
    <2> QED
      BY <2>7, <2>8 DEF Lists, Heeded, CacheFresh, FetchFresh
  <1>12. ASSUME NEW p \in Visited, Navigate(p)
        PROVE  Lists'
    <2>0. page \in Visited /\ token + 1 \in Nat
          /\ cache \in Nat \cup {Nothing}
      BY DEF DashboardTypeOK
    <2>1. PICK q \in Visited, b \in Nat, had \in Nat \cup {Nothing} :
            q = p /\ had = cache /\ b = token + 1
      BY <2>0
    <2>2. StartDraw(q, b, "open", had) /\ "open" \in {"open", "tab", "tick", "again"}
      BY <1>12, <2>1 DEF Navigate, Open, StartDraw
    <2>3. cache' \in {had, Nothing} /\ (fetch' = fetch \/ fetch' = [state |-> "asked", list |-> 0])
      BY <2>2, Started
    <2>7. cache' \in {cache, Nothing} /\ (fetch' = fetch \/ fetch'.state # Ready)
      BY <2>1, <2>3 DEF Ready
    <2>8. told' = told /\ changes' = changes /\ raced' = raced
      BY <1>12 DEF Navigate, server, ghosts
    <2> QED
      BY <2>7, <2>8 DEF Lists, Heeded, CacheFresh, FetchFresh
  <1>13. ASSUME Filter
        PROVE  Lists'
    <2>1. page \in Visited /\ token \in Nat
      BY DEF DashboardTypeOK
    <2>2. PICK q \in Visited, b \in Nat, had \in Nat \cup {Nothing} :
            /\ q = page /\ had = cache
            /\ b = token
      BY <2>1 DEF DashboardTypeOK, Timers, Forms
    <2>3. StartDraw(q, b, "again", had) /\ "again" \in {"open", "tab", "tick", "again"}
      BY <1>13, <2>2 DEF Filter, StartDraw
    <2>4. cache' \in {had, Nothing} /\ (fetch' = fetch \/ fetch' = [state |-> "asked", list |-> 0])
      BY <2>3, Started
    <2>7. cache' \in {cache, Nothing} /\ (fetch' = fetch \/ fetch'.state # Ready)
      BY <2>2, <2>4 DEF Ready
    <2>8. told' = told /\ changes' = changes /\ raced' = raced
      BY <1>13 DEF Filter, server, ghosts
    <2> QED
      BY <2>7, <2>8 DEF Lists, Heeded, CacheFresh, FetchFresh
  <1>14. ASSUME logTabs
        PROVE  Lists'
    <2>1. page \in Visited /\ token \in Nat
      BY DEF DashboardTypeOK
    <2>2. PICK q \in Visited, b \in Nat, had \in Nat \cup {Nothing} :
            /\ q = page /\ had = cache
            /\ b = token
      BY <2>1 DEF DashboardTypeOK, Timers, Forms
    <2>3. StartDraw(q, b, "tab", had) /\ "tab" \in {"open", "tab", "tick", "again"}
      BY <1>14, <2>2 DEF logTabs, StartDraw
    <2>4. cache' \in {had, Nothing} /\ (fetch' = fetch \/ fetch' = [state |-> "asked", list |-> 0])
      BY <2>3, Started
    <2>7. cache' \in {cache, Nothing} /\ (fetch' = fetch \/ fetch'.state # Ready)
      BY <2>2, <2>4 DEF Ready
    <2>8. told' = told /\ changes' = changes /\ raced' = raced
      BY <1>14 DEF logTabs, server, ghosts
    <2> QED
      BY <2>7, <2>8 DEF Lists, Heeded, CacheFresh, FetchFresh
  <1>15. ASSUME cancelUpload
        PROVE  Lists'
    <2>1. page \in Visited /\ token \in Nat
      BY DEF DashboardTypeOK
    <2>2. PICK q \in Visited, b \in Nat, had \in Nat \cup {Nothing} :
            /\ q = page /\ had = cache
            /\ b = token
      BY <2>1 DEF DashboardTypeOK, Timers, Forms
    <2>3. StartDraw(q, b, "again", had) /\ "again" \in {"open", "tab", "tick", "again"}
      BY <1>15, <2>2 DEF cancelUpload, StartDraw
    <2>4. cache' \in {had, Nothing} /\ (fetch' = fetch \/ fetch' = [state |-> "asked", list |-> 0])
      BY <2>3, Started
    <2>7. cache' \in {cache, Nothing} /\ (fetch' = fetch \/ fetch'.state # Ready)
      BY <2>2, <2>4 DEF Ready
    <2>8. told' = told /\ changes' = changes /\ raced' = raced
      BY <1>15 DEF cancelUpload, server, ghosts
    <2> QED
      BY <2>7, <2>8 DEF Lists, Heeded, CacheFresh, FetchFresh
  <1>16. ASSUME ActOnUpload
        PROVE  Lists'
    <2>1. page \in Visited /\ token \in Nat
      BY DEF DashboardTypeOK
    <2>2. PICK q \in Visited, b \in Nat, had \in Nat \cup {Nothing} :
            /\ q = page /\ had = cache
            /\ b = token
      BY <2>1 DEF DashboardTypeOK, Timers, Forms
    <2>3. StartDraw(q, b, "again", had) /\ "again" \in {"open", "tab", "tick", "again"}
      BY <1>16, <2>2 DEF ActOnUpload, StartDraw
    <2>4. cache' \in {had, Nothing} /\ (fetch' = fetch \/ fetch' = [state |-> "asked", list |-> 0])
      BY <2>3, Started
    <2>7. cache' \in {cache, Nothing} /\ (fetch' = fetch \/ fetch'.state # Ready)
      BY <2>2, <2>4 DEF Ready
    <2>8. told' = told /\ changes' = changes /\ raced' = raced
      BY <1>16 DEF ActOnUpload, server, ghosts
    <2> QED
      BY <2>7, <2>8 DEF Lists, Heeded, CacheFresh, FetchFresh
  <1>17. ASSUME UploadEnds
        PROVE  Lists'
    BY <1>17 DEF UploadEnds, Lists, Heeded, CacheFresh, FetchFresh, DashboardTypeOK, server,
           userList, ghosts
  <1>18. ASSUME NEW kind \in {"edit", "token"}, Send(kind)
        PROVE  Lists'
    BY <1>18
       DEF Send, Lists, Heeded, CacheFresh, FetchFresh, DashboardTypeOK, server, userList, ghosts
  <1>19. ASSUME MakeChange
        PROVE  Lists'
    BY <1>19 DEF MakeChange, Lists, Heeded, CacheFresh, FetchFresh, DashboardTypeOK, server,
           userList, ghosts
  <1>20. ASSUME Escape
        PROVE  Lists'
    BY <1>20
       DEF Escape, Lists, Heeded, CacheFresh, FetchFresh, DashboardTypeOK, server, userList, ghosts
  <1>21. ASSUME Saved
        PROVE  Lists'
    <2>0. page \in Visited /\ token + 1 \in Nat
          /\ Nothing \in Nat \cup {Nothing}
      BY DEF DashboardTypeOK
    <2>1. PICK q \in Visited, b \in Nat, had \in Nat \cup {Nothing} :
            q = page /\ had = Nothing /\ b = token + 1
      BY <2>0
    <2>2. StartDraw(q, b, "open", had) /\ "open" \in {"open", "tab", "tick", "again"}
      BY <1>21, <2>1 DEF Saved, Open, StartDraw
    <2>3. cache' \in {had, Nothing} /\ (fetch' = fetch \/ fetch' = [state |-> "asked", list |-> 0])
      BY <2>2, Started
    <2>7. cache' \in {Nothing, Nothing} /\ (fetch' = fetch \/ fetch'.state # Ready)
      BY <2>1, <2>3 DEF Ready
    <2>8. told' = changes /\ changes' = changes /\ (raced' <=> fetch # Nothing) /\ changes \in Nat
      BY <1>21 DEF Saved, Hear, server, DashboardTypeOK
    <2> QED
      BY <2>7, <2>8 DEF Lists, Heeded, CacheFresh, FetchFresh
  <1>22. ASSUME Redrawn
        PROVE  Lists'
    <2>1. change \in Forms /\ change # Nothing
      BY <1>22 DEF Redrawn, Heard, DashboardTypeOK, Forms
    <2>2. PICK q \in Visited, b \in Nat, had \in Nat \cup {Nothing} :
            /\ q = change.page /\ had = cache
            /\ b = change.born
      BY <2>1 DEF DashboardTypeOK, Timers, Forms
    <2>3. StartDraw(q, b, "again", had) /\ "again" \in {"open", "tab", "tick", "again"}
      BY <1>22, <2>2 DEF Redrawn, StartDraw
    <2>4. cache' \in {had, Nothing} /\ (fetch' = fetch \/ fetch' = [state |-> "asked", list |-> 0])
      BY <2>3, Started
    <2>7. cache' \in {cache, Nothing} /\ (fetch' = fetch \/ fetch'.state # Ready)
      BY <2>2, <2>4 DEF Ready
    <2>8. told' = told /\ changes' = changes /\ raced' = raced
      BY <1>22 DEF Redrawn, server, ghosts
    <2> QED
      BY <2>7, <2>8 DEF Lists, Heeded, CacheFresh, FetchFresh
  <1>23. ASSUME Unheard
        PROVE  Lists'
    BY <1>23
       DEF Unheard, Lists, Heeded, CacheFresh, FetchFresh, DashboardTypeOK, server, userList, ghosts
  <1>24. ASSUME UsersFail
        PROVE  Lists'
    <2>1. cache' = cache /\ fetch' = Nothing /\ told' = told /\ changes' = changes /\ raced' = raced
      BY <1>24 DEF UsersFail, server, ghosts
    <2> QED
      BY <2>1 DEF Lists, Heeded, CacheFresh, FetchFresh
  <1>25. ASSUME LoggedOut
        PROVE  Lists'
    BY <1>25 DEF LoggedOut, Lists, Heeded, CacheFresh, FetchFresh, DashboardTypeOK, server, userList,
           ghosts, ShowLogin
  <1>26. ASSUME Issued
        PROVE  Lists'
    <2>1. /\ cache' = Nothing /\ fetch' = fetch /\ told' = changes /\ changes' = changes
          /\ (raced' <=> fetch # Nothing) /\ changes \in Nat
      BY <1>26 DEF Issued, Hear, server, DashboardTypeOK
    <2> QED
      BY <2>1 DEF Lists, Heeded, CacheFresh, FetchFresh
  <1> QED
    BY <1>0, <1>1, <1>2, <1>3, <1>4, <1>5, <1>6, <1>7, <1>8, <1>9, <1>10, <1>11,
       <1>12, <1>13, <1>14, <1>15, <1>16, <1>17, <1>18, <1>19, <1>20, <1>21, <1>22, <1>23,
       <1>24, <1>25, <1>26
       DEF DashboardNext

-----------------------------------------------------------------------------

DashboardInv == DashboardTypeOK /\ Screen /\ Lists

(***************************************************************************)
(* The invariant behind the dashboard's three promises: each draw under    *)
(* way, the refresh timer, the form being sent and what the main area      *)
(* shows fit the page, the visit and the session they were made for, and   *)
(* the shared list of users has the changes it was told of (app.js,        *)
(* ui.js).                                                                 *)
(***************************************************************************)
THEOREM DashboardInvariant ==
  DashboardSpec => []DashboardInv
<1>0. Places
  BY VisitsPages, NothingIsNothing DEF Places
<1>1. DashboardInit => DashboardInv
  <2> SUFFICES ASSUME DashboardInit PROVE DashboardInv
    OBVIOUS
  <2>1. DashboardTypeOK
    BY DEF DashboardInit, DashboardTypeOK, Loading
  <2>2. Screen
    BY DEF DashboardInit, Screen, DrawsFit, TimerFits, ChangeFits, MainFits, TimerIsCurrent,
           SignedOut,
           DrawsInApp, TimerInApp, TimerPolls, DrawsLive, MainLive, AlwaysPolled, OnItsPage,
           RedrawsPolled, PollingIsTimer, PollingIsLive, Loading
  <2>3. Lists
    BY DEF DashboardInit, Lists, Heeded, CacheFresh, FetchFresh
  <2> QED
    BY <2>1, <2>2, <2>3 DEF DashboardInv
<1>2. DashboardInv /\ [DashboardNext]_dashboardVars => DashboardInv'
  BY <1>0, TypesNext, ScreenNext, ListsNext DEF DashboardInv
<1> QED
  BY <1>1, <1>2, PTL DEF DashboardSpec

(***************************************************************************)
(* The main area belongs to the page the reader is on, however late the    *)
(* answers come, since navigate ends the visit's token before it draws;    *)
(* only the log page, which takes its token when it draws, paints over     *)
(* another, and only when it started its timer after having been left      *)
(* (app.js).                                                               *)
(***************************************************************************)
THEOREM DashboardShowsItsPage ==
  DashboardSpec => []OwnScreenUnlessRearmed
<1>1. DashboardInv => OwnScreenUnlessRearmed
  BY DEF DashboardInv, Screen, MainFits, OwnScreenUnlessRearmed, OwnScreen
<1> QED
  BY <1>1, DashboardInvariant, PTL

(***************************************************************************)
(* The refresh timer repeats the page on screen and runs exactly while     *)
(* that page is always polled or has something unfinished on it            *)
(* (autoRefresh and the pages' own polling in app.js), but for a page that *)
(* started it after having been left and for a reader who was shown the    *)
(* sign-in form while signed in: by a logout that failed (app.js, the      *)
(* logout button), by boot, or by a late refusal.                          *)
(***************************************************************************)
THEOREM DashboardTimer ==
  DashboardSpec => []TimerServesPage
<1>0. Places
  BY VisitsPages, NothingIsNothing DEF Places
<1>1. DashboardInv => TimerServesPage
  <2> SUFFICES ASSUME DashboardTypeOK, Screen, ~rearmed
               PROVE  /\ timer # Nothing => timer.page = page /\ (view = "app" \/ late)
                      /\ view = "app" /\ main.page = page =>
                           ((timer # Nothing) <=> (Polls(page) = "always" \/ main.live))
    BY DEF DashboardInv, TimerServesPage, Polls
  <2>1. timer # Nothing => timer.page = page
    BY DEF Screen, TimerFits, TimerIsCurrent, Fits
  <2>2. timer # Nothing => view = "app" \/ late
    BY DEF DashboardTypeOK, Screen, TimerInApp
  <2>3. ASSUME view = "app", main.page = page
        PROVE  (timer # Nothing) <=> (Polls(page) = "always" \/ main.live)
    <3>1. main.live => Polls(page) = "unfinished"
      BY <2>3 DEF Screen, MainLive
    <3>2. Polls(page) \in {"never", "always", "unfinished"}
      BY <1>0, Routes DEF DashboardTypeOK
    <3>3. Polls(page) = "always" => timer # Nothing
      BY <2>3 DEF Screen, AlwaysPolled, OnItsPage
    <3>4. Polls(page) = "never" => timer = Nothing
      BY <2>1 DEF Screen, TimerPolls
    <3>5. Polls(page) = "unfinished" => (main.live <=> timer # Nothing)
      BY <2>3 DEF Screen, PollingIsTimer, PollingIsLive, OnItsPage
    <3> QED
      BY <3>1, <3>2, <3>3, <3>4, <3>5
  <2> QED
    BY <2>1, <2>2, <2>3
<1> QED
  BY <1>1, DashboardInvariant, PTL

(***************************************************************************)
(* The list of users the pages share has every change the reader was told  *)
(* of, unless a list was on its way when it was dropped (cachedUsers and   *)
(* forgetUsers in app.js).                                                 *)
(***************************************************************************)
THEOREM DashboardCache ==
  DashboardSpec => []CacheHasTheChange
<1>1. DashboardInv => CacheHasTheChange
  BY DEF DashboardInv, Lists, CacheFresh, CacheHasTheChange
<1> QED
  BY <1>1, DashboardInvariant, PTL

=============================================================================
