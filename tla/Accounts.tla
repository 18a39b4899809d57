------------------------------ MODULE Accounts ------------------------------
(***************************************************************************)
(* The people of the system and the Jellyfin libraries that keep their     *)
(* media apart: the user rows and their user_libraries rows                *)
(* (src/db/repositories.ts), the dashboard's handlers that create, edit,   *)
(* provision, repair and delete users (src/api/routes/index.ts), and the   *)
(* provisioning and the audit of src/services/isolation.ts over the        *)
(* Jellyfin calls of src/services/jellyfin.ts.                             *)
(*                                                                         *)
(* Several requests run at once and every Jellyfin call or query of one is *)
(* a step of its own: a request works on the user row and on the list of   *)
(* libraries it read some steps ago.  An administrator changes libraries   *)
(* and policies inside Jellyfin meanwhile, and any call may fail.          *)
(***************************************************************************)
EXTENDS Naturals, Sequences, FiniteSets, SequencesExt

CONSTANTS
    Users,      \* user ids; a deleted one never returns
    Accounts,   \* Jellyfin accounts
    Names,      \* display names; a library is named after its user's
    Requests,   \* requests being served
    Wanted,     \* the media types a user gets a library for, in order
    Items,      \* Jellyfin's library ids
    Family,     \* the id of a library nobody here manages
    Before,     \* policies an account may have before the first user
    MaxRequests, MaxSide, MaxFaults,  \* bounds: requests, changes made in Jellyfin, failures
    None

Types == ToSet(Wanted)

LibraryNames == (Names \X Types) \cup ({None} \X (Users \cup {None}))
UserRow == [name : Names, username : Accounts, link : Accounts]
LibraryRow == [name : LibraryNames, item : Items]

ASSUME BoundsType == {MaxRequests, MaxSide, MaxFaults} \subseteq Nat
ASSUME WantedType == Wanted \in Seq(Types) /\ Wanted # <<>>
ASSUME FamilyType == Family \in Items

VARIABLES
    users,    \* the users table: an entry [name, username, link], or None
    rows,     \* user_libraries: [name, item] of a user and type, or None
    folders,  \* Jellyfin's virtual folders: [item, name, dir]
    policy,   \* the policy of a Jellyfin account: [admin, all, enabled]
    request,  \* what each request is doing
    gone,     \* users that were deleted
    settled,  \* history: users whose account nothing has touched since it was locked down
    spoiled,  \* history: users whose libraries a failure or an overlap may have orphaned
    shared,   \* history: accounts the administrator gave the family library by name
    blind,    \* history: accounts locked down without knowing what they saw, or had just been given
    done, side, faults

vars == <<users, rows, folders, policy, request, gone, settled, spoiled, shared, blind,
          done, side, faults>>
kept == <<done, side, faults>>

Dir(u, t) == <<u, t>>
LibraryName(n, t) == <<n, t>>
SharedDir == <<None, None>>
Dirs == {Dir(u, t) : u \in Users, t \in Types} \cup {SharedDir}
Folder == [item : Items, name : LibraryNames, dir : Dirs]
PolicyType == [admin : BOOLEAN, all : BOOLEAN, enabled : SUBSET Items]

ASSUME BeforeType == Before \subseteq PolicyType

ASSUME NoneIsNothing ==
    None \notin Users \cup Accounts \cup Names \cup Items \cup UserRow \cup LibraryRow \cup Folder

There(u) == users[u] # None
ItemsOf(u) == {rows[u][t].item : t \in {x \in Types : rows[u][x] # None}}
ItemsInHand(r) ==
    {f.item : f \in request[r].snap} \cup request[r].owned \cup request[r].current
        \cup (IF request[r].own = None THEN {} ELSE {request[r].own.item})
UsedItems == {f.item : f \in folders} \cup (UNION {policy[a].enabled : a \in Accounts})
                \cup (UNION {ItemsOf(u) : u \in Users})
                \cup (UNION {ItemsInHand(r) : r \in Requests})
Fresh == Items \ (UsedItems \cup {Family})
ItemsExcluding(u) == UNION {ItemsOf(v) : v \in Users \ {u}}

NoRows == [t \in Types |-> None]
Idle == [pc |-> "idle", u |-> None, row |-> None, todo |-> {}, names |-> {}, snap |-> {}, w |-> 0,
         own |-> None, created |-> FALSE, owned |-> {}, others |-> {}, current |-> {},
         admin |-> FALSE, calm |-> FALSE]

(***************************************************************************)
(* Before the first user: accounts see everything, as Jellyfin sets them   *)
(* up, or what the administrator restricted them to, which may be a family *)
(* library nobody here manages.                                            *)
(***************************************************************************)
Init ==
    /\ users = [u \in Users |-> None]
    /\ rows = [u \in Users |-> NoRows]
    /\ folders = {[item |-> Family, name |-> LibraryName(None, None), dir |-> SharedDir]}
    /\ policy \in [Accounts -> Before]
    /\ shared = {a \in Accounts : Family \in policy[a].enabled}
    /\ request = [r \in Requests |-> Idle]
    /\ gone = {} /\ settled = {} /\ spoiled = {} /\ blind = {}
    /\ done = 0 /\ side = 0 /\ faults = 0

Begin(r) == request[r].pc = "idle" /\ done < MaxRequests /\ done' = done + 1

Provisioning(r) == request[r].pc \notin {"idle", "remove"}
Serves(r, u) == request[r].u = u \/ \E job \in request[r].todo : job.u = u
Overlap(u) == \E r \in Requests : Provisioning(r) /\ Serves(r, u)

BeingDeleted == {request[r].u : r \in {p \in Requests : request[p].pc = "remove"}}

Job(u) == [u |-> u, row |-> users[u]]
StartOf(job, rest) == [Idle EXCEPT !.pc = "resolve", !.u = job.u, !.row = job.row, !.todo = rest]

(* POST /users: the row is inserted with the account it named, then provisioned. *)
Create(r, u, n, a) ==
    /\ Begin(r)
    /\ ~There(u) /\ u \notin gone
    /\ \A v \in Users : There(v) => users[v].username # a
    /\ LET row == [name |-> n, username |-> a, link |-> a]
       IN  /\ users' = [users EXCEPT ![u] = row]
           /\ request' = [request EXCEPT ![r] = StartOf([u |-> u, row |-> row], {})]
    /\ UNCHANGED <<rows, folders, policy, gone, shared, blind, settled, spoiled, side, faults>>

(* PATCH /users/:id: a new name, or another Jellyfin account. Neither the link  *)
(* nor a library follows until the user is provisioned again.                   *)
Patch(u, n, a) ==
    /\ done < MaxRequests /\ done' = done + 1
    /\ There(u)
    /\ \A v \in Users \ {u} : There(v) => users[v].username # a
    /\ users' = [users EXCEPT ![u].name = n, ![u].username = a]
    /\ users' # users
    /\ UNCHANGED <<rows, folders, policy, request, gone, shared, blind, settled, spoiled, side,
                   faults>>

(* POST /users/:id/provision. *)
Provision(r, u) ==
    /\ Begin(r)
    /\ There(u)
    /\ request' = [request EXCEPT ![r] = StartOf(Job(u), {})]
    /\ spoiled' = spoiled \cup BeingDeleted
    /\ UNCHANGED <<users, rows, folders, policy, gone, shared, blind, settled, side, faults>>

(* enforceIsolation: every user of one list, one after the other. *)
Enforce(r) ==
    /\ Begin(r)
    /\ \E first \in Users :
        /\ There(first)
        /\ request' = [request EXCEPT ![r] =
                StartOf(Job(first), {Job(u) : u \in {v \in Users \ {first} : There(v)}})]
    /\ spoiled' = spoiled \cup BeingDeleted
    /\ UNCHANGED <<users, rows, folders, policy, gone, shared, blind, settled, side, faults>>

(* What a request does when provisioning one user has ended, well or not. *)
Ended(r) ==
    IF request[r].todo = {} THEN {Idle}
    ELSE {StartOf(job, request[r].todo \ {job}) : job \in request[r].todo}

At(r, pc) == request[r].pc = pc

(***************************************************************************)
(* provisionUser, one step for each call.                                  *)
(***************************************************************************)
(* The account is looked up by the name the request read; the link follows it.  *)
(* Whether it is an administrator's is not asked again.                         *)
Resolve(r) ==
    LET q == request[r] IN
    /\ At(r, "resolve")
    /\ IF There(q.u) /\ q.row.link # q.row.username
       THEN /\ users' = [users EXCEPT ![q.u].link = q.row.username]
            /\ settled' = settled \ {q.u}
       ELSE UNCHANGED <<users, settled>>
    /\ request' = [request EXCEPT ![r].pc = "list", ![r].admin = policy[q.row.username].admin]
    /\ UNCHANGED <<rows, folders, policy, gone, shared, blind, spoiled, kept>>

ListFolders(r) ==
    /\ At(r, "list")
    /\ request' = [request EXCEPT ![r].pc = "library", ![r].snap = folders, ![r].w = 1]
    /\ UNCHANGED <<users, rows, folders, policy, gone, shared, blind, settled, spoiled, kept>>

WantedName(q) == LibraryName(q.row.name, Wanted[q.w])
WantedDir(q) == Dir(q.u, Wanted[q.w])
Named(fs, n) == {f \in fs : f.name = n}
At_(fs, d) == {f \in fs : f.dir = d}

(* A library of that name in the list, or else one that points at the directory. *)
FindLibrary(r) ==
    LET q == request[r]
        found == IF Named(q.snap, WantedName(q)) # {} THEN Named(q.snap, WantedName(q))
                 ELSE At_(q.snap, WantedDir(q))
    IN  /\ At(r, "library")
        /\ \E f \in found :
            request' = [request EXCEPT ![r].pc = "upsert", ![r].own = f, ![r].created = FALSE]
        /\ UNCHANGED <<users, rows, folders, policy, gone, shared, blind, settled, spoiled, kept>>

(* Neither: it is created. Jellyfin gives a second library of a name another name. *)
CreateLibrary(r, answered) ==
    LET q == request[r]
        taken == Named(folders, WantedName(q)) # {}
        new == [item |-> CHOOSE i \in Fresh : TRUE,
                name |-> IF taken THEN <<None, q.u>> ELSE WantedName(q),
                dir |-> WantedDir(q)]
    IN  /\ At(r, "library")
        /\ Named(q.snap, WantedName(q)) = {} /\ At_(q.snap, WantedDir(q)) = {}
        /\ Fresh # {}
        /\ folders' = folders \cup {new}
        /\ IF answered
           THEN /\ request' = [request EXCEPT ![r].pc = "found", ![r].created = ~taken]
                /\ spoiled' = IF taken THEN spoiled \cup {q.u} ELSE spoiled
                /\ UNCHANGED faults
           ELSE /\ faults < MaxFaults /\ faults' = faults + 1
                /\ request' \in {[request EXCEPT ![r] = next] : next \in Ended(r)}
                /\ spoiled' = spoiled \cup {q.u}
        /\ UNCHANGED <<users, rows, policy, gone, shared, blind, settled, done, side>>

(* The list is read again for the id; a library that is not there is a warning. *)
ReadCreated(r) ==
    LET q == request[r] IN
    /\ At(r, "found")
    /\ IF Named(folders, WantedName(q)) = {}
       THEN request' = [request EXCEPT ![r].pc = "next", ![r].created = FALSE]
       ELSE \E f \in Named(folders, WantedName(q)) :
                request' = [request EXCEPT ![r].pc = "upsert", ![r].own = f]
    /\ UNCHANGED <<users, rows, folders, policy, gone, shared, blind, settled, spoiled, kept>>

(* The row cannot be written for a user who is gone, nor under a name another   *)
(* row has: both indexes throw.                                                 *)
RowRefused(r) ==
    LET q == request[r] IN
    \/ ~There(q.u)
    \/ \E v \in Users, t \in Types :
        /\ <<v, t>> # <<q.u, Wanted[q.w]>>
        /\ rows[v][t] # None
        /\ rows[v][t].name = q.own.name

Seeks(r, n) ==
    \/ At(r, "found") /\ WantedName(request[r]) = n
    \/ At(r, "upsert") /\ request[r].own.name = n

(* A row that named another library forgets it, whether or not it still exists. *)
Upsert(r) ==
    LET q == request[r]
        old == rows[q.u][Wanted[q.w]]
        row == [name |-> q.own.name, item |-> q.own.item]
        adopts == ~q.created /\ old # row
    IN  /\ At(r, "upsert")
        /\ ~RowRefused(r)
        /\ rows' = [rows EXCEPT ![q.u][Wanted[q.w]] = row]
        /\ settled' = IF adopts THEN {}
                      ELSE IF old # row THEN settled \ {q.u} ELSE settled
        /\ spoiled' = IF old # None /\ old.name # row.name /\ Named(folders, old.name) # {}
                      THEN spoiled \cup {q.u} ELSE spoiled
        /\ request' = [p \in Requests |->
                IF p = r THEN [q EXCEPT !.pc = "next", !.owned = @ \cup {q.own.item}, !.own = None,
                                          !.created = FALSE]
                ELSE IF adopts THEN [request[p] EXCEPT !.calm = FALSE, !.created = FALSE]
                ELSE IF old # row
                THEN [request[p] EXCEPT !.calm = @ /\ request[p].u # q.u,
                                        !.created = @ /\ ~Seeks(p, row.name)]
                ELSE request[p]]
        /\ UNCHANGED <<users, folders, policy, gone, shared, blind, kept>>

UpsertRefused(r) ==
    /\ At(r, "upsert")
    /\ RowRefused(r)
    /\ request' \in {[request EXCEPT ![r] = next] : next \in Ended(r)}
    /\ spoiled' = spoiled \cup {request[r].u}
    /\ UNCHANGED <<users, rows, folders, policy, gone, shared, blind, settled, kept>>

(* The next type; after the last, an account that is not an administrator's is locked down. *)
NextLibrary(r) ==
    LET q == request[r] IN
    /\ At(r, "next")
    /\ IF q.w < Len(Wanted)
       THEN request' = [request EXCEPT ![r].pc = "library", ![r].w = @ + 1]
       ELSE IF q.owned = {} \/ q.admin
       THEN request' \in {[request EXCEPT ![r] = next] : next \in Ended(r)}
       ELSE request' = [request EXCEPT ![r].pc = "others", ![r].snap = {}]
    /\ UNCHANGED <<users, rows, folders, policy, gone, shared, blind, settled, spoiled, kept>>

ReadOthers(r) ==
    /\ At(r, "others")
    /\ request' = [request EXCEPT ![r].pc = "current", ![r].calm = TRUE,
                                  ![r].others = ItemsExcluding(request[r].u)]
    /\ UNCHANGED <<users, rows, folders, policy, gone, shared, blind, settled, spoiled, kept>>

(* What the account sees now; an answer that fails is taken for nothing. *)
ReadCurrent(r, answered) ==
    /\ At(r, "current")
    /\ request' = [request EXCEPT ![r].pc = "lock", ![r].current =
                        IF answered THEN policy[request[r].row.username].enabled ELSE {}]
    /\ IF answered THEN UNCHANGED <<faults, blind>>
       ELSE /\ faults < MaxFaults /\ faults' = faults + 1
            /\ blind' = blind \cup {request[r].row.username}
    /\ UNCHANGED <<shared, users, rows, folders, policy, gone, settled, spoiled, done, side>>

(* Faulty: the account keeps whatever it saw, or only what is its own. *)
KeepsEverything(owned, current, others) == owned \cup current
OwnedOnly(owned, current, others) == owned

EnabledFoldersFor(owned, current, others) == owned \cup (current \ others)

(* The policy is read whole and written back whole: with it goes whatever else  *)
(* it said when it was read.                                                    *)
ReadPolicy(r) ==
    /\ At(r, "lock")
    /\ request' = [request EXCEPT ![r].pc = "post",
                                  ![r].admin = policy[request[r].row.username].admin]
    /\ UNCHANGED <<users, rows, folders, policy, gone, shared, blind, settled, spoiled, kept>>

SetUserLibraryAccess(r) ==
    LET q == request[r]
        a == q.row.username
        sharing == {v \in Users : There(v) /\ users[v].link = a}
    IN  /\ At(r, "post")
        /\ policy' = [policy EXCEPT ![a] = [admin |-> q.admin, all |-> FALSE,
                          enabled |-> EnabledFoldersFor(q.owned, q.current, q.others)]]
        /\ settled' = (settled \ sharing) \cup
                {v \in sharing : v = q.u /\ q.calm /\ ~q.admin /\ q.owned = ItemsOf(v)}
        /\ request' \in {[p \in Requests |->
                IF p = r THEN next
                ELSE IF Provisioning(p) /\ request[p].row.username = a
                     THEN [request[p] EXCEPT !.calm = FALSE] ELSE request[p]] : next \in Ended(r)}
        /\ UNCHANGED <<users, rows, folders, gone, shared, blind, spoiled, kept>>

(* A call throws, or the API process dies: this user is left as far as it got. *)
Throws(r) ==
    /\ Provisioning(r)
    /\ faults < MaxFaults /\ faults' = faults + 1
    /\ request' \in {[request EXCEPT ![r] = next] : next \in Ended(r)}
    /\ spoiled' = spoiled \cup {request[r].u}
    /\ UNCHANGED <<users, rows, folders, policy, gone, shared, blind, settled, done, side>>

(***************************************************************************)
(* DELETE /users/:id: the libraries go by the names the rows recorded,     *)
(* whatever Jellyfin answers; then the rows and the user.                  *)
(***************************************************************************)
(* Faulty: the names the libraries would get today, not the ones they have. *)
CurrentNames(u) == {LibraryName(users[u].name, t) : t \in Types}

RecordedNames(u) == {rows[u][t].name : t \in {x \in Types : rows[u][x] # None}}

StartDelete(r, u) ==
    /\ Begin(r)
    /\ There(u)
    /\ request' = [request EXCEPT ![r] = [Idle EXCEPT !.pc = "remove", !.u = u,
            !.names = RecordedNames(u)]]
    /\ spoiled' = IF Overlap(u) THEN spoiled \cup {u} ELSE spoiled
    /\ UNCHANGED <<users, rows, folders, policy, gone, shared, blind, settled, side, faults>>

RemoveLibrary(r, n, answered) ==
    LET q == request[r] IN
    /\ At(r, "remove")
    /\ n \in q.names
    /\ request' = [request EXCEPT ![r].names = @ \ {n}]
    /\ IF answered
       THEN folders' = folders \ Named(folders, n) /\ UNCHANGED <<faults, spoiled>>
       ELSE /\ faults < MaxFaults /\ faults' = faults + 1
            /\ spoiled' = spoiled \cup {q.u}
            /\ UNCHANGED folders
    /\ UNCHANGED <<users, rows, policy, gone, shared, blind, settled, done, side>>

Delete(r) ==
    LET u == request[r].u IN
    /\ At(r, "remove")
    /\ request[r].names = {}
    /\ rows' = [rows EXCEPT ![u] = NoRows]
    /\ users' = [users EXCEPT ![u] = None]
    /\ gone' = gone \cup {u}
    /\ settled' = settled \ {u}
    /\ spoiled' = IF Overlap(u) THEN spoiled \cup {u} ELSE spoiled
    /\ request' = [request EXCEPT ![r] = Idle]
    /\ UNCHANGED <<folders, policy, shared, blind, kept>>

(***************************************************************************)
(* What the administrator does inside Jellyfin.                            *)
(***************************************************************************)
Side == side < MaxSide /\ side' = side + 1
Unsettle(S) == /\ settled' = settled \ S
               /\ request' = [r \in Requests |->
                                [request[r] EXCEPT !.calm = FALSE, !.created = FALSE]]

AddFolder(n, d) ==
    /\ Side
    /\ Fresh # {} /\ Named(folders, n) = {}
    /\ folders' = folders \cup {[item |-> CHOOSE i \in Fresh : TRUE, name |-> n, dir |-> d]}
    /\ spoiled' = Users
    /\ UNCHANGED <<users, rows, policy, request, gone, shared, blind, settled, done, faults>>

RemoveFolder(f) ==
    /\ Side
    /\ folders' = folders \ {f}
    /\ UNCHANGED <<users, rows, policy, request, gone, shared, blind, settled, spoiled, done,
                   faults>>

(* A request that has asked what the account sees and not written its answer. *)
LockingDown(r, a) == (At(r, "lock") \/ At(r, "post")) /\ request[r].row.username = a

SetPolicy(a, p) ==
    /\ Side
    /\ policy' = [policy EXCEPT ![a] = p]
    /\ policy' # policy
    /\ shared' = IF Family \in p.enabled THEN shared \cup {a} ELSE shared \ {a}
    /\ blind' = IF \E r \in Requests : LockingDown(r, a) THEN blind \cup {a} ELSE blind \ {a}
    /\ Unsettle({u \in Users : There(u) /\ users[u].link = a})
    /\ UNCHANGED <<users, rows, folders, gone, spoiled, done, faults>>

Changed(a) == {[policy[a] EXCEPT !.enabled = @ \cup {i}] : i \in UsedItems}
                \cup {[policy[a] EXCEPT !.enabled = @ \ {Family}],
                      [policy[a] EXCEPT !.admin = TRUE], [policy[a] EXCEPT !.all = TRUE]}

InJellyfin ==
    \/ \E x \in Names, t \in Types, d \in Dirs : AddFolder(LibraryName(x, t), d)
    \/ \E f \in folders : RemoveFolder(f)
    \/ \E a \in Accounts : \E p \in Changed(a) : SetPolicy(a, p)

Next ==
    \/ \E r \in Requests, u \in Users :
        \/ \E n \in Names, a \in Accounts : Create(r, u, n, a)
        \/ Provision(r, u)
        \/ StartDelete(r, u)
    \/ \E u \in Users, n \in Names, a \in Accounts : Patch(u, n, a)
    \/ \E r \in Requests :
        \/ Enforce(r)
        \/ Resolve(r) \/ ListFolders(r) \/ FindLibrary(r)
        \/ \E b \in BOOLEAN : CreateLibrary(r, b)
        \/ ReadCreated(r) \/ Upsert(r) \/ UpsertRefused(r) \/ NextLibrary(r)
        \/ ReadOthers(r)
        \/ \E b \in BOOLEAN : ReadCurrent(r, b)
        \/ ReadPolicy(r) \/ SetUserLibraryAccess(r) \/ Throws(r)
        \/ \E n \in request[r].names, b \in BOOLEAN : RemoveLibrary(r, n, b)
        \/ Delete(r)
    \/ InJellyfin

Spec == Init /\ [][Next]_vars

(***************************************************************************)
(* analyseIsolation: what the privacy panel reports.                       *)
(***************************************************************************)
Owner(a) == {u \in Users : There(u) /\ users[u].link = a}
ManagedItems == UNION {ItemsOf(u) : u \in Users}

(* Faulty: an account that belongs to no user is not looked at. *)
ForeignOfManaged(a) == {i \in policy[a].enabled \cap ManagedItems :
                  \E u \in Owner(a) : i \notin ItemsOf(u)}

Foreign(a) == {i \in policy[a].enabled \cap ManagedItems :
                  \A u \in Owner(a) : i \notin ItemsOf(u)}

UnmanagedWayIn ==
    \E f \in folders : f.item \notin ManagedItems /\ \E u \in Users : There(u) /\ f.dir[1] = u

AuditIsOk ==
    /\ \A a \in Accounts :
        \/ policy[a].admin /\ Owner(a) = {}
        \/ ~policy[a].admin /\ ~policy[a].all /\ Foreign(a) = {}
    /\ ~UnmanagedWayIn

Sees(a) == {f \in folders : policy[a].all \/ f.item \in policy[a].enabled}

Steps == {"resolve", "list", "library", "found", "upsert", "next", "others", "current", "lock",
          "post"}
JobType == [u : Users, row : UserRow]
RequestType ==
    [pc : Steps \cup {"idle", "remove"}, u : Users \cup {None}, row : UserRow \cup {None},
     todo : SUBSET JobType, names : SUBSET LibraryNames, snap : SUBSET Folder, w : 0 .. Len(Wanted),
     own : Folder \cup {None}, created : BOOLEAN, owned : SUBSET Items, others : SUBSET Items,
     current : SUBSET Items, admin : BOOLEAN, calm : BOOLEAN]
RequestOK(q) ==
    /\ q \in RequestType
    /\ q.pc = "remove" => q.u \in Users
    /\ q.pc \in Steps => q.u \in Users /\ q.row \in UserRow
    /\ q.pc \in {"library", "found", "upsert", "next"} => q.w > 0
    /\ q.pc = "upsert" => q.own \in Folder

TypeOK ==
    /\ users \in [Users -> UserRow \cup {None}]
    /\ rows \in [Users -> [Types -> LibraryRow \cup {None}]]
    /\ folders \subseteq Folder
    /\ policy \in [Accounts -> PolicyType]
    /\ request \in [Requests -> RequestType]
    /\ \A r \in Requests : RequestOK(request[r])
    /\ settled \subseteq Users /\ gone \subseteq Users /\ spoiled \subseteq Users
    /\ shared \subseteq Accounts /\ blind \subseteq Accounts
    /\ done \in 0 .. MaxRequests /\ side \in 0 .. MaxSide /\ faults \in 0 .. MaxFaults

(* Rules 1 and 2 of enabledFoldersFor, across interleaved requests: once a      *)
(* user's account was locked down it sees its own libraries and none that       *)
(* belongs to another user, until an existing library is adopted, the account   *)
(* or its link is changed, or somebody touches its policy inside Jellyfin.      *)
SettledIsPrivate ==
    \A u \in settled :
        LET p == policy[users[u].link] IN
        /\ ~p.admin /\ ~p.all
        /\ p.enabled \cap ItemsExcluding(u) = {}
        /\ ItemsOf(u) \subseteq p.enabled

(* The audit tells the truth: when it finds no error, an ordinary account sees  *)
(* no library in a user's directory but those recorded as its own user's.       *)
AuditIsTruth ==
    AuditIsOk => \A a \in Accounts : ~policy[a].admin =>
        \A f \in Sees(a), u \in Users :
            (There(u) /\ f.dir[1] = u) => \E v \in Owner(a) : f.item \in ItemsOf(v)

(* Rule 3: whoever is provisioned how often, an account names a library that no *)
(* user owns exactly when the administrator has last left it so in Jellyfin,    *)
(* unless the call that asks what it sees had failed, or the administrator came *)
(* between that call and the one that writes the answer.  An account that saw   *)
(* the library only because it saw all of them is not given it by name.         *)
SharedIsKept ==
    \A a \in Accounts \ blind : Family \in policy[a].enabled <=> a \in shared

(* Deleting a user leaves no library on their directory, unless a call failed,  *)
(* provisioning overlapped it, the user's row had come to name another library  *)
(* while this one existed, or the library was added in Jellyfin.                *)
NothingLeftBehind ==
    \A u \in gone \ spoiled : \A f \in folders : f.dir[1] # u
=============================================================================
