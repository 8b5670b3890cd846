-------------------------------- MODULE Users --------------------------------
(***************************************************************************)
(* The staff accounts: the handlers of internal/service/user_service.go    *)
(* on the users table (internal/repository/user_repo.go), under the rules  *)
(* of RBACService.  Each handler reads the rows it decides on in queries   *)
(* of their own, before the one statement that writes, and no transaction  *)
(* or version column ties them together: one step per query, so that other *)
(* requests come in between.  Passwords, e-mail addresses and names are    *)
(* data: a password is named by the account it was generated for or by the *)
(* request that chose it, and the profile's names are left out.            *)
(*                                                                         *)
(* An account is named by the request that created it; Seeded are those of *)
(* the migrations.  Errors and crashes take from the budget MaxFaults.     *)
(***************************************************************************)
EXTENDS RBAC, FiniteSets

CONSTANTS
    Seeded, Staff,      \* the accounts that exist at first, and their rows
    Emails,
    Requests,
    Kinds,              \* bound: the kinds of request each of them may be
    NewUsers,           \* bound: what a create request may ask for
    Removals,           \* bound: regions and restaurants that get deleted
    MaxFaults           \* bound: errors and crashes in a behaviour

AllKinds == {"create", "update", "delete", "setup", "password"}
UserIds == Seeded \cup Requests

Body == [role : Roles, region : Regions \cup {None},
         restaurant : Restaurants \cup {None}, email : Emails]

Row == [state : {"none", "live", "deleted"}, role : Roles \cup {"none"},
        region : Regions \cup {None}, restaurant : Restaurants \cup {None},
        email : Emails \cup {None}, active : BOOLEAN, completed : BOOLEAN,
        password : UserIds \cup {None}, by : UserIds \cup {None}]

NoBody == [role |-> "none", region |-> None, restaurant |-> None, email |-> None]

NoRow == [state |-> "none", role |-> "none", region |-> None,
          restaurant |-> None, email |-> None, active |-> FALSE,
          completed |-> FALSE, password |-> None, by |-> None]

\* A row's region, if any, is that of its restaurant, if any.
Consistent(row) ==
    (row.region # None /\ row.restaurant # None)
        => RegionOf[row.restaurant] = row.region

ASSUME UsersAssumption ==
    /\ Seeded \cap Requests = {}
    /\ None \notin UserIds \cup Emails
    /\ Kinds \in [Requests -> SUBSET AllKinds]
    /\ NewUsers \subseteq Body
    /\ MaxFaults \in Nat
    /\ Staff \in [Seeded -> Row]
    /\ \A u \in Seeded : /\ Staff[u].state = "live"
                         /\ Staff[u].role \in Roles
                         /\ Consistent(Staff[u])
                         /\ Staff[u].email # None
                         /\ Staff[u].password = u
                         /\ Staff[u].by = None
    /\ \A u, v \in Seeded : Staff[u].email = Staff[v].email => u = v

VARIABLES
    users,          \* the users table; `by` is history: who created the row
    regions,        \* regions that are not soft-deleted
    restaurants,    \* restaurants that are not soft-deleted
    req,            \* req[q]: what request q asks for
    actor,          \* actor[q]: the row the Auth middleware loaded for q
    target,         \* target[q]: the row q's handler loaded
    pc,             \* pc[q]: where q's handler stands
    replaced,       \* history: passwords whose replacement was answered
    dead,           \* history: dead[q], the replaced ones when q arrived
    awake,          \* history: requests whose target was active since they came
    faults          \* errors and crashes so far

orgVars == <<regions, restaurants>>
requestVars == <<req, actor, dead>>
vars == <<users, regions, restaurants, req, actor, target, pc,
          replaced, dead, awake, faults>>

NoRequest == [kind |-> "none", by |-> None, on |-> None, change |-> "keep",
              old |-> None, new |-> NoBody]

Request == [kind : AllKinds \cup {"none"}, by : UserIds \cup {None},
            on : UserIds \cup {None}, change : {"keep", "on", "off"},
            old : UserIds \cup {None}, new : Body \cup {NoBody}]

Running == {"region", "restaurant", "email", "insert", "load", "write", "reply"}

TypeOK ==
    /\ users \in [UserIds -> Row]
    /\ regions \subseteq Regions
    /\ restaurants \subseteq Restaurants
    /\ req \in [Requests -> Request]
    /\ actor \in [Requests -> Row]
    /\ target \in [Requests -> Row]
    /\ pc \in [Requests -> Running \cup {"idle", "ok", "refused", "failed"}]
    /\ replaced \subseteq UserIds
    /\ dead \in [Requests -> SUBSET UserIds]
    /\ awake \subseteq Requests
    /\ faults \in 0..MaxFaults

Init ==
    /\ users = [u \in UserIds |-> IF u \in Seeded THEN Staff[u] ELSE NoRow]
    /\ regions = Regions /\ restaurants = Restaurants
    /\ req = [q \in Requests |-> NoRequest]
    /\ actor = [q \in Requests |-> NoRow]
    /\ target = [q \in Requests |-> NoRow]
    /\ pc = [q \in Requests |-> "idle"]
    /\ replaced = {}
    /\ dead = [q \in Requests |-> {}]
    /\ awake = {}
    /\ faults = 0

Fault == faults < MaxFaults /\ faults' = faults + 1

Live(u) == users[u].state = "live"

\* The handler goes on to `to` if `ok`, and answers with an error otherwise.
Decide(q, from, ok, to) ==
    pc[q] = from /\ pc' = [pc EXCEPT ![q] = IF ok THEN to ELSE "refused"]

-----------------------------------------------------------------------------
(* A request arrives: the middleware loads the caller anew and turns away  *)
(* inactive ones; the services get that row as the actor.                  *)

Arrive(q, r) ==
    /\ pc[q] = "idle"
    /\ Live(r.by) /\ users[r.by].active
    /\ req' = [req EXCEPT ![q] = r]
    /\ actor' = [actor EXCEPT ![q] = users[r.by]]
    /\ pc' = [pc EXCEPT ![q] = IF r.kind = "create" THEN "region" ELSE "load"]
    /\ dead' = [dead EXCEPT ![q] = replaced]
    /\ awake' = IF r.on # None /\ users[r.on].active
                THEN awake \cup {q} ELSE awake
    /\ UNCHANGED <<users, orgVars, target, replaced, faults>>

\* The accounts whose id a client can know, deleted ones included.
Known == {u \in UserIds : users[u].state # "none"}

ArriveCreate(q) ==
    /\ "create" \in Kinds[q]
    /\ \E a \in UserIds, b \in NewUsers :
          Arrive(q, [NoRequest EXCEPT !.kind = "create", !.by = a, !.new = b])

ArriveUpdate(q) ==
    /\ "update" \in Kinds[q]
    /\ \E a \in UserIds, u \in Known, c \in {"keep", "on", "off"} :
          Arrive(q, [NoRequest EXCEPT !.kind = "update", !.by = a, !.on = u,
                                      !.change = c])

ArriveDelete(q) ==
    /\ "delete" \in Kinds[q]
    /\ \E a \in UserIds, u \in Known :
          Arrive(q, [NoRequest EXCEPT !.kind = "delete", !.by = a, !.on = u])

\* These two are about the caller's own account.
ArriveSetup(q) ==
    /\ "setup" \in Kinds[q]
    /\ \E a \in UserIds :
          Arrive(q, [NoRequest EXCEPT !.kind = "setup", !.by = a, !.on = a])

ArrivePassword(q) ==
    /\ "password" \in Kinds[q]
    /\ \E a, p \in UserIds :
          /\ p # q      \* the new password differs from the old one
          /\ Arrive(q, [NoRequest EXCEPT !.kind = "password", !.by = a,
                                         !.on = a, !.old = p])

-----------------------------------------------------------------------------
(* CreateUser.                                                             *)

createVars == <<users, orgVars, requestVars, target, replaced, awake, faults>>

FindRegion(q) ==
    LET new == req[q].new IN
    /\ Decide(q, "region", /\ MayCreateRole(actor[q], new)
                           /\ new.region \in regions \cup {None}, "restaurant")
    /\ UNCHANGED createVars

FindRestaurant(q) ==
    LET new == req[q].new IN
    /\ Decide(q, "restaurant", /\ new.restaurant \in restaurants \cup {None}
                               /\ MayCreateHere(actor[q], new), "email")
    /\ UNCHANGED createVars

\* ExistsByEmail looks at live rows only.
CheckEmail(q) ==
    /\ Decide(q, "email", \A u \in UserIds :
                             Live(u) => users[u].email # req[q].new.email, "insert")
    /\ UNCHANGED createVars

UnusedUnchecked(email) == email \in Emails

\* users.email is UNIQUE, soft-deleted rows included.
Unused(email) ==
    \A u \in UserIds : users[u].state # "none" => users[u].email # email

InsertUser(q) ==
    LET new == req[q].new IN
    /\ pc[q] = "insert"
    /\ Unused(new.email)
    /\ users' = [users EXCEPT ![q] =
            [state |-> "live", role |-> new.role, region |-> new.region,
             restaurant |-> new.restaurant, email |-> new.email, active |-> TRUE,
             completed |-> FALSE, password |-> q, by |-> req[q].by]]
    /\ pc' = [pc EXCEPT ![q] = "reply"]
    /\ UNCHANGED <<orgVars, requestVars, target, replaced, awake, faults>>

InsertConflicts(q) ==
    /\ ~Unused(req[q].new.email)
    /\ Decide(q, "insert", FALSE, "reply")
    /\ UNCHANGED createVars

-----------------------------------------------------------------------------
(* The other handlers load a row, decide on it, and write later.           *)

Load(q, kind, ok) ==
    /\ req[q].kind = kind
    /\ Decide(q, "load", Live(req[q].on) /\ ok, "write")
    /\ target' = [target EXCEPT ![q] = users[req[q].on]]
    /\ UNCHANGED <<users, orgVars, requestVars, replaced, awake, faults>>

Self(q) == req[q].by = req[q].on

LoadForUpdate(q) ==
    Load(q, "update",
         CanUpdateUser(actor[q], users[req[q].on], Self(q), req[q].change))

LoadForDelete(q) ==
    Load(q, "delete", CanDeleteUser(actor[q], users[req[q].on], Self(q)))

LoadForSetup(q) == Load(q, "setup", ~users[req[q].on].completed)

LoadForAnyPassword(q) == Load(q, "password", TRUE)

LoadForPassword(q) == Load(q, "password", users[req[q].on].password = req[q].old)

\* Every UPDATE has WHERE id = $1 AND deleted_at IS NULL.
Writable(u) == Live(u)

Write(q, kind, row) ==
    /\ req[q].kind = kind
    /\ Decide(q, "write", Writable(req[q].on), "reply")
    /\ users' = IF Writable(req[q].on)
                THEN [users EXCEPT ![req[q].on] = row] ELSE users
    /\ awake' = IF Writable(req[q].on) /\ row.active
                THEN awake \cup {p \in Requests : req[p].on = req[q].on} ELSE awake
    /\ UNCHANGED <<orgVars, requestVars, target, replaced, faults>>

ActivationDefault(q) == req[q].change # "off"

\* The handler's copy of the row, with what the request changes.
Activation(q) ==
    CASE req[q].change = "on" -> TRUE
      [] req[q].change = "off" -> FALSE
      [] req[q].change = "keep" -> target[q].active

\* UPDATE users SET ..., role, region_id, restaurant_id, is_active: all of the
\* copy goes back, not only what the request changes.
WriteUpdate(q) ==
    Write(q, "update",
          [users[req[q].on] EXCEPT !.role = target[q].role,
                                   !.region = target[q].region,
                                   !.restaurant = target[q].restaurant,
                                   !.active = Activation(q)])

WriteDelete(q) ==
    Write(q, "delete", [users[req[q].on] EXCEPT !.state = "deleted", !.active = FALSE])

WriteSetup(q) ==
    Write(q, "setup", [users[req[q].on] EXCEPT !.password = q, !.completed = TRUE])

WritePassword(q) ==
    Write(q, "password", [users[req[q].on] EXCEPT !.password = q])

-----------------------------------------------------------------------------
(* Answers, errors, and what happens around the requests.                  *)

Reply(q) ==
    /\ Decide(q, "reply", TRUE, "ok")
    /\ replaced' = IF req[q].kind \in {"setup", "password"}
                   THEN replaced \cup {target[q].password} ELSE replaced
    /\ UNCHANGED <<users, orgVars, requestVars, target, awake, faults>>

\* A database error or a crash; at "reply" the write has taken effect.
GivesUp(q) ==
    /\ pc[q] \in Running
    /\ Fault
    /\ pc' = [pc EXCEPT ![q] = "failed"]
    /\ UNCHANGED <<users, orgVars, requestVars, target, replaced, awake>>

\* Soft deletes, whatever still refers to the row.
RemoveRegion(g) ==
    /\ g \in regions \cap Removals
    /\ regions' = regions \ {g}
    /\ UNCHANGED <<users, restaurants, requestVars, target, pc, replaced,
                   awake, faults>>

RemoveRestaurant(s) ==
    /\ s \in restaurants \cap Removals
    /\ restaurants' = restaurants \ {s}
    /\ UNCHANGED <<users, regions, requestVars, target, pc, replaced,
                   awake, faults>>

Arrives(q) ==
    \/ ArriveCreate(q) \/ ArriveUpdate(q) \/ ArriveDelete(q)
    \/ ArriveSetup(q) \/ ArrivePassword(q)

Creates(q) ==
    \/ FindRegion(q) \/ FindRestaurant(q) \/ CheckEmail(q)
    \/ InsertUser(q) \/ InsertConflicts(q)

Loads(q) ==
    \/ LoadForUpdate(q) \/ LoadForDelete(q) \/ LoadForSetup(q) \/ LoadForPassword(q)

Writes(q) ==
    \/ WriteUpdate(q) \/ WriteDelete(q) \/ WriteSetup(q) \/ WritePassword(q)

Next ==
    \/ \E q \in Requests :
          \/ Arrives(q) \/ Creates(q) \/ Loads(q) \/ Writes(q)
          \/ Reply(q) \/ GivesUp(q)
    \/ \E g \in Regions : RemoveRegion(g)
    \/ \E s \in Restaurants : RemoveRestaurant(s)

Spec == Init /\ [][Next]_vars

-----------------------------------------------------------------------------
(* Properties.                                                             *)

\* The restaurants an account may reach.
Reach(row) == {s \in Restaurants : CanAccessRestaurant(row, s, Restaurants)}

\* Every account ranks below the one that created it and reaches no
\* restaurant beyond that one's: no chain of creations, whatever is updated,
\* deleted or deactivated meanwhile, ends above or outside the account it
\* started from (CanCreateUser, whose lookups and INSERT are apart).
NoEscalation ==
    \A u \in UserIds : users[u].by # None =>
        LET creator == users[users[u].by] IN
        /\ creator.state # "none"
        /\ Level(users[u].role) < Level(creator.role)
        /\ Reach(users[u]) \subseteq Reach(creator)

\* The first administrators can neither be deactivated nor deleted by any
\* sequence of calls: somebody can always manage the system
\* (canManageUser, CanUpdateUser and CanDeleteUser; the write-back of a copy).
AdminsStay ==
    \A u \in Seeded :
        Staff[u].role = "super_admin" /\ Staff[u].active
            => Live(u) /\ users[u].active

\* Two CreateUser calls that both found the address free do not both get an
\* account: GetByEmail finds at most one (the INSERT against its unique index).
OneAccountPerEmail ==
    \A u, v \in UserIds : Live(u) /\ Live(v) /\ users[u].email = users[v].email
        => u = v

WritesRow(q, u) == req[q].on = u /\ pc[q] = "write" /\ pc'[q] = "reply"

Oversees(a, u) ==
    /\ Level(users[u].role) < Level(users[a].role)
    /\ Reach(users[u]) \subseteq Reach(users[a])

\* An existing account is changed by its owner, or by one of a higher rank
\* whose scope contains it, although canManageUser compares only the region
\* or only the restaurant column.
ChangedByOverseer ==
    [][\A u \in Known : users'[u] # users[u] =>
          \E q \in Requests : /\ WritesRow(q, u)
                              /\ Self(q) \/ Oversees(req[q].by, u)]_vars

\* A deleted account is never written again, not even by a handler that
\* loaded it before: it stays inactive and its row keeps its last state.
DeletedStaysDeleted ==
    [][\A u \in Known : ~Live(u) => users'[u] = users[u]]_vars

\* An inactive account comes back only through a request that asks for it, or
\* by the copy of a row that was still active when that request came or later.
ReactivatedKnowingly ==
    [][\A u \in Known : ~users[u].active /\ users'[u].active =>
          \E q \in Requests : /\ WritesRow(q, u)
                              /\ req[q].change = "on" \/ q \in awake]_vars

\* What a write of an existing account may never do, whichever handlers loaded
\* its row before: one copy of the row is written back whole.
WritesSound == ChangedByOverseer /\ DeletedStaysDeleted /\ ReactivatedKnowingly

\* A password whose replacement was answered is of no use to a ChangePassword
\* that arrives afterwards, whichever changes and set-ups run side by side.
OldPasswordDead ==
    \A q \in Requests : req[q].kind = "password" /\ req[q].old \in dead[q]
        => pc[q] \notin {"write", "reply", "ok"}

ListedActive(a, u) ==
    /\ CheckPermission(users[a], "user.read")
    /\ Live(u) /\ users[u].active
    /\ \/ users[a].role \in {"super_admin", "regional_manager"}
       \/ users[u].restaurant = users[a].restaurant

\* The rows List answers with when the request itself filters nothing.
Listed(a, u) ==
    /\ CheckPermission(users[a], "user.read")
    /\ Live(u)
    /\ \/ users[a].role = "super_admin"
       \/ /\ users[a].role = "regional_manager"
          /\ users[a].region # None => users[u].region = users[a].region
       \/ /\ users[a].role \in {"restaurant_manager", "shift_manager"}
          /\ users[a].restaurant # None
                => users[u].restaurant = users[a].restaurant

\* The filter of List and the rules of GetByID are written apart: whichever
\* account of another's somebody may open is in that one's list as well, for
\* every combination of columns the handlers leave behind.
OpenedIsListed ==
    \A a, u \in UserIds :
        Live(u) /\ CanReadUser(users[a], users[u], FALSE) => Listed(a, u)

-----------------------------------------------------------------------------
(* What the documentation says and the code does not do.                   *)

\* "Self-update: allowed for profile fields, but never activation state"
\* (CanUpdateUser).
SelfUpdateKeepsActivation ==
    [][\A q \in Requests :
          req[q].kind = "update" /\ Self(q) /\ WritesRow(q, req[q].on)
              => users'[req[q].on].active = users[req[q].on].active]_vars

-----------------------------------------------------------------------------
(* The inductive invariant of UsersProofs.                                 *)

SamePost(a, b) ==
    a.role = b.role /\ a.region = b.region /\ a.restaurant = b.restaurant

\* Rows keep what scope and rank are computed from, and no address twice.
RowsSound ==
    /\ \A u \in UserIds :
          /\ Consistent(users[u])
          /\ users[u].state = "none" => users[u] = NoRow
          /\ users[u].state # "none" => /\ users[u].role \in Roles
                                        /\ users[u].password # None
          /\ users[u].state = "deleted" => ~users[u].active
    /\ \A u, v \in Known : users[u].email = users[v].email => u = v
    /\ \A u \in Seeded : u \in Known /\ users[u].role = Staff[u].role

\* Where a handler stands after it wrote.
Written == {"reply", "ok", "failed"}

\* The copy of the caller may be stale, but not in its rank and scope.
RequestSound(q) ==
    /\ users[q] # NoRow => req[q].kind = "create" /\ pc[q] \in Written
    /\ pc[q] # "idle" => /\ req[q].by \in Known
                         /\ SamePost(actor[q], users[req[q].by])
                         /\ req[q].on # None => req[q].on \in Known
                         /\ req[q].on # None /\ users[req[q].on].active => q \in awake
    /\ pc[q] \in {"region", "restaurant", "email", "insert"} => req[q].kind = "create"
    /\ pc[q] \in {"load", "write"} => req[q].kind # "create" /\ req[q].on # None
    /\ req[q].kind \in {"setup", "password"} => Self(q)

\* What a handler was allowed stays allowed.
DecisionSound(q) ==
    /\ pc[q] \in {"restaurant", "email", "insert"} => MayCreateRole(actor[q], req[q].new)
    /\ pc[q] \in {"email", "insert"} => MayCreateHere(actor[q], req[q].new)
    /\ pc[q] = "write" =>
          /\ SamePost(target[q], users[req[q].on])
          /\ target[q].active => q \in awake
          /\ req[q].kind = "update"
                => CanUpdateUser(actor[q], target[q], Self(q), req[q].change)
          /\ req[q].kind = "delete" => CanDeleteUser(actor[q], target[q], Self(q))
          /\ req[q].on \in Seeded /\ ~target[q].active
                => ~(Staff[req[q].on].role = "super_admin" /\ Staff[req[q].on].active)

HandlersSound == \A q \in Requests : RequestSound(q) /\ DecisionSound(q)

\* The account that password p was made for.
Owner(p) == IF p \in Requests /\ req[p].kind # "create" THEN req[p].on ELSE p

\* p is u's, and nobody is going to write it again.
MadeFor(p, u) ==
    /\ p \in UserIds /\ Owner(p) = u
    /\ p \in Requests => pc[p] \in Written

\* A password that was replaced is no account's any more.
PasswordsSound ==
    /\ \A u \in Known : MadeFor(users[u].password, u)
    /\ \A q \in Requests :
          req[q].kind \in {"setup", "password"} =>
              /\ pc[q] \in {"write", "reply"} => /\ MadeFor(target[q].password, req[q].on)
                                                 /\ target[q].password # q
              /\ pc[q] = "reply" =>
                    \A u \in UserIds : users[u].password # target[q].password
    /\ \A p \in replaced : /\ p \in Requests => pc[p] \in Written
                           /\ \A u \in UserIds : users[u].password # p
    /\ \A q \in Requests : dead[q] \subseteq replaced

IInv ==
    /\ TypeOK
    /\ RowsSound
    /\ HandlersSound
    /\ PasswordsSound
    /\ OldPasswordDead
    /\ NoEscalation
    /\ AdminsStay

=============================================================================
