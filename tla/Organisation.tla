----------------------------- MODULE Organisation -----------------------------
(***************************************************************************)
(* The regions and the restaurants, and the requests of staff that create, *)
(* update and delete them: RegionService and RestaurantService with their  *)
(* repositories.  A request is the sequence of its queries, its script,    *)
(* one step each.  Deletion is soft.  A row has its name, a number in the  *)
(* order that the lists are sorted by, and its own code; a request may     *)
(* name a code that another row has (clash).                               *)
(***************************************************************************)
EXTENDS RBAC, Sequences, FiniteSets

CONSTANTS
    Seeded,             \* the rows at first
    Actors, Staff,      \* the accounts that send requests, and their rows
    Requests,
    Scenarios           \* bound: what they ask for, together

Rows == Regions \cup Restaurants

Row == [state : {"none", "live", "deleted"}, active : BOOLEAN, name : Nat]

Request == [op : {"create", "update", "delete"}, by : Actors, on : Rows,
            change : {"on", "off", "keep"}, name : Nat, clash : BOOLEAN]

Account == [role : Roles, region : Regions \cup {None},
            restaurant : Restaurants \cup {None}, active : BOOLEAN]

ASSUME TablesAssumption ==
    /\ Regions \cap Restaurants = {} /\ IsFiniteSet(Rows)
    /\ Staff \in [Actors -> Account]
    /\ Seeded \in [Rows -> Row]
    /\ Scenarios \subseteq [Requests -> Request]

VARIABLES
    table,          \* the two tables
    req,            \* req[q]: what request q asks for
    outcome,        \* outcome[q]: idle, running, ok, refused or failed
    todo,           \* todo[q]: the rest of q's script
    loaded          \* loaded[q]: the row q's handler read

orgVars == <<table, req, outcome, todo, loaded>>

OrgInit ==
    /\ table = Seeded
    /\ req \in Scenarios
    /\ outcome = [q \in Requests |-> "idle"]
    /\ todo = [q \in Requests |-> <<>>]
    /\ loaded = [q \in Requests |-> [state |-> "none", active |-> FALSE, name |-> 0]]

IsLive(r) == table[r].state = "live"

LiveRestaurants == {s \in Restaurants : IsLive(s)}

Actor(q) == Staff[req[q].by]

-----------------------------------------------------------------------------
(* The rules of RBACService.                                               *)

CanCreateRegion(user) ==
    CheckPermission(user, "region.create") /\ user.role = "super_admin"

CanUpdateRegion(user) ==
    CheckPermission(user, "region.update") /\ user.role = "super_admin"

CanDeleteRegion(user) ==
    CheckPermission(user, "region.delete") /\ user.role = "super_admin"

CanCreateRestaurant(user, g) ==
    /\ CheckPermission(user, "restaurant.create")
    /\ \/ user.role = "super_admin"
       \/ user.role = "regional_manager" /\ user.region # None /\ user.region = g

CanUpdateRestaurant(user, s) ==
    CheckPermission(user, "restaurant.update") /\ CanAccessRestaurant(user, s, LiveRestaurants)

CanDeleteRestaurant(user, s) ==
    CheckPermission(user, "restaurant.delete") /\ CanAccessRestaurant(user, s, LiveRestaurants)

-----------------------------------------------------------------------------
(* The scripts, and the endpoints that start them.                         *)

CreateRegion == <<"insert">>
UpdateRegion == <<"load", "write">>
DeleteRegion == <<"remove">>
CreateRestaurant == <<"region", "insert">>
UpdateRestaurant == <<"load", "scope", "write", "reload">>
DeleteRestaurant == <<"load", "scope", "remove">>

Arrive(q, rows, op, allowed, script) ==
    /\ outcome[q] = "idle"
    /\ req[q].on \in rows /\ req[q].op = op
    /\ outcome' = [outcome EXCEPT ![q] = IF allowed THEN "running" ELSE "refused"]
    /\ todo' = [todo EXCEPT ![q] = IF allowed THEN script ELSE <<>>]
    /\ UNCHANGED <<table, req, loaded>>

PostRegion(q) == Arrive(q, Regions, "create", CanCreateRegion(Actor(q)), CreateRegion)
PutRegion(q) == Arrive(q, Regions, "update", CanUpdateRegion(Actor(q)), UpdateRegion)
DropRegion(q) == Arrive(q, Regions, "delete", CanDeleteRegion(Actor(q)), DeleteRegion)

PostRestaurant(q) ==
    /\ req[q].on \in Restaurants
    /\ Arrive(q, Restaurants, "create",
              CanCreateRestaurant(Actor(q), RegionOf[req[q].on]), CreateRestaurant)
PutRestaurant(q) == Arrive(q, Restaurants, "update", TRUE, UpdateRestaurant)
DropRestaurant(q) == Arrive(q, Restaurants, "delete", TRUE, DeleteRestaurant)

-----------------------------------------------------------------------------
(* The queries.                                                            *)

At(q, step) == outcome[q] = "running" /\ Head(todo[q]) = step

\* The handler goes on if `ok`, and answers with an error otherwise.
Decide(q, ok) ==
    /\ todo' = [todo EXCEPT ![q] = IF ok THEN Tail(@) ELSE <<>>]
    /\ outcome' = [outcome EXCEPT ![q] = IF ~ok THEN "refused"
                                         ELSE IF Len(todo[q]) = 1 THEN "ok" ELSE @]

RegionExists(q) ==
    /\ At(q, "region")
    /\ Decide(q, IsLive(RegionOf[req[q].on]))
    /\ UNCHANGED <<table, req, loaded>>

Load(q) ==
    /\ At(q, "load")
    /\ Decide(q, IsLive(req[q].on))
    /\ loaded' = [loaded EXCEPT ![q] = IF IsLive(req[q].on) THEN table[req[q].on] ELSE @]
    /\ UNCHANGED <<table, req>>

CheckScope(q) ==
    /\ At(q, "scope")
    /\ Decide(q, IF req[q].op = "update"
                 THEN CanUpdateRestaurant(Actor(q), req[q].on)
                 ELSE CanDeleteRestaurant(Actor(q), req[q].on))
    /\ UNCHANGED <<table, req, loaded>>

Insert(q) ==
    LET ok == table[req[q].on].state = "none" /\ ~req[q].clash IN
    /\ At(q, "insert")
    /\ Decide(q, ok)
    /\ table' = IF ok
                THEN [table EXCEPT ![req[q].on] = [state |-> "live", active |-> TRUE,
                                                   name |-> req[q].name]]
                ELSE table
    /\ UNCHANGED <<req, loaded>>

Writable(r) == IsLive(r)

NewActive(q) ==
    CASE req[q].change = "on" -> TRUE
      [] req[q].change = "off" -> FALSE
      [] OTHER -> loaded[q].active

Write(q) ==
    LET ok == Writable(req[q].on) /\ ~req[q].clash IN
    /\ At(q, "write")
    /\ Decide(q, ok)
    /\ table' = IF ok
                THEN [table EXCEPT ![req[q].on] = [@ EXCEPT !.active = NewActive(q),
                                                            !.name = req[q].name]]
                ELSE table
    /\ UNCHANGED <<req, loaded>>

Reload(q) ==
    /\ At(q, "reload")
    /\ Decide(q, IsLive(req[q].on))
    /\ UNCHANGED <<table, req, loaded>>

\* Nothing is asked about what refers to the row.
Remove(q) ==
    LET ok == IsLive(req[q].on) IN
    /\ At(q, "remove")
    /\ Decide(q, ok)
    /\ table' = IF ok
                THEN [table EXCEPT ![req[q].on] = [@ EXCEPT !.state = "deleted",
                                                            !.active = FALSE]]
                ELSE table
    /\ UNCHANGED <<req, loaded>>

\* A query fails, and the handler answers with its error.
Fail(q) ==
    /\ outcome[q] = "running"
    /\ outcome' = [outcome EXCEPT ![q] = "failed"]
    /\ todo' = [todo EXCEPT ![q] = <<>>]
    /\ UNCHANGED <<table, req, loaded>>

Changes(q) ==
    \/ PostRegion(q) \/ PutRegion(q) \/ DropRegion(q)
    \/ PostRestaurant(q) \/ PutRestaurant(q) \/ DropRestaurant(q)
    \/ RegionExists(q) \/ Load(q) \/ CheckScope(q)
    \/ Insert(q) \/ Write(q) \/ Reload(q) \/ Remove(q) \/ Fail(q)

-----------------------------------------------------------------------------
(* Properties.                                                             *)

OrgTypeOK ==
    /\ table \in [Rows -> Row]
    /\ req \in [Requests -> Request]
    /\ outcome \in [Requests -> {"idle", "running", "ok", "refused", "failed"}]
    /\ \A q \in Requests : (outcome[q] = "running") <=> (todo[q] # <<>>)
    /\ loaded \in [Requests -> Row]

\* A region is changed by a super admin, a restaurant by one or by the manager
\* of its region, whatever happens between the check and the write.
ChangedWithinScope ==
    [][\A r \in Rows : table'[r] # table[r] =>
          \E q \in Requests :
             /\ todo'[q] # todo[q] /\ req[q].on = r
             /\ \/ Actor(q).role = "super_admin"
                \/ /\ Actor(q).role = "regional_manager"
                   /\ r \in Restaurants /\ Actor(q).region = RegionOf[r]]_orgVars

\* A deleted row stays deleted, also under an update that loaded it before.
DeletedStaysDeleted ==
    [][\A r \in Rows : table[r].state = "deleted" => table'[r] = table[r]]_orgVars

=============================================================================
