---------------------------- MODULE UsersProofs ----------------------------
(* Proofs about the staff accounts, for any organisation and any number of *)
(* requests.                                                               *)
EXTENDS Users, TLAPS

-----------------------------------------------------------------------------
(* The rules, one account against another.                                 *)

LEMMA LevelOfRole ==
    /\ \A role : Level(role) \in 0..5
    /\ \A role \in Roles : Level(role) \in 1..5
    /\ \A role : Level(role) = 5 <=> role = "super_admin"
    /\ \A role : Level(role) = 4 <=> role = "regional_manager"
    /\ \A role : Level(role) = 3 <=> role = "restaurant_manager"
  BY DEF Level, Roles

\* Rank and reach depend on role, region and restaurant only.
LEMMA ReachOfPost ==
    ASSUME NEW a, NEW b, SamePost(a, b)
    PROVE  /\ Reach(a) = Reach(b)
           /\ Level(a.role) = Level(b.role)
           /\ Consistent(a) <=> Consistent(b)
  BY DEF SamePost, Reach, CanAccessRestaurant, Consistent

LEMMA ReachOfTop ==
    ASSUME NEW a, a.role = "super_admin"
    PROVE  Reach(a) = Restaurants
  BY DEF Reach, CanAccessRestaurant

LEMMA ReachOfRegional ==
    ASSUME NEW a, a.role = "regional_manager", a.region # None
    PROVE  Reach(a) = {s \in Restaurants : RegionOf[s] = a.region}
  BY DEF Reach, CanAccessRestaurant, RestaurantRoles

LEMMA ReachOfStaff ==
    ASSUME NEW a, a.role \notin {"super_admin", "regional_manager"}
    PROVE  Reach(a) \subseteq {a.restaurant}
  BY DEF Reach, CanAccessRestaurant

LEMMA ReachOfManager ==
    ASSUME NEW a, a.role = "restaurant_manager"
    PROVE  Reach(a) = {s \in Restaurants : s = a.restaurant}
  BY DEF Reach, CanAccessRestaurant, RestaurantRoles

\* CanCreateUser hands out lower roles ...
LEMMA CreatedBelow ==
    ASSUME NEW a, NEW new, MayCreateRole(a, new)
    PROVE  new.role \in Roles /\ Level(new.role) < Level(a.role)
<1>1. new.role \in CreatableRoles(a.role)
  BY DEF MayCreateRole
<1>2. CASE a.role = "super_admin"
  BY <1>1, <1>2 DEF CreatableRoles, Level, Roles
<1>3. CASE a.role = "regional_manager"
  BY <1>1, <1>3 DEF CreatableRoles, Level, Roles
<1>4. CASE a.role = "restaurant_manager"
  BY <1>1, <1>4 DEF CreatableRoles, Level, Roles
<1>5. QED
  BY <1>1, <1>2, <1>3, <1>4 DEF CreatableRoles

\* ... in places the creator reaches.
LEMMA CreatedWithin ==
    ASSUME NEW a, NEW new, MayCreateRole(a, new), MayCreateHere(a, new)
    PROVE  Reach(new) \subseteq Reach(a) /\ Consistent(new)
<1>1. WithinScope(a, new)
  BY DEF MayCreateHere
<1>2. Consistent(new)
  BY DEF MayCreateHere, Consistent
<1>3. Reach(new) \subseteq Restaurants
  BY DEF Reach
<1>4. CASE a.role = "super_admin"
  BY <1>2, <1>3, <1>4, ReachOfTop
<1>5. CASE a.role = "regional_manager"
  <2>1. new.role \notin {"super_admin", "regional_manager"}
    BY <1>5 DEF MayCreateRole, CreatableRoles
  <2>2. a.region # None /\ (new.restaurant # None => RegionOf[new.restaurant] = a.region)
    BY <1>1, <1>5 DEF WithinScope
  <2>3. QED
    BY <1>2, <1>3, <1>5, <2>1, <2>2, ReachOfRegional, ReachOfStaff, OrganisationAssumption
<1>6. CASE a.role = "restaurant_manager"
  <2>1. new.role \notin {"super_admin", "regional_manager"}
    BY <1>6 DEF MayCreateRole, CreatableRoles
  <2>2. new.restaurant = a.restaurant
    BY <1>1, <1>6 DEF WithinScope
  <2>3. QED
    BY <1>2, <1>3, <1>6, <2>1, <2>2, ReachOfManager, ReachOfStaff
<1>7. QED
  BY <1>1, <1>4, <1>5, <1>6 DEF WithinScope

\* canManageUser: the region or the restaurant column is enough.
LEMMA ManagedWithin ==
    ASSUME NEW a, NEW t, Consistent(t), canManageUser(a, t)
    PROVE  Level(t.role) < Level(a.role) /\ Reach(t) \subseteq Reach(a)
<1>1. Level(t.role) < Level(a.role)
  BY LevelOfRole DEF canManageUser, IsAtLeast
<1>2. Reach(t) \subseteq Restaurants
  BY DEF Reach
<1>3. CASE a.role = "super_admin"
  BY <1>1, <1>2, <1>3, ReachOfTop
<1>4. CASE a.role = "regional_manager"
  <2>1. t.role \notin {"super_admin", "regional_manager"}
    BY <1>1, <1>4, LevelOfRole DEF Level
  <2>2. a.region # None /\ t.region = a.region
    BY <1>4 DEF canManageUser
  <2>3. ASSUME NEW s \in Reach(t) PROVE RegionOf[s] = a.region
    BY <1>2, <2>1, <2>2, <2>3, ReachOfStaff, OrganisationAssumption DEF Consistent
  <2>4. QED
    BY <1>1, <1>2, <1>4, <2>2, <2>3, ReachOfRegional
<1>5. CASE a.role = "restaurant_manager"
  <2>1. t.role \notin {"super_admin", "regional_manager"}
    BY <1>1, <1>5, LevelOfRole DEF Level
  <2>2. t.restaurant = a.restaurant
    BY <1>5 DEF canManageUser
  <2>3. QED
    BY <1>1, <1>2, <1>5, <2>1, <2>2, ReachOfManager, ReachOfStaff
<1>6. QED
  BY <1>3, <1>4, <1>5 DEF canManageUser

\* Nobody manages a super_admin.
LEMMA TopUnmanaged ==
    ASSUME NEW a, NEW t, t.role = "super_admin"
    PROVE  ~canManageUser(a, t)
  BY LevelOfRole DEF canManageUser, IsAtLeast

-----------------------------------------------------------------------------
(* Types.                                                                  *)

LEMMA NullsTyped ==
    /\ NoRow \in Row
    /\ NoRequest \in Request
  BY DEF NoRow, Row, NoBody, NoRequest, Request, Roles

LEMMA TypeInit == Init => TypeOK
<1> SUFFICES ASSUME Init PROVE TypeOK
  OBVIOUS
<1>1. users \in [UserIds -> Row]
  BY NullsTyped, UsersAssumption DEF Init
<1>2. faults \in 0..MaxFaults
  BY UsersAssumption DEF Init
<1>3. QED
  BY <1>1, <1>2, NullsTyped DEF Init, TypeOK

Steps == Running \cup {"idle", "ok", "refused", "failed"}

LEMMA DecideTyped ==
    ASSUME TypeOK, NEW q \in Requests, NEW from, NEW ok, NEW to \in Steps,
           Decide(q, from, ok, to)
    PROVE  pc' \in [Requests -> Steps]
  BY DEF TypeOK, Decide, Steps

LEMMA FaultTyped == ASSUME TypeOK, Fault PROVE faults' \in 0..MaxFaults
  BY UsersAssumption DEF TypeOK, Fault

LEMMA ArriveTyped ==
    ASSUME TypeOK, NEW q \in Requests, NEW r \in Request, r.by \in UserIds, Arrive(q, r)
    PROVE  TypeOK'
<1> USE DEF TypeOK
<1>1. pc' \in [Requests -> Steps]
  BY DEF Arrive, Steps, Running
<1>2. actor' \in [Requests -> Row]
  BY DEF Arrive
<1>3. req' \in [Requests -> Request] /\ dead' \in [Requests -> SUBSET UserIds]
  BY DEF Arrive
<1>4. awake' \subseteq Requests
  BY DEF Arrive
<1>5. QED
  BY <1>1, <1>2, <1>3, <1>4 DEF Arrive, orgVars, Steps

LEMMA LoadTyped ==
    ASSUME TypeOK, NEW q \in Requests, NEW kind, NEW ok, Load(q, kind, ok),
           req[q].on \in UserIds
    PROVE  TypeOK'
<1> USE DEF TypeOK
<1>1. pc' \in [Requests -> Steps]
  BY DecideTyped DEF Load, Steps, Running
<1>2. target' \in [Requests -> Row]
  BY DEF Load
<1>3. QED
  BY <1>1, <1>2 DEF Load, orgVars, requestVars, Steps

LEMMA WriteTyped ==
    ASSUME TypeOK, NEW q \in Requests, NEW kind, NEW row \in Row, Write(q, kind, row)
    PROVE  TypeOK'
<1> USE DEF TypeOK
<1>1. pc' \in [Requests -> Steps]
  BY DecideTyped DEF Write, Steps, Running
<1>2. users' \in [UserIds -> Row]
  BY DEF Write
<1>3. awake' \subseteq Requests
  BY DEF Write
<1>4. QED
  BY <1>1, <1>2, <1>3 DEF Write, orgVars, requestVars, Steps

-----------------------------------------------------------------------------
(* What a step does to the requests and to the rows.                       *)

\* What a request of each kind asks for when it arrives.
Asks(r) ==
    /\ r \in Request
    /\ r.by \in UserIds
    /\ r.kind = "create" => r.on = None
    /\ r.kind # "create" => r.on \in Known
    /\ r.kind \in {"setup", "password"} => r.on = r.by

LEMMA ArrivesWith ==
    ASSUME TypeOK, NEW q \in Requests, Arrives(q)
    PROVE  \E r : Asks(r) /\ Arrive(q, r)
<1> USE DEF Asks
<1>1. CASE ArriveCreate(q)
  <2>1. PICK a \in UserIds, b \in NewUsers :
           Arrive(q, [NoRequest EXCEPT !.kind = "create", !.by = a, !.new = b])
    BY <1>1 DEF ArriveCreate
  <2> DEFINE r == [NoRequest EXCEPT !.kind = "create", !.by = a, !.new = b]
  <2>2. r \in Request
    BY UsersAssumption DEF NoRequest, Request, AllKinds
  <2>3. r.by \in UserIds /\ r.kind = "create" /\ r.on = None
    BY DEF NoRequest
  <2>4. QED
    BY <2>1, <2>2, <2>3
<1>2. CASE ArriveUpdate(q)
  <2>1. PICK a \in UserIds, u \in Known, c \in {"keep", "on", "off"} :
           Arrive(q, [NoRequest EXCEPT !.kind = "update", !.by = a, !.on = u,
                                       !.change = c])
    BY <1>2 DEF ArriveUpdate
  <2> DEFINE r == [NoRequest EXCEPT !.kind = "update", !.by = a, !.on = u, !.change = c]
  <2>2. r \in Request
    BY DEF NoRequest, Request, AllKinds, Known
  <2>3. r.by \in UserIds /\ r.kind = "update" /\ r.on \in Known
    BY DEF NoRequest
  <2>4. QED
    BY <2>1, <2>2, <2>3
<1>3. CASE ArriveDelete(q)
  <2>1. PICK a \in UserIds, u \in Known :
           Arrive(q, [NoRequest EXCEPT !.kind = "delete", !.by = a, !.on = u])
    BY <1>3 DEF ArriveDelete
  <2> DEFINE r == [NoRequest EXCEPT !.kind = "delete", !.by = a, !.on = u]
  <2>2. r \in Request
    BY DEF NoRequest, Request, AllKinds, Known
  <2>3. r.by \in UserIds /\ r.kind = "delete" /\ r.on \in Known
    BY DEF NoRequest
  <2>4. QED
    BY <2>1, <2>2, <2>3
<1>4. CASE ArriveSetup(q)
  <2>1. PICK a \in UserIds :
           Arrive(q, [NoRequest EXCEPT !.kind = "setup", !.by = a, !.on = a])
    BY <1>4 DEF ArriveSetup
  <2> DEFINE r == [NoRequest EXCEPT !.kind = "setup", !.by = a, !.on = a]
  <2>2. r \in Request
    BY DEF NoRequest, Request, AllKinds
  <2>3. r.by = a /\ r.kind = "setup" /\ r.on = a
    BY DEF NoRequest
  <2>4. a \in Known
    BY <2>1, <2>3 DEF Arrive, Live, Known
  <2>5. QED
    BY <2>1, <2>2, <2>3, <2>4
<1>5. CASE ArrivePassword(q)
  <2>1. PICK a \in UserIds, p \in UserIds :
           Arrive(q, [NoRequest EXCEPT !.kind = "password", !.by = a, !.on = a, !.old = p])
    BY <1>5 DEF ArrivePassword
  <2> DEFINE r == [NoRequest EXCEPT !.kind = "password", !.by = a, !.on = a, !.old = p]
  <2>2. r \in Request
    BY DEF NoRequest, Request, AllKinds
  <2>3. r.by = a /\ r.kind = "password" /\ r.on = a
    BY DEF NoRequest
  <2>4. a \in Known
    BY <2>1, <2>3 DEF Arrive, Live, Known
  <2>5. QED
    BY <2>1, <2>2, <2>3, <2>4
<1>6. QED
  BY <1>1, <1>2, <1>3, <1>4, <1>5 DEF Arrives

\* No step takes a row away or changes its rank or scope.
RowsKept ==
    \A u \in Known : u \in Known' /\ SamePost(users'[u], users[u])

\* What the four UPDATE statements leave in a row.
Rewrites(q, row) ==
    LET old == users[req[q].on] IN
    /\ SamePost(row, old)
    /\ row.email = old.email /\ row.by = old.by
    /\ row.state \in {"live", "deleted"}
    /\ row.state = "deleted" => ~row.active
    /\ row.password = IF req[q].kind \in {"setup", "password"} THEN q ELSE old.password
    /\ row.active => old.active \/ req[q].change = "on" \/ q \in awake
    /\ (/\ req[q].on \in Seeded
        /\ Staff[req[q].on].role = "super_admin" /\ Staff[req[q].on].active)
           => row.state = "live" /\ row.active

LEMMA TargetKnown ==
    ASSUME TypeOK, HandlersSound, NEW q \in Requests, pc[q] \in {"load", "write"}
    PROVE  /\ req[q].on \in Known /\ req[q].on \in UserIds
           /\ users[req[q].on] \in Row
           /\ req[q].by \in Known /\ req[q].by \in UserIds
           /\ SamePost(actor[q], users[req[q].by])
  BY DEF TypeOK, HandlersSound, RequestSound, Known

\* Post of a first administrator: nobody else manages, deletes or deactivates it.
LEMMA AdminUnmanaged ==
    ASSUME TypeOK, HandlersSound, AdminsStay, NEW q \in Requests, pc[q] = "write",
           req[q].kind \in {"update", "delete"},
           users[req[q].on].role = "super_admin"
    PROVE  req[q].kind = "update" /\ req[q].change = "keep"
<1>1. target[q].role = "super_admin"
  BY DEF HandlersSound, DecisionSound, SamePost
<1>2. ~canManageUser(actor[q], target[q])
  BY <1>1, TopUnmanaged
<1>3. CASE req[q].kind = "delete"
  BY <1>2, <1>3 DEF HandlersSound, DecisionSound, CanDeleteUser
<1>4. CASE req[q].kind = "update"
  BY <1>2, <1>4 DEF HandlersSound, DecisionSound, CanUpdateUser
<1>5. QED
  BY <1>3, <1>4

LEMMA WritesRewrite ==
    ASSUME TypeOK, RowsSound, HandlersSound, AdminsStay,
           NEW q \in Requests, Writes(q)
    PROVE  \E row \in Row : /\ Write(q, req[q].kind, row)
                            /\ Live(req[q].on) => Rewrites(q, row)
<1> DEFINE on == req[q].on
           old == users[on]
<1>1. pc[q] = "write"
  BY DEF Writes, WriteUpdate, WriteDelete, WriteSetup, WritePassword, Write, Decide
<1>2. on \in UserIds /\ old \in Row
  BY <1>1, TargetKnown
<1>3. CASE WriteUpdate(q)
  <2> DEFINE row == [old EXCEPT !.role = target[q].role, !.region = target[q].region,
                                !.restaurant = target[q].restaurant,
                                !.active = Activation(q)]
  <2>1. Write(q, "update", row) /\ req[q].kind = "update"
    BY <1>3 DEF WriteUpdate, Write
  <2>2. Activation(q) \in BOOLEAN
    BY DEF Activation, TypeOK, Request, Row
  <2>3. target[q] \in Row
    BY DEF TypeOK
  <2>4. row \in Row
    <3>1. /\ target[q].role \in Roles \cup {"none"}
          /\ target[q].region \in Regions \cup {None}
          /\ target[q].restaurant \in Restaurants \cup {None}
      BY <2>3 DEF Row
    <3> HIDE DEF old
    <3> QED BY <1>2, <2>2, <3>1 DEF Row
  <2>5. SamePost(target[q], old) /\ (target[q].active => q \in awake)
    BY <1>1 DEF HandlersSound, DecisionSound
  <2>6. /\ row.role = target[q].role /\ row.region = target[q].region
        /\ row.restaurant = target[q].restaurant /\ row.active = Activation(q)
        /\ row.email = old.email /\ row.by = old.by
        /\ row.state = old.state /\ row.password = old.password
    BY <1>2 DEF Row
  <2>7. SamePost(row, old)
    BY <2>5, <2>6 DEF SamePost
  <2>8. Activation(q) => req[q].change = "on" \/ q \in awake
    BY <2>5 DEF Activation, TypeOK, Request
  <2>9. ASSUME on \in Seeded, Staff[on].role = "super_admin", Staff[on].active
        PROVE  Activation(q)
    <3>1. old.role = "super_admin"
      BY <2>9 DEF RowsSound
    <3>2. req[q].change = "keep"
      BY <1>1, <2>1, <3>1, AdminUnmanaged
    <3>3. target[q].active
      BY <1>1, <2>9 DEF HandlersSound, DecisionSound
    <3>4. QED
      BY <3>2, <3>3 DEF Activation
  <2>10. ASSUME Live(on) PROVE Rewrites(q, row)
    BY <2>1, <2>6, <2>7, <2>8, <2>9, <2>10 DEF Rewrites, Live
  <2>11. QED
    BY <2>1, <2>4, <2>10
<1>4. CASE WriteDelete(q)
  <2> DEFINE row == [old EXCEPT !.state = "deleted", !.active = FALSE]
  <2>1. Write(q, "delete", row) /\ req[q].kind = "delete"
    BY <1>4 DEF WriteDelete, Write
  <2>2. row \in Row
    BY <1>2 DEF Row
  <2>3. /\ SamePost(row, old) /\ row.active = FALSE
        /\ row.email = old.email /\ row.by = old.by
        /\ row.state = "deleted" /\ row.password = old.password
    BY <1>2 DEF Row, SamePost
  <2>4. ~(on \in Seeded /\ Staff[on].role = "super_admin")
    BY <1>1, <2>1, AdminUnmanaged DEF RowsSound
  <2>5. Rewrites(q, row)
    BY <2>1, <2>3, <2>4 DEF Rewrites
  <2>6. QED
    BY <2>1, <2>2, <2>5
<1>5. CASE WriteSetup(q) \/ WritePassword(q)
  <2>1. PICK row \in {[old EXCEPT !.password = q, !.completed = TRUE],
                      [old EXCEPT !.password = q]} :
          /\ Write(q, req[q].kind, row)
          /\ req[q].kind \in {"setup", "password"}
    BY <1>5 DEF WriteSetup, WritePassword, Write
  <2>2. row \in Row
    BY <1>2, <2>1 DEF Row, UserIds
  <2>3. /\ SamePost(row, old) /\ row.active = old.active
        /\ row.email = old.email /\ row.by = old.by
        /\ row.state = old.state /\ row.password = q
    BY <1>2, <2>1 DEF Row, SamePost
  <2>4. ASSUME Live(on) PROVE Rewrites(q, row)
    BY <2>1, <2>3, <2>4 DEF Rewrites, Live, AdminsStay
  <2>5. QED
    BY <2>1, <2>2, <2>4
<1>6. QED
  BY <1>3, <1>4, <1>5 DEF Writes

LEMMA InsertedRow ==
    ASSUME TypeOK, HandlersSound, NEW q \in Requests, InsertUser(q)
    PROVE  /\ users' = [users EXCEPT ![q] = users'[q]]
           /\ users'[q] \in Row /\ users[q] = NoRow /\ q \notin Known
           /\ users'[q].role = req[q].new.role /\ users'[q].region = req[q].new.region
           /\ users'[q].restaurant = req[q].new.restaurant
           /\ users'[q].email = req[q].new.email
           /\ users'[q].state = "live" /\ users'[q].by = req[q].by
           /\ users'[q].password = q
           /\ \A u \in UserIds : u # q => users'[u] = users[u]
           /\ MayCreateRole(actor[q], req[q].new) /\ MayCreateHere(actor[q], req[q].new)
           /\ req[q].by \in Known /\ SamePost(actor[q], users[req[q].by])
           /\ req[q].kind = "create"
<1> DEFINE new == req[q].new
           row == [state |-> "live", role |-> new.role, region |-> new.region,
                   restaurant |-> new.restaurant, email |-> new.email, active |-> TRUE,
                   completed |-> FALSE, password |-> q, by |-> req[q].by]
<1>1. pc[q] = "insert" /\ users' = [users EXCEPT ![q] = row] /\ q \in UserIds
  BY DEF InsertUser, UserIds
<1>2. /\ users'[q] = row /\ users' = [users EXCEPT ![q] = users'[q]]
      /\ \A u \in UserIds : u # q => users'[u] = users[u]
  BY <1>1 DEF TypeOK
<1>3. MayCreateRole(actor[q], new) /\ MayCreateHere(actor[q], new)
  BY <1>1 DEF HandlersSound, DecisionSound
<1>4. users[q] = NoRow /\ q \notin Known
  <2>1. users[q] = NoRow
    BY <1>1 DEF HandlersSound, RequestSound, Written
  <2>2. QED
    BY <2>1 DEF Known, NoRow
<1>5. /\ req[q].by \in Known /\ SamePost(actor[q], users[req[q].by])
      /\ req[q].kind = "create"
  BY <1>1 DEF HandlersSound, RequestSound
<1>6. new.role \in Roles /\ req[q].by \in UserIds
  BY <1>3, <1>5, CreatedBelow DEF Known
<1>7. new \in Body
  BY <1>6 DEF TypeOK, Request, NoBody, Roles
<1>8. row \in Row
  BY <1>1, <1>6, <1>7 DEF Row, Body
<1>9. QED
  BY <1>2, <1>3, <1>4, <1>5, <1>8

LEMMA TypeStep ==
    ASSUME TypeOK, RowsSound, HandlersSound, PasswordsSound, AdminsStay, [Next]_vars
    PROVE  TypeOK'
<1>1. ASSUME NEW q \in Requests, Arrives(q) PROVE TypeOK'
  BY <1>1, ArrivesWith, ArriveTyped DEF Asks
<1>2. ASSUME NEW q \in Requests,
             FindRegion(q) \/ FindRestaurant(q) \/ CheckEmail(q) \/ InsertConflicts(q)
      PROVE  TypeOK'
  <2>1. pc' \in [Requests -> Steps]
    BY <1>2, DecideTyped
       DEF FindRegion, FindRestaurant, CheckEmail, InsertConflicts, Steps, Running
  <2>2. UNCHANGED createVars
    BY <1>2 DEF FindRegion, FindRestaurant, CheckEmail, InsertConflicts
  <2>3. QED
    BY <2>1, <2>2 DEF TypeOK, createVars, orgVars, requestVars, Steps
<1>3. ASSUME NEW q \in Requests, InsertUser(q) PROVE TypeOK'
  <2>1. users' \in [UserIds -> Row]
    BY <1>3, InsertedRow DEF TypeOK
  <2>2. pc' \in [Requests -> Steps]
    BY <1>3 DEF TypeOK, InsertUser, Steps, Running
  <2>3. QED
    BY <1>3, <2>1, <2>2 DEF TypeOK, InsertUser, orgVars, requestVars, Steps
<1>4. ASSUME NEW q \in Requests, Loads(q) PROVE TypeOK'
  <2>1. PICK kind, ok : Load(q, kind, ok)
    BY <1>4 DEF Loads, LoadForUpdate, LoadForDelete, LoadForSetup, LoadForPassword
  <2>2. req[q].on \in UserIds
    BY <2>1, TargetKnown DEF Load, Decide
  <2>3. QED
    BY <2>1, <2>2, LoadTyped
<1>5. ASSUME NEW q \in Requests, Writes(q) PROVE TypeOK'
  BY <1>5, WritesRewrite, WriteTyped
<1>6. ASSUME NEW q \in Requests, Reply(q) PROVE TypeOK'
  <2>1. pc' \in [Requests -> Steps]
    BY <1>6, DecideTyped DEF Reply, Steps
  <2>2. replaced' \subseteq UserIds
    BY <1>6 DEF TypeOK, Reply, Decide, PasswordsSound, MadeFor
  <2>3. QED
    BY <1>6, <2>1, <2>2 DEF TypeOK, Reply, orgVars, requestVars, Steps
<1>7. ASSUME NEW q \in Requests, GivesUp(q) PROVE TypeOK'
  <2>1. faults' \in 0..MaxFaults
    BY <1>7, FaultTyped DEF GivesUp, TypeOK
  <2>2. pc' \in [Requests -> Steps]
    BY <1>7 DEF GivesUp, TypeOK, Steps
  <2>3. QED
    BY <1>7, <2>1, <2>2
       DEF TypeOK, GivesUp, orgVars, requestVars, Steps
<1>8. CASE \/ \E g \in Regions : RemoveRegion(g)
           \/ \E s \in Restaurants : RemoveRestaurant(s)
  BY <1>8 DEF RemoveRegion, RemoveRestaurant, TypeOK, requestVars
<1>9. CASE UNCHANGED vars
  BY <1>9 DEF vars, TypeOK
<1>10. QED
  BY <1>1, <1>2, <1>3, <1>4, <1>5, <1>6, <1>7, <1>8, <1>9 DEF Next, Creates

\* The rows change by an INSERT or by an UPDATE of a live row only.
LEMMA RowSteps ==
    ASSUME TypeOK, RowsSound, HandlersSound, AdminsStay, [Next]_vars
    PROVE  \/ UNCHANGED users
           \/ \E q \in Requests : InsertUser(q)
           \/ \E q \in Requests : \E row \in Row :
                 /\ Writes(q) /\ Write(q, req[q].kind, row)
                 /\ pc[q] = "write" /\ Live(req[q].on) /\ Rewrites(q, row)
                 /\ users' = [users EXCEPT ![req[q].on] = row]
<1>1. ASSUME NEW q \in Requests, Arrives(q) PROVE UNCHANGED users
  BY <1>1, ArrivesWith DEF Arrive
<1>2. ASSUME NEW q \in Requests, Creates(q), ~InsertUser(q) PROVE UNCHANGED users
  BY <1>2 DEF Creates, FindRegion, FindRestaurant, CheckEmail, InsertConflicts, createVars
<1>3. ASSUME NEW q \in Requests, Loads(q) PROVE UNCHANGED users
  BY <1>3 DEF Loads, LoadForUpdate, LoadForDelete, LoadForSetup, LoadForPassword, Load
<1>4. ASSUME NEW q \in Requests, Writes(q), ~UNCHANGED users
      PROVE  \E row \in Row :
                 /\ Write(q, req[q].kind, row)
                 /\ pc[q] = "write" /\ Live(req[q].on) /\ Rewrites(q, row)
                 /\ users' = [users EXCEPT ![req[q].on] = row]
  <2>1. PICK row \in Row : /\ Write(q, req[q].kind, row)
                           /\ Live(req[q].on) => Rewrites(q, row)
    BY <1>4, WritesRewrite
  <2>2. /\ pc[q] = "write" /\ Live(req[q].on)
        /\ users' = [users EXCEPT ![req[q].on] = row]
    BY <1>4, <2>1 DEF Write, Writable, Decide
  <2>3. QED
    BY <2>1, <2>2
<1>5. ASSUME NEW q \in Requests, Reply(q) \/ GivesUp(q)
      PROVE  UNCHANGED users
  BY <1>5 DEF Reply, GivesUp
<1>6. CASE \/ \E g \in Regions : RemoveRegion(g)
           \/ \E s \in Restaurants : RemoveRestaurant(s)
  BY <1>6 DEF RemoveRegion, RemoveRestaurant
<1>7. QED
  BY <1>1, <1>2, <1>3, <1>4, <1>5, <1>6 DEF Next, vars

\* An UPDATE, seen from each row.
LEMMA RewrittenRows ==
    ASSUME TypeOK, RowsSound, HandlersSound, NEW q \in Requests, NEW row \in Row,
           pc[q] = "write", Live(req[q].on), Rewrites(q, row),
           users' = [users EXCEPT ![req[q].on] = row]
    PROVE  /\ req[q].on \in UserIds /\ users'[req[q].on] = row
           /\ \A u \in UserIds :
                 /\ u # req[q].on => users'[u] = users[u]
                 /\ SamePost(users'[u], users[u])
                 /\ users'[u].email = users[u].email /\ users'[u].by = users[u].by
                 /\ users'[u].state = "none" <=> users[u].state = "none"
<1>1. req[q].on \in UserIds
  BY TargetKnown
<1>2. /\ users'[req[q].on] = row
      /\ \A u \in UserIds : u # req[q].on => users'[u] = users[u]
  BY <1>1 DEF TypeOK
<1>3. users[req[q].on].state # "none" /\ row.state # "none"
  BY DEF Live, Rewrites
<1>4. ASSUME NEW u \in UserIds
      PROVE  /\ SamePost(users'[u], users[u])
             /\ users'[u].email = users[u].email /\ users'[u].by = users[u].by
             /\ users'[u].state = "none" <=> users[u].state = "none"
  BY <1>2, <1>3 DEF Rewrites, SamePost
<1>5. QED
  BY <1>1, <1>2, <1>4

LEMMA RowsKeptStep ==
    ASSUME TypeOK, RowsSound, HandlersSound, AdminsStay, [Next]_vars
    PROVE  RowsKept
<1>1. CASE UNCHANGED users
  BY <1>1 DEF RowsKept, Known, SamePost
<1>2. ASSUME NEW q \in Requests, InsertUser(q) PROVE RowsKept
  BY <1>2, InsertedRow DEF RowsKept, Known, SamePost
<1>3. ASSUME NEW q \in Requests, NEW row \in Row, pc[q] = "write", Live(req[q].on),
             Rewrites(q, row), users' = [users EXCEPT ![req[q].on] = row]
      PROVE  RowsKept
  BY <1>3, RewrittenRows DEF RowsKept, Known
<1>4. QED
  BY <1>1, <1>2, <1>3, RowSteps

-----------------------------------------------------------------------------
(* The rows.                                                               *)

LEMMA RowsStep ==
    ASSUME TypeOK, RowsSound, HandlersSound, AdminsStay, [Next]_vars
    PROVE  RowsSound'
<1>1. CASE UNCHANGED users
  BY <1>1 DEF RowsSound, Known, Consistent
<1>2. ASSUME NEW q \in Requests, InsertUser(q) PROVE RowsSound'
  <2> DEFINE new == req[q].new
  <2>1. /\ users'[q].state = "live" /\ users'[q].password # None
        /\ users'[q].role \in Roles /\ Consistent(users'[q])
    <3>1. Consistent(new) /\ new.role \in Roles
      BY <1>2, InsertedRow, CreatedBelow, CreatedWithin
    <3>2. QED
      BY <1>2, <3>1, InsertedRow, UsersAssumption DEF Consistent, UserIds
  <2>2. \A u \in UserIds : u # q => users'[u] = users[u]
    BY <1>2, InsertedRow
  <2>3. \A u \in Known : users[u].email # users'[q].email
    <3>1. Unused(new.email)
      BY <1>2 DEF InsertUser
    <3>2. users'[q].email = new.email
      BY <1>2, InsertedRow
    <3>3. QED
      BY <3>1, <3>2 DEF Unused, Known
  <2>4. ASSUME NEW u \in Known', NEW v \in Known', users'[u].email = users'[v].email
        PROVE  u = v
    BY <2>2, <2>3, <2>4 DEF RowsSound, Known
  <2>5. ASSUME NEW u \in UserIds
        PROVE  /\ Consistent(users'[u])
               /\ users'[u].state = "none" => users'[u] = NoRow
               /\ users'[u].state # "none" => /\ users'[u].role \in Roles
                                              /\ users'[u].password # None
               /\ users'[u].state = "deleted" => ~users'[u].active
    BY <2>1, <2>2 DEF RowsSound
  <2>6. ASSUME NEW u \in Seeded PROVE u \in Known' /\ users'[u].role = Staff[u].role
    <3>1. u # q /\ u \in UserIds
      BY UsersAssumption DEF UserIds
    <3>2. QED
      BY <2>2, <3>1 DEF RowsSound, Known
  <2>7. QED
    BY <2>4, <2>5, <2>6 DEF RowsSound, Consistent, Known
<1>3. ASSUME NEW q \in Requests, NEW row \in Row, pc[q] = "write", Live(req[q].on),
             Rewrites(q, row), users' = [users EXCEPT ![req[q].on] = row]
      PROVE  RowsSound'
  <2> DEFINE on == req[q].on
  <2>1. /\ on \in UserIds /\ users'[on] = row
        /\ \A u \in UserIds : u # on => users'[u] = users[u]
    BY <1>3, RewrittenRows
  <2>2. \A u \in UserIds : /\ SamePost(users'[u], users[u])
                           /\ users'[u].email = users[u].email
                           /\ users'[u].state = "none" <=> users[u].state = "none"
    BY <1>3, RewrittenRows
  <2>3. ASSUME NEW u \in UserIds
        PROVE  /\ Consistent(users'[u])
               /\ users'[u].state # "none" => users'[u].role \in Roles
    BY <2>2, ReachOfPost DEF RowsSound, SamePost
  <2>4. row.password # None /\ row.state # "none"
    <3>1. users[on].password # None
      BY <1>3, <2>1 DEF RowsSound, Live
    <3>2. row.password \in {q, users[on].password} /\ row.state # "none"
      BY <1>3 DEF Rewrites
    <3>3. QED
      BY <3>1, <3>2, UsersAssumption DEF UserIds
  <2>5. ASSUME NEW u \in UserIds
        PROVE  /\ users'[u].state = "none" => users'[u] = NoRow
               /\ users'[u].state # "none" => users'[u].password # None
               /\ users'[u].state = "deleted" => ~users'[u].active
    BY <1>3, <2>1, <2>4 DEF RowsSound, Rewrites
  <2>6. ASSUME NEW u \in Known', NEW v \in Known', users'[u].email = users'[v].email
        PROVE  u = v
    BY <2>2, <2>6 DEF RowsSound, Known
  <2>7. ASSUME NEW u \in Seeded PROVE u \in Known' /\ users'[u].role = Staff[u].role
    BY <2>2, <2>7 DEF RowsSound, Known, SamePost
  <2>8. QED
    BY <2>3, <2>5, <2>6, <2>7 DEF RowsSound, Consistent, Known
<1>4. QED
  BY <1>1, <1>2, <1>3, RowSteps

LEMMA AdminsStep ==
    ASSUME TypeOK, RowsSound, HandlersSound, AdminsStay, [Next]_vars
    PROVE  AdminsStay'
<1>1. CASE UNCHANGED users
  BY <1>1 DEF AdminsStay, Live
<1>2. ASSUME NEW q \in Requests, InsertUser(q) PROVE AdminsStay'
  BY <1>2, InsertedRow, UsersAssumption DEF AdminsStay, Live, UserIds
<1>3. ASSUME NEW q \in Requests, NEW row \in Row, pc[q] = "write", Live(req[q].on),
             Rewrites(q, row), users' = [users EXCEPT ![req[q].on] = row]
      PROVE  AdminsStay'
  <2>1. /\ users'[req[q].on] = row
        /\ \A u \in UserIds : u # req[q].on => users'[u] = users[u]
    BY <1>3, RewrittenRows
  <2>2. QED
    BY <1>3, <2>1 DEF AdminsStay, Live, Rewrites, UserIds
<1>4. QED
  BY <1>1, <1>2, <1>3, RowSteps

LEMMA EscalationStep ==
    ASSUME TypeOK, RowsSound, HandlersSound, AdminsStay, NoEscalation, [Next]_vars
    PROVE  NoEscalation'
<1> DEFINE Below(u, a) == Level(u.role) < Level(a.role) /\ Reach(u) \subseteq Reach(a)
<1>1. NoEscalation = \A u \in UserIds : users[u].by # None =>
          users[users[u].by].state # "none" /\ Below(users[u], users[users[u].by])
  BY DEF NoEscalation
<1>2. NoEscalation' = \A u \in UserIds : users'[u].by # None =>
          users'[users'[u].by].state # "none" /\ Below(users'[u], users'[users'[u].by])
  BY DEF NoEscalation, Reach, CanAccessRestaurant
<1>3. ASSUME NEW u, NEW a, NEW v, NEW b, SamePost(u, v), SamePost(a, b)
      PROVE  Below(u, a) <=> Below(v, b)
  BY <1>3, ReachOfPost
<1> HIDE DEF Below
<1>4. \A u \in UserIds : users[u].by \in UserIds \cup {None}
  BY DEF TypeOK, Row
<1>5. CASE UNCHANGED users
  BY <1>1, <1>2, <1>5
<1>6. ASSUME NEW q \in Requests, InsertUser(q) PROVE NoEscalation'
  <2> DEFINE by == req[q].by
             new == req[q].new
  <2>1. /\ users'[q].by = by /\ by \in UserIds /\ by # q /\ users[by].state # "none"
        /\ SamePost(users'[q], new) /\ SamePost(users[by], actor[q])
        /\ \A u \in UserIds : u # q => users'[u] = users[u]
    BY <1>6, InsertedRow DEF SamePost, Known
  <2>2. Below(new, actor[q])
    BY <1>6, InsertedRow, CreatedBelow, CreatedWithin DEF Below
  <2>3. Below(users'[q], users'[by])
    <3>1. users'[by] = users[by]
      BY <2>1
    <3>2. Below(users'[q], users[by])
      BY <1>3, <2>1, <2>2
    <3>3. QED
      BY <3>1, <3>2
  <2>4. ASSUME NEW u \in UserIds, u # q, users'[u].by # None
        PROVE  /\ users'[users'[u].by].state # "none"
               /\ Below(users'[u], users'[users'[u].by])
    <3>1. users'[u] = users[u] /\ users[u].by \in UserIds /\ users[users[u].by].state # "none"
      BY <1>1, <1>4, <2>1, <2>4
    <3>2. users[u].by # q
      BY <1>6, <3>1, InsertedRow DEF Known
    <3>3. QED
      BY <1>1, <2>1, <2>4, <3>1, <3>2
  <2>5. QED
    BY <1>2, <2>1, <2>3, <2>4
<1>7. ASSUME NEW q \in Requests, NEW row \in Row, pc[q] = "write", Live(req[q].on),
             Rewrites(q, row), users' = [users EXCEPT ![req[q].on] = row]
      PROVE  NoEscalation'
  <2>1. \A u \in UserIds : /\ SamePost(users[u], users'[u])
                           /\ users'[u].by = users[u].by
                           /\ users'[u].state = "none" <=> users[u].state = "none"
    BY <1>7, RewrittenRows DEF SamePost
  <2>2. ASSUME NEW u \in UserIds, users'[u].by # None
        PROVE  /\ users'[users'[u].by].state # "none"
               /\ Below(users'[u], users'[users'[u].by])
    <3> DEFINE c == users[u].by
    <3>1. c \in UserIds /\ users'[u].by = c
      BY <1>4, <2>1, <2>2
    <3>2. users[c].state # "none" /\ Below(users[u], users[c])
      BY <1>1, <2>2, <3>1
    <3>3. SamePost(users[u], users'[u]) /\ SamePost(users[c], users'[c])
      BY <2>1, <3>1
    <3>4. Below(users'[u], users'[c])
      BY <1>3, <3>2, <3>3
    <3>5. QED
      BY <2>1, <3>1, <3>2, <3>4
  <2>3. QED
    BY <1>2, <2>2
<1>8. QED
  BY <1>5, <1>6, <1>7, RowSteps

-----------------------------------------------------------------------------
(* The handlers.                                                           *)

\* What a request is, and what rows and copies it relies on, stay.
SameRequest(r) ==
    /\ req'[r] = req[r] /\ actor'[r] = actor[r]
    /\ r \in awake => r \in awake'
    /\ req[r].on \in Known /\ users'[req[r].on].active
          => users[req[r].on].active \/ r \in awake'

\* Whatever becomes of pc[r], the caller and the target remain what they were.
LEMMA CallerKept ==
    ASSUME RowsKept, NEW r \in Requests, RequestSound(r), SameRequest(r), pc[r] # "idle"
    PROVE  /\ req'[r].by \in Known'
           /\ SamePost(actor'[r], users'[req'[r].by])
           /\ req'[r].on # None => req'[r].on \in Known'
           /\ req'[r].on # None /\ users'[req'[r].on].active => r \in awake'
<1>1. /\ req[r].by \in Known /\ SamePost(actor[r], users[req[r].by])
      /\ req[r].on # None => req[r].on \in Known
      /\ req[r].on # None /\ users[req[r].on].active => r \in awake
  BY DEF RequestSound
<1>2. req[r].by \in Known' /\ SamePost(actor[r], users'[req[r].by])
  BY <1>1 DEF RowsKept, SamePost
<1>3. req[r].on # None => req[r].on \in Known'
  BY <1>1 DEF RowsKept
<1>4. req[r].on # None /\ users'[req[r].on].active => r \in awake'
  BY <1>1 DEF SameRequest
<1>5. QED
  BY <1>2, <1>3, <1>4 DEF SameRequest

LEMMA Unmoved ==
    ASSUME RowsKept, NEW r \in Requests, RequestSound(r), DecisionSound(r),
           SameRequest(r), pc'[r] = pc[r], target'[r] = target[r],
           users'[r] # NoRow => users[r] # NoRow
    PROVE  RequestSound(r)' /\ DecisionSound(r)'
<1>1. RequestSound(r)'
  <2>1. users'[r] # NoRow => req[r].kind = "create" /\ pc[r] \in Written
    BY DEF RequestSound
  <2>2. pc[r] # "idle" => /\ req'[r].by \in Known'
                          /\ SamePost(actor'[r], users'[req'[r].by])
                          /\ req'[r].on # None => req'[r].on \in Known'
                          /\ req'[r].on # None /\ users'[req'[r].on].active => r \in awake'
    BY CallerKept
  <2>3. QED
    BY <2>1, <2>2 DEF RequestSound, SameRequest, Self, SamePost
<1>2. DecisionSound(r)'
  <2>1. ASSUME pc[r] = "write" PROVE SamePost(target[r], users'[req[r].on])
    <3>1. req[r].on \in Known
      BY <2>1 DEF RequestSound
    <3>2. QED
      BY <2>1, <3>1 DEF DecisionSound, RowsKept, SamePost
  <2>2. ASSUME pc[r] = "write" PROVE target[r].active => r \in awake'
    BY <2>2 DEF DecisionSound, SameRequest
  <2>3. QED
    BY <2>1, <2>2 DEF DecisionSound, SameRequest, Self, SamePost
<1>3. QED
  BY <1>1, <1>2

\* A handler that answered, or gave up.
LEMMA Finished ==
    ASSUME RowsKept, NEW r \in Requests, RequestSound(r), SameRequest(r),
           pc[r] # "idle", pc'[r] \in {"reply", "ok", "refused", "failed"},
           users'[r] # NoRow => req[r].kind = "create" /\ pc'[r] # "refused"
    PROVE  RequestSound(r)' /\ DecisionSound(r)'
<1>1. users'[r] # NoRow => req'[r].kind = "create" /\ pc'[r] \in Written
  BY DEF SameRequest, Written
<1>2. RequestSound(r)'
  BY <1>1, CallerKept DEF RequestSound, SameRequest, Self, SamePost
<1>3. QED
  BY <1>2 DEF DecisionSound

\* While rows stay as they are, so do all requests but the one that moves.
Alone(q) ==
    /\ UNCHANGED <<users, req, actor, awake>>
    /\ \A r \in Requests \ {q} : pc'[r] = pc[r] /\ target'[r] = target[r]

LEMMA AloneKept ==
    ASSUME TypeOK, HandlersSound, NEW q \in Requests, Alone(q)
    PROVE  /\ RowsKept /\ SameRequest(q)
           /\ \A r \in Requests \ {q} : RequestSound(r)' /\ DecisionSound(r)'
<1>1. RowsKept
  BY DEF Alone, RowsKept, Known, SamePost
<1>2. \A r \in Requests : SameRequest(r)
  BY DEF Alone, SameRequest
<1>3. QED
  BY <1>1, <1>2, Unmoved DEF HandlersSound, Alone

LEMMA ArriveHandlers ==
    ASSUME TypeOK, RowsSound, HandlersSound, NEW q \in Requests, NEW r, Asks(r), Arrive(q, r)
    PROVE  HandlersSound'
<1>1. /\ pc[q] = "idle" /\ Live(r.by) /\ users' = users /\ target' = target
      /\ req'[q] = r /\ actor'[q] = users[r.by]
      /\ pc'[q] = IF r.kind = "create" THEN "region" ELSE "load"
      /\ r.on # None /\ users[r.on].active => q \in awake'
      /\ awake \subseteq awake'
      /\ \A p \in Requests \ {q} : req'[p] = req[p] /\ actor'[p] = actor[p] /\ pc'[p] = pc[p]
  BY DEF TypeOK, Arrive
<1>2. \A p \in Requests \ {q} : SameRequest(p)
  BY <1>1 DEF SameRequest
<1>3. RowsKept
  BY <1>1 DEF RowsKept, Known, SamePost
<1>4. \A p \in Requests \ {q} : RequestSound(p)' /\ DecisionSound(p)'
  BY <1>1, <1>2, <1>3, Unmoved DEF HandlersSound
<1>5. RequestSound(q)'
  <2>1. users[q] = NoRow
    BY <1>1 DEF HandlersSound, RequestSound, Written
  <2>2. r.by \in Known /\ (r.on # None => r.on \in Known) /\ None \notin Known
    BY <1>1, UsersAssumption DEF Asks, Live, Known
  <2>3. Known' = Known
    BY <1>1 DEF Known
  <2>4. r.kind # "create" => r.on # None
    BY <2>2 DEF Asks
  <2>5. QED
    BY <1>1, <2>1, <2>2, <2>3, <2>4 DEF RequestSound, SamePost, Self, Asks
<1>6. DecisionSound(q)'
  BY <1>1 DEF DecisionSound
<1>7. QED
  BY <1>4, <1>5, <1>6 DEF HandlersSound

LEMMA CreateHandlers ==
    ASSUME TypeOK, HandlersSound, NEW q \in Requests,
           FindRegion(q) \/ FindRestaurant(q) \/ CheckEmail(q) \/ InsertConflicts(q)
    PROVE  HandlersSound'
<1>1. /\ users' = users /\ req' = req /\ actor' = actor /\ target' = target /\ awake' = awake
      /\ pc[q] \in {"region", "restaurant", "email", "insert"}
      /\ pc'[q] \in {"restaurant", "email", "insert", "refused"}
      /\ \A r \in Requests \ {q} : pc'[r] = pc[r]
  BY DEF FindRegion, FindRestaurant, CheckEmail, InsertConflicts, Decide, createVars,
         requestVars, TypeOK
<1>2. /\ RowsKept /\ SameRequest(q)
      /\ \A r \in Requests \ {q} : RequestSound(r)' /\ DecisionSound(r)'
  BY <1>1, AloneKept DEF Alone
<1>3. RequestSound(q) /\ DecisionSound(q)
  BY DEF HandlersSound
<1>4. users[q] = NoRow /\ req[q].kind = "create"
  BY <1>1, <1>3 DEF RequestSound, Written
<1>5. CASE pc'[q] = "refused"
  BY <1>1, <1>2, <1>3, <1>4, <1>5, Finished DEF HandlersSound
<1>6. CASE pc'[q] # "refused"
  <2>1. RequestSound(q)'
    BY <1>1, <1>2, <1>3, <1>4, <1>6, CallerKept DEF RequestSound, Self, SamePost
  <2>2. MayCreateRole(actor[q], req[q].new)
    <3>1. CASE FindRegion(q)
      BY <1>1, <1>6, <3>1 DEF FindRegion, Decide, TypeOK
    <3>2. CASE ~FindRegion(q)
      BY <1>3, <3>2 DEF FindRestaurant, CheckEmail, InsertConflicts, Decide, DecisionSound
    <3>3. QED
      BY <3>1, <3>2
  <2>3. pc'[q] \in {"email", "insert"} => MayCreateHere(actor[q], req[q].new)
    <3>1. CASE FindRegion(q)
      BY <1>1, <1>6, <3>1 DEF FindRegion, Decide, TypeOK
    <3>2. CASE FindRestaurant(q)
      BY <1>1, <1>6, <3>2 DEF FindRestaurant, Decide, TypeOK
    <3>3. CASE CheckEmail(q) \/ InsertConflicts(q)
      BY <1>3, <3>3 DEF CheckEmail, InsertConflicts, Decide, DecisionSound
    <3>4. QED
      BY <3>1, <3>2, <3>3
  <2>4. DecisionSound(q)'
    BY <1>1, <1>6, <2>2, <2>3 DEF DecisionSound
  <2>5. QED
    BY <1>2, <2>1, <2>4 DEF HandlersSound
<1>7. QED
  BY <1>5, <1>6

LEMMA InsertHandlers ==
    ASSUME TypeOK, RowsSound, HandlersSound, RowsKept, NEW q \in Requests, InsertUser(q)
    PROVE  HandlersSound'
<1>1. /\ req' = req /\ actor' = actor /\ target' = target /\ awake' = awake
      /\ pc[q] = "insert" /\ pc'[q] = "reply"
      /\ \A r \in Requests \ {q} : pc'[r] = pc[r]
  BY DEF InsertUser, requestVars, TypeOK
<1>2. /\ q \notin Known /\ req[q].kind = "create"
      /\ \A u \in UserIds : u # q => users'[u] = users[u]
  BY InsertedRow
<1>3. \A r \in Requests : SameRequest(r)
  BY <1>1, <1>2 DEF SameRequest, Known
<1>4. ASSUME NEW r \in Requests \ {q} PROVE RequestSound(r)' /\ DecisionSound(r)'
  BY <1>1, <1>2, <1>3, Unmoved DEF HandlersSound, UserIds
<1>5. RequestSound(q)' /\ DecisionSound(q)'
  BY <1>1, <1>2, <1>3, Finished DEF HandlersSound
<1>6. QED
  BY <1>4, <1>5 DEF HandlersSound

LEMMA LoadHandlers ==
    ASSUME TypeOK, HandlersSound, AdminsStay, NEW q \in Requests, Loads(q)
    PROVE  HandlersSound'
<1> DEFINE on == req[q].on
<1>1. PICK kind, ok : Load(q, kind, ok)
  BY DEF Loads, LoadForUpdate, LoadForDelete, LoadForSetup, LoadForPassword
<1>2. /\ users' = users /\ req' = req /\ actor' = actor /\ awake' = awake
      /\ pc[q] = "load" /\ pc'[q] \in {"write", "refused"} /\ target'[q] = users[on]
      /\ pc'[q] = "write" => Live(on)
      /\ \A r \in Requests \ {q} : pc'[r] = pc[r] /\ target'[r] = target[r]
  BY <1>1 DEF Load, Decide, requestVars, TypeOK
<1>3. /\ RowsKept /\ SameRequest(q)
      /\ \A r \in Requests \ {q} : RequestSound(r)' /\ DecisionSound(r)'
  BY <1>2, AloneKept DEF Alone
<1>4. RequestSound(q) /\ DecisionSound(q)
  BY DEF HandlersSound
<1>5. users[q] = NoRow /\ req[q].kind # "create" /\ on # None
  BY <1>2, <1>4 DEF RequestSound, Written
<1>6. CASE pc'[q] = "refused"
  BY <1>2, <1>3, <1>4, <1>5, <1>6, Finished DEF HandlersSound
<1>7. CASE pc'[q] = "write"
  <2>1. RequestSound(q)'
    BY <1>2, <1>3, <1>4, <1>5, <1>7, CallerKept DEF RequestSound, Self, SamePost
  <2>2. /\ req[q].kind = "update"
              => CanUpdateUser(actor[q], users[on], Self(q), req[q].change)
        /\ req[q].kind = "delete" => CanDeleteUser(actor[q], users[on], Self(q))
    BY <1>7
       DEF Loads, LoadForUpdate, LoadForDelete, LoadForSetup, LoadForPassword, Load, Decide,
           TypeOK
  <2>3. users[on].active => q \in awake
    BY <1>2, <1>4, <1>5 DEF RequestSound
  <2>4. on \in Seeded /\ ~users[on].active
            => ~(Staff[on].role = "super_admin" /\ Staff[on].active)
    BY DEF AdminsStay
  <2>5. DecisionSound(q)'
    BY <1>2, <1>7, <2>2, <2>3, <2>4 DEF DecisionSound, SamePost, Self
  <2>6. QED
    BY <1>3, <2>1, <2>5 DEF HandlersSound
<1>8. QED
  BY <1>2, <1>6, <1>7

LEMMA WriteHandlers ==
    ASSUME TypeOK, RowsSound, HandlersSound, AdminsStay, RowsKept,
           NEW q \in Requests, Writes(q)
    PROVE  HandlersSound'
<1> DEFINE on == req[q].on
<1>1. PICK row \in Row : /\ Write(q, req[q].kind, row)
                         /\ Live(on) => Rewrites(q, row)
  BY WritesRewrite
<1>2. /\ req' = req /\ actor' = actor /\ target' = target /\ awake \subseteq awake'
      /\ pc[q] = "write" /\ pc'[q] \in {"reply", "refused"}
      /\ \A r \in Requests \ {q} : pc'[r] = pc[r]
  BY <1>1 DEF Write, Decide, requestVars, TypeOK
<1>3. on \in Known /\ on \in UserIds
  BY <1>2, TargetKnown
<1>4. /\ Live(on) /\ row.active =>
            awake' = awake \cup {p \in Requests : req[p].on = on}
      /\ users' = IF Live(on) THEN [users EXCEPT ![on] = row] ELSE users
  BY <1>1 DEF Write, Writable
<1>5. \A r \in Requests : SameRequest(r)
  <2> SUFFICES ASSUME NEW r \in Requests, req[r].on \in Known, users'[req[r].on].active,
                      ~users[req[r].on].active
               PROVE  r \in awake'
    BY <1>2 DEF SameRequest
  <2>1. req[r].on = on /\ Live(on) /\ users'[on] = row
    BY <1>3, <1>4 DEF TypeOK, Known
  <2>2. QED
    BY <1>4, <2>1
<1>6. \A r \in Requests : users'[r] # NoRow => users[r] # NoRow
  BY <1>3, <1>4 DEF TypeOK, Known, NoRow
<1>7. ASSUME NEW r \in Requests \ {q} PROVE RequestSound(r)' /\ DecisionSound(r)'
  BY <1>2, <1>5, <1>6, Unmoved DEF HandlersSound
<1>8. users[q] = NoRow
  BY <1>2 DEF HandlersSound, RequestSound, Written
<1>9. RequestSound(q)' /\ DecisionSound(q)'
  BY <1>2, <1>5, <1>6, <1>8, Finished DEF HandlersSound
<1>10. QED
  BY <1>7, <1>9 DEF HandlersSound

LEMMA HandlersStep ==
    ASSUME TypeOK, RowsSound, HandlersSound, AdminsStay, [Next]_vars
    PROVE  HandlersSound'
<1>1. RowsKept
  BY RowsKeptStep
<1>2. ASSUME NEW q \in Requests, Arrives(q) PROVE HandlersSound'
  BY <1>2, ArrivesWith, ArriveHandlers
<1>3. ASSUME NEW q \in Requests, Creates(q) PROVE HandlersSound'
  BY <1>1, <1>3, CreateHandlers, InsertHandlers DEF Creates
<1>4. ASSUME NEW q \in Requests, Loads(q) \/ Writes(q) PROVE HandlersSound'
  BY <1>1, <1>4, LoadHandlers, WriteHandlers
<1>5. ASSUME NEW q \in Requests, Reply(q) \/ GivesUp(q) PROVE HandlersSound'
  <2>1. /\ users' = users /\ req' = req /\ actor' = actor /\ target' = target /\ awake' = awake
        /\ pc[q] \in Running /\ pc'[q] \in {"ok", "failed"}
        /\ \A r \in Requests \ {q} : pc'[r] = pc[r]
    BY <1>5 DEF Reply, GivesUp, Decide, requestVars, TypeOK, Running
  <2>2. /\ RowsKept /\ SameRequest(q)
        /\ \A r \in Requests \ {q} : RequestSound(r)' /\ DecisionSound(r)'
    BY <2>1, AloneKept DEF Alone
  <2>3. users'[q] # NoRow => req[q].kind = "create"
    BY <2>1 DEF HandlersSound, RequestSound
  <2>4. pc[q] # "idle"
    BY <2>1 DEF Running
  <2>5. RequestSound(q)' /\ DecisionSound(q)'
    BY <2>1, <2>2, <2>3, <2>4, Finished DEF HandlersSound
  <2>6. QED
    BY <2>2, <2>5 DEF HandlersSound
<1>6. CASE UNCHANGED <<users, req, actor, target, awake, pc>>
  BY <1>6, Unmoved, <1>1 DEF HandlersSound, SameRequest
<1>7. ASSUME \/ \E g \in Regions : RemoveRegion(g)
             \/ \E s \in Restaurants : RemoveRestaurant(s)
      PROVE  UNCHANGED <<users, req, actor, target, awake, pc>>
  BY <1>7 DEF RemoveRegion, RemoveRestaurant, requestVars
<1>8. QED
  BY <1>2, <1>3, <1>4, <1>5, <1>6, <1>7 DEF Next, vars

-----------------------------------------------------------------------------
(* The passwords.                                                          *)

\* A request is what it was when it arrived, its copy is what it loaded, and
\* a handler that wrote does not write again.
LEMMA RequestSteps ==
    ASSUME TypeOK, [Next]_vars, NEW r \in Requests
    PROVE  /\ pc[r] # "idle" => /\ pc'[r] # "idle" /\ req'[r] = req[r]
                                /\ dead'[r] = dead[r]
           /\ pc[r] \in Written => pc'[r] \in Written
           /\ target'[r] # target[r] => pc[r] = "load"
<1> DEFINE Goal == /\ pc[r] # "idle" => /\ pc'[r] # "idle" /\ req'[r] = req[r]
                                        /\ dead'[r] = dead[r]
                   /\ pc[r] \in Written => pc'[r] \in Written
                   /\ target'[r] # target[r] => pc[r] = "load"
<1>1. ASSUME NEW q \in Requests, Arrives(q) PROVE Goal
  <2>1. PICK b : Asks(b) /\ Arrive(q, b)
    BY <1>1, ArrivesWith
  <2>2. /\ pc[q] = "idle" /\ target' = target
        /\ \A p \in Requests \ {q} : pc'[p] = pc[p] /\ req'[p] = req[p] /\ dead'[p] = dead[p]
    BY <2>1 DEF Arrive, TypeOK
  <2>3. QED
    BY <2>2 DEF Written
<1>2. ASSUME NEW q \in Requests, Creates(q) PROVE Goal
  <2>1. /\ pc[q] \in {"region", "restaurant", "email", "insert"} /\ pc'[q] # "idle"
        /\ req' = req /\ dead' = dead /\ target' = target
        /\ \A p \in Requests \ {q} : pc'[p] = pc[p]
    BY <1>2 DEF Creates, FindRegion, FindRestaurant, CheckEmail, InsertUser, InsertConflicts,
       Decide, createVars, requestVars, TypeOK
  <2>2. QED
    BY <2>1 DEF Written
<1>3. ASSUME NEW q \in Requests, Loads(q) PROVE Goal
  <2>1. /\ pc[q] = "load" /\ pc'[q] # "idle" /\ req' = req /\ dead' = dead
        /\ \A p \in Requests \ {q} : pc'[p] = pc[p] /\ target'[p] = target[p]
    BY <1>3 DEF Loads, LoadForUpdate, LoadForDelete, LoadForSetup, LoadForPassword, Load,
       Decide, requestVars, TypeOK
  <2>2. QED
    BY <2>1 DEF Written
<1>4. ASSUME NEW q \in Requests, Writes(q) PROVE Goal
  <2>1. /\ pc[q] = "write" /\ pc'[q] # "idle"
        /\ req' = req /\ dead' = dead /\ target' = target
        /\ \A p \in Requests \ {q} : pc'[p] = pc[p]
    BY <1>4 DEF Writes, WriteUpdate, WriteDelete, WriteSetup, WritePassword, Write,
       Decide, requestVars, TypeOK
  <2>2. QED
    BY <2>1 DEF Written
<1>5. ASSUME NEW q \in Requests, Reply(q) \/ GivesUp(q) PROVE Goal
  <2>1. /\ pc'[q] \in {"ok", "failed"}
        /\ req' = req /\ dead' = dead /\ target' = target
        /\ \A p \in Requests \ {q} : pc'[p] = pc[p]
    BY <1>5 DEF Reply, GivesUp, Decide, requestVars, TypeOK
  <2>2. QED
    BY <2>1 DEF Written
<1>6. CASE UNCHANGED <<req, dead, target, pc>>
  BY <1>6
<1>7. ASSUME \/ \E g \in Regions : RemoveRegion(g)
             \/ \E s \in Restaurants : RemoveRestaurant(s)
      PROVE  UNCHANGED <<req, dead, target, pc>>
  BY <1>7 DEF RemoveRegion, RemoveRestaurant, requestVars
<1>8. QED
  BY <1>1, <1>2, <1>3, <1>4, <1>5, <1>6, <1>7 DEF Next, vars

\* MadeFor(p, u) in the next state, of a p and a u of any state.
MadeForThen(p, u) ==
    /\ p \in UserIds
    /\ u = IF p \in Requests /\ req'[p].kind # "create" THEN req'[p].on ELSE p
    /\ p \in Requests => pc'[p] \in Written

LEMMA MadeForKept ==
    ASSUME TypeOK, [Next]_vars, NEW p, NEW u, MadeFor(p, u)
    PROVE  MadeForThen(p, u)
<1>1. CASE p \in Requests
  <2>1. pc[p] \in Written
    BY <1>1 DEF MadeFor
  <2>2. pc'[p] \in Written /\ req'[p] = req[p]
    BY <1>1, <2>1, RequestSteps DEF Written
  <2>3. QED
    BY <2>1, <2>2 DEF MadeFor, MadeForThen, Owner
<1>2. CASE p \notin Requests
  BY <1>2 DEF MadeFor, MadeForThen, Owner
<1>3. QED
  BY <1>1, <1>2

\* A password changes to the id of the request that changes it.
LEMMA PasswordSteps ==
    ASSUME TypeOK, RowsSound, HandlersSound, AdminsStay, [Next]_vars, NEW u \in UserIds,
           users'[u].password # users[u].password
    PROVE  \E q \in Requests : /\ users'[u].password = q
                               /\ pc[q] \in {"insert", "write"} /\ pc'[q] = "reply"
                               /\ req'[q] = req[q] /\ Owner(q) = u
<1>1. CASE UNCHANGED users
  BY <1>1
<1>2. ASSUME NEW q \in Requests, InsertUser(q)
      PROVE  u = q /\ users'[q].password = q /\ pc[q] = "insert" /\ pc'[q] = "reply"
             /\ req'[q] = req[q] /\ Owner(q) = u
  <2>1. pc[q] = "insert" /\ pc'[q] = "reply" /\ req' = req
    BY <1>2 DEF InsertUser, TypeOK, requestVars
  <2>2. u = q /\ users'[q].password = q /\ req[q].kind = "create"
    BY <1>2, InsertedRow
  <2>3. QED
    BY <2>1, <2>2 DEF Owner
<1>3. ASSUME NEW q \in Requests, NEW row \in Row,
             Write(q, req[q].kind, row), pc[q] = "write", Live(req[q].on), Rewrites(q, row),
             users' = [users EXCEPT ![req[q].on] = row]
      PROVE  users'[u].password = q /\ pc'[q] = "reply" /\ req'[q] = req[q] /\ Owner(q) = u
  <2>1. pc'[q] = "reply" /\ req' = req
    BY <1>3 DEF Write, Writable, Decide, requestVars, TypeOK
  <2>2. /\ users'[req[q].on] = row
        /\ u # req[q].on => users'[u] = users[u]
    BY <1>3, RewrittenRows
  <2>3. u = req[q].on /\ users'[u].password = q /\ req[q].kind \in {"setup", "password"}
    BY <1>3, <2>2 DEF Rewrites
  <2>4. QED
    BY <2>1, <2>3 DEF Owner
<1>4. QED
  BY <1>1, <1>2, <1>3, RowSteps

\* A password that is no account's, and not about to become one's, stays so.
LEMMA GoneStaysGone ==
    ASSUME TypeOK, RowsSound, HandlersSound, AdminsStay, [Next]_vars, NEW p,
           p \in Requests => pc[p] \in Written,
           \A u \in UserIds : users[u].password # p
    PROVE  \A u \in UserIds : users'[u].password # p
<1> SUFFICES ASSUME NEW u \in UserIds, users'[u].password = p PROVE FALSE
  OBVIOUS
<1>1. PICK q \in Requests : users'[u].password = q /\ pc[q] \in {"insert", "write"}
  BY PasswordSteps
<1>2. QED
  BY <1>1 DEF Written

LEMMA PasswordsStep ==
    ASSUME TypeOK, TypeOK', RowsSound, HandlersSound, AdminsStay, PasswordsSound, [Next]_vars
    PROVE  PasswordsSound'
<1>1. ASSUME NEW u \in Known' PROVE MadeForThen(users'[u].password, u)
  <2>1. u \in UserIds
    BY DEF Known
  <2>2. CASE users'[u].password # users[u].password
    <3>1. PICK q \in Requests : /\ users'[u].password = q /\ pc'[q] = "reply"
                                /\ req'[q] = req[q] /\ Owner(q) = u
      BY <2>1, <2>2, PasswordSteps
    <3>2. QED
      BY <3>1 DEF MadeForThen, Owner, Written, UserIds
  <2>3. CASE users'[u].password = users[u].password
    <3>1. u \in Known
      <4>1. CASE UNCHANGED users
        BY <4>1 DEF Known
      <4>2. ASSUME NEW q \in Requests, InsertUser(q) PROVE u \in Known
        <5>1. users'[q].password = q /\ users[q] = NoRow
          BY <4>2, InsertedRow
        <5>2. u # q
          BY <2>3, <5>1, UsersAssumption DEF NoRow, UserIds
        <5>3. QED
          BY <2>1, <4>2, <5>2, InsertedRow DEF Known
      <4>3. ASSUME NEW q \in Requests, NEW row \in Row, pc[q] = "write", Live(req[q].on),
                   Rewrites(q, row), users' = [users EXCEPT ![req[q].on] = row]
            PROVE  u \in Known
        BY <2>1, <4>3, RewrittenRows DEF Known
      <4>4. QED
        BY <4>1, <4>2, <4>3, RowSteps
    <3>2. MadeFor(users[u].password, u)
      BY <3>1 DEF PasswordsSound
    <3>3. MadeForThen(users[u].password, u)
      BY <3>2, MadeForKept
    <3>4. QED
      BY <2>3, <3>3
  <2>4. QED
    BY <2>2, <2>3
<1>2. ASSUME NEW q \in Requests, req'[q].kind \in {"setup", "password"},
             pc'[q] \in {"write", "reply"}
      PROVE  /\ req'[q] = req[q] /\ pc[q] \in {"load", "write", "reply"}
             /\ pc'[q] = "write" => pc[q] \in {"load", "write"}
             /\ pc'[q] = "reply" => pc[q] \in {"write", "reply"}
             /\ pc[q] = "load" => Live(req[q].on) /\ target'[q] = users[req[q].on]
             /\ pc'[q] = "reply" /\ pc[q] = "write" => users'[req[q].on].password = q
  <2> USE DEF TypeOK
  <2>1. ASSUME NEW r \in Requests, Arrives(r) PROVE pc'[q] = pc[q] /\ req'[q] = req[q]
    <3>1. PICK b : Asks(b) /\ Arrive(r, b)
      BY <2>1, ArrivesWith
    <3>2. QED
      BY <1>2, <3>1 DEF Arrive
  <2>2. ASSUME NEW r \in Requests, Creates(r) PROVE pc'[q] = pc[q] /\ req'[q] = req[q]
    <3>1. req' = req /\ pc[r] \in {"region", "restaurant", "email", "insert"}
          /\ \A p \in Requests \ {r} : pc'[p] = pc[p]
      BY <2>2 DEF Creates, FindRegion, FindRestaurant, CheckEmail, InsertUser,
         InsertConflicts, Decide, createVars, requestVars
    <3>2. req[r].kind = "create"
      BY <3>1 DEF HandlersSound, RequestSound
    <3>3. QED
      BY <1>2, <3>1, <3>2
  <2>3. ASSUME NEW r \in Requests, Loads(r)
        PROVE  /\ req'[q] = req[q]
               /\ pc'[q] = pc[q] \/ (/\ pc[q] = "load" /\ pc'[q] = "write"
                                     /\ Live(req[q].on) /\ target'[q] = users[req[q].on])
               /\ pc[q] # "load" \/ pc'[q] # "load"
    <3>1. PICK kind, ok : Load(r, kind, ok)
      BY <2>3 DEF Loads, LoadForUpdate, LoadForDelete, LoadForSetup, LoadForPassword
    <3>2. /\ pc[r] = "load" /\ pc'[r] \in {"write", "refused"}
          /\ pc'[r] = "write" => Live(req[r].on)
          /\ target'[r] = users[req[r].on] /\ req' = req
          /\ \A p \in Requests \ {r} : pc'[p] = pc[p]
      BY <3>1 DEF Load, Decide, requestVars
    <3>3. QED
      BY <1>2, <3>2
  <2>4. ASSUME NEW r \in Requests, Writes(r)
        PROVE  /\ req'[q] = req[q]
               /\ pc'[q] = pc[q] \/ (/\ pc[q] = "write" /\ pc'[q] = "reply"
                                     /\ users'[req[q].on].password = q)
    <3>1. PICK row \in Row : /\ Write(r, req[r].kind, row)
                             /\ Live(req[r].on) => Rewrites(r, row)
      BY <2>4, WritesRewrite
    <3>2. /\ pc[r] = "write" /\ req' = req
          /\ pc'[r] = IF Live(req[r].on) THEN "reply" ELSE "refused"
          /\ Live(req[r].on) => users' = [users EXCEPT ![req[r].on] = row]
          /\ \A p \in Requests \ {r} : pc'[p] = pc[p]
      BY <3>1 DEF Write, Writable, Decide, requestVars
    <3>3. req[r].on \in UserIds
      BY <3>2, TargetKnown
    <3>4. CASE q = r
      BY <1>2, <3>1, <3>2, <3>3, <3>4 DEF Rewrites
    <3>5. CASE q # r
      BY <3>2, <3>5
    <3>6. QED
      BY <3>4, <3>5
  <2>5. ASSUME NEW r \in Requests, Reply(r) \/ GivesUp(r)
        PROVE  pc'[q] = pc[q] /\ req'[q] = req[q]
    BY <1>2, <2>5 DEF Reply, GivesUp, Decide, requestVars
  <2>6. ASSUME \/ \E g \in Regions : RemoveRegion(g)
               \/ \E s \in Restaurants : RemoveRestaurant(s)
        PROVE  pc'[q] = pc[q] /\ req'[q] = req[q]
    BY <2>6 DEF RemoveRegion, RemoveRestaurant, requestVars
  <2>7. CASE UNCHANGED vars
    BY <1>2, <2>7 DEF vars
  <2>8. QED
    BY <1>2, <2>1, <2>2, <2>3, <2>4, <2>5, <2>6, <2>7 DEF Next
<1>3. ASSUME NEW q \in Requests, req'[q].kind \in {"setup", "password"},
             pc'[q] \in {"write", "reply"}
      PROVE  MadeForThen(target'[q].password, req'[q].on) /\ target'[q].password # q
  <2>1. CASE pc[q] = "load"
    <3>1. Live(req[q].on) /\ target'[q] = users[req[q].on] /\ req'[q] = req[q]
      BY <1>2, <1>3, <2>1
    <3>2. req[q].on \in Known
      BY <2>1, TargetKnown
    <3>3. MadeFor(users[req[q].on].password, req[q].on)
      BY <3>2 DEF PasswordsSound
    <3>4. users[req[q].on].password # q
      BY <2>1, <3>3 DEF MadeFor, Written
    <3>5. MadeForThen(users[req[q].on].password, req[q].on)
      BY <3>3, MadeForKept
    <3>6. QED
      BY <3>1, <3>4, <3>5
  <2>2. CASE pc[q] \in {"write", "reply"}
    <3>1. target'[q] = target[q] /\ req'[q] = req[q]
      BY <1>2, <1>3, <2>2, RequestSteps
    <3>2. MadeFor(target[q].password, req[q].on) /\ target[q].password # q
      BY <1>3, <2>2, <3>1 DEF PasswordsSound
    <3>3. MadeForThen(target[q].password, req[q].on)
      BY <3>2, MadeForKept
    <3>4. QED
      BY <3>1, <3>2, <3>3
  <2>3. QED
    BY <1>2, <1>3, <2>1, <2>2
<1>4. ASSUME NEW q \in Requests, req'[q].kind \in {"setup", "password"}, pc'[q] = "reply"
      PROVE  \A u \in UserIds : users'[u].password # target'[q].password
  <2> DEFINE p == target[q].password
  <2>1. /\ pc[q] \in {"write", "reply"} /\ req'[q] = req[q]
        /\ pc[q] = "write" => users'[req[q].on].password = q
    BY <1>2, <1>4
  <2>2. target'[q] = target[q]
    BY <2>1, RequestSteps
  <2>3. MadeFor(p, req[q].on) /\ p # q
    BY <1>4, <2>1 DEF PasswordsSound
  <2>4. p \in Requests => pc[p] \in Written
    BY <2>3 DEF MadeFor
  <2>5. CASE pc[q] = "reply"
    <3>1. \A u \in UserIds : users[u].password # p
      BY <1>4, <2>1, <2>5 DEF PasswordsSound
    <3>2. \A u \in UserIds : users'[u].password # p
      BY <2>4, <3>1, GoneStaysGone
    <3>3. QED
      BY <2>2, <3>2
  <2>6. CASE pc[q] = "write"
    <3> SUFFICES ASSUME NEW u \in UserIds, users'[u].password = p PROVE FALSE
      BY <2>2
    <3>1. users'[u].password = users[u].password
      <4>1. ASSUME NEW r \in Requests, users'[u].password = r, pc[r] \in {"insert", "write"}
            PROVE  FALSE
        BY <2>4, <4>1 DEF Written
      <4>2. QED
        BY <4>1, PasswordSteps
    <3>2. u # req[q].on
      BY <2>1, <2>3, <2>6
    <3>3. u \notin Known
      BY <2>3, <3>1, <3>2 DEF PasswordsSound, MadeFor
    <3>4. p = None
      BY <3>1, <3>3 DEF RowsSound, Known, NoRow
    <3>5. QED
      BY <2>3, <3>4, UsersAssumption DEF MadeFor
  <2>7. QED
    BY <2>1, <2>5, <2>6
<1>5. replaced \subseteq replaced'
      /\ \A p \in replaced' \ replaced : \E q \in Requests :
            /\ req[q].kind \in {"setup", "password"} /\ pc[q] = "reply"
            /\ p = target[q].password
  <2>1. ASSUME NEW q \in Requests, Arrives(q) PROVE replaced' = replaced
    BY <2>1, ArrivesWith DEF Arrive
  <2>2. ASSUME NEW q \in Requests, Creates(q) \/ Loads(q) \/ Writes(q)
        PROVE  replaced' = replaced
    BY <2>2 DEF Creates, FindRegion, FindRestaurant, CheckEmail, InsertUser,
       InsertConflicts, createVars, Loads, LoadForUpdate, LoadForDelete, LoadForSetup,
       LoadForPassword, Load, Writes, WriteUpdate, WriteDelete, WriteSetup, WritePassword,
       Write
  <2>3. ASSUME NEW q \in Requests, GivesUp(q)
        PROVE  replaced' = replaced
    BY <2>3 DEF GivesUp
  <2>4. ASSUME \/ \E g \in Regions : RemoveRegion(g)
               \/ \E s \in Restaurants : RemoveRestaurant(s)
        PROVE  replaced' = replaced
    BY <2>4 DEF RemoveRegion, RemoveRestaurant
  <2>5. ASSUME NEW q \in Requests, Reply(q)
        PROVE  /\ pc[q] = "reply"
               /\ replaced' = IF req[q].kind \in {"setup", "password"}
                              THEN replaced \cup {target[q].password} ELSE replaced
    BY <2>5 DEF Reply, Decide
  <2>6. CASE UNCHANGED vars
    BY <2>6 DEF vars
  <2>7. QED
    BY <2>1, <2>2, <2>3, <2>4, <2>5, <2>6 DEF Next
<1>6. ASSUME NEW p \in replaced'
      PROVE  /\ p \in Requests => pc'[p] \in Written
             /\ \A u \in UserIds : users'[u].password # p
  <2>1. /\ p \in Requests => pc[p] \in Written
        /\ \A u \in UserIds : users[u].password # p
    BY <1>5 DEF PasswordsSound, MadeFor
  <2>2. QED
    BY <2>1, GoneStaysGone, RequestSteps
<1>7. ASSUME NEW q \in Requests PROVE dead'[q] \subseteq replaced'
  <2>1. dead[q] \subseteq replaced
    BY DEF PasswordsSound
  <2>2. dead'[q] = dead[q] \/ dead'[q] = replaced
    <3>1. CASE pc[q] # "idle"
      BY <3>1, RequestSteps
    <3>2. CASE UNCHANGED dead
      BY <3>2
    <3>3. ASSUME NEW r \in Requests, Arrives(r) PROVE dead'[q] = dead[q] \/ dead'[q] = replaced
      BY <3>3, ArrivesWith DEF Arrive, TypeOK
    <3>4. ASSUME NEW r \in Requests, Creates(r) \/ Loads(r) \/ Writes(r) PROVE UNCHANGED dead
      BY <3>4 DEF Creates, FindRegion, FindRestaurant, CheckEmail, InsertUser,
         InsertConflicts, createVars, requestVars, Loads, LoadForUpdate, LoadForDelete,
         LoadForSetup, LoadForPassword, Load, Writes, WriteUpdate, WriteDelete, WriteSetup,
         WritePassword, Write
    <3>5. ASSUME NEW r \in Requests, Reply(r) \/ GivesUp(r)
          PROVE  UNCHANGED dead
      BY <3>5 DEF Reply, GivesUp, requestVars
    <3>6. ASSUME \/ \E g \in Regions : RemoveRegion(g)
                 \/ \E s \in Restaurants : RemoveRestaurant(s)
          PROVE  UNCHANGED dead
      BY <3>6 DEF RemoveRegion, RemoveRestaurant, requestVars
    <3>7. QED
      BY <3>2, <3>3, <3>4, <3>5, <3>6 DEF Next, vars
  <2>3. QED
    BY <1>5, <2>1, <2>2
<1>8. QED
  BY <1>1, <1>3, <1>4, <1>6, <1>7 DEF PasswordsSound, MadeFor, MadeForThen, Owner

LEMMA OldPasswordStep ==
    ASSUME TypeOK, RowsSound, HandlersSound, AdminsStay, PasswordsSound, OldPasswordDead,
           [Next]_vars
    PROVE  OldPasswordDead'
<1> SUFFICES ASSUME NEW q \in Requests, req'[q].kind = "password",
                    req'[q].old \in dead'[q], pc'[q] \in {"write", "reply", "ok"}
             PROVE  FALSE
  BY DEF OldPasswordDead
<1> USE DEF TypeOK
<1>1. ASSUME pc'[q] = pc[q] PROVE FALSE
  <2>1. pc[q] # "idle" /\ req'[q] = req[q] /\ dead'[q] = dead[q]
    BY <1>1, RequestSteps
  <2>2. QED
    BY <1>1, <2>1 DEF OldPasswordDead
<1>2. ASSUME NEW r \in Requests, Arrives(r) PROVE FALSE
  <2>1. PICK b : Asks(b) /\ Arrive(r, b)
    BY <1>2, ArrivesWith
  <2>2. QED
    BY <1>1, <2>1 DEF Arrive
<1>3. ASSUME NEW r \in Requests, Creates(r) PROVE FALSE
  <2>1. /\ req' = req /\ pc[r] \in {"region", "restaurant", "email", "insert"}
        /\ \A p \in Requests \ {r} : pc'[p] = pc[p]
    BY <1>3 DEF Creates, FindRegion, FindRestaurant, CheckEmail, InsertUser, InsertConflicts,
       Decide, createVars, requestVars
  <2>2. req[r].kind = "create"
    BY <2>1 DEF HandlersSound, RequestSound
  <2>3. QED
    BY <1>1, <2>1, <2>2
<1>4. ASSUME NEW r \in Requests, Loads(r) PROVE FALSE
  <2>1. /\ req' = req /\ dead' = dead
        /\ \A p \in Requests \ {r} : pc'[p] = pc[p]
    BY <1>4 DEF Loads, LoadForUpdate, LoadForDelete, LoadForSetup, LoadForPassword, Load,
       Decide, requestVars
  <2>2. q = r
    BY <1>1, <2>1
  <2>3. LoadForPassword(q)
    BY <1>4, <2>1, <2>2 DEF Loads, LoadForUpdate, LoadForDelete, LoadForSetup, Load
  <2>4. pc[q] = "load" /\ users[req[q].on].password = req[q].old
    BY <2>3 DEF LoadForPassword, Load, Decide
  <2>5. req[q].old \in replaced /\ req[q].on \in UserIds
    BY <2>1, <2>4, TargetKnown DEF PasswordsSound
  <2>6. QED
    BY <2>4, <2>5 DEF PasswordsSound
<1>5. ASSUME NEW r \in Requests, Writes(r) \/ Reply(r) \/ GivesUp(r) PROVE FALSE
  <2>1. /\ req' = req /\ dead' = dead
        /\ \A p \in Requests \ {r} : pc'[p] = pc[p]
        /\ pc[r] \in {"write", "reply"} \/ pc'[r] = "failed"
    BY <1>5 DEF Writes, WriteUpdate, WriteDelete, WriteSetup, WritePassword, Write, Reply,
       GivesUp, Decide, requestVars
  <2>2. q = r
    BY <1>1, <2>1
  <2>3. QED
    BY <2>1, <2>2 DEF OldPasswordDead
<1>6. ASSUME \/ \E g \in Regions : RemoveRegion(g)
             \/ \E s \in Restaurants : RemoveRestaurant(s)
      PROVE  FALSE
  BY <1>1, <1>6 DEF RemoveRegion, RemoveRestaurant
<1>7. CASE UNCHANGED vars
  BY <1>1, <1>7 DEF vars
<1>8. QED
  BY <1>2, <1>3, <1>4, <1>5, <1>6, <1>7 DEF Next

-----------------------------------------------------------------------------
(* The theorems.                                                           *)

LEMMA IInvInit == Init => IInv
<1> SUFFICES ASSUME Init PROVE IInv
  OBVIOUS
<1>1. TypeOK
  BY TypeInit
<1>2. /\ \A u \in Seeded : users[u] = Staff[u]
      /\ \A u \in UserIds \ Seeded : users[u] = NoRow
      /\ \A q \in Requests : users[q] = NoRow
  BY UsersAssumption DEF Init, UserIds
<1>3. Known = Seeded
  BY <1>2, UsersAssumption DEF Known, NoRow, UserIds
<1>4. RowsSound
  <2>1. Consistent(NoRow) /\ NoRow.state = "none"
    BY DEF Consistent, NoRow
  <2>2. \A u \in Seeded : u \in UserIds /\ Staff[u].password # None
    BY UsersAssumption DEF UserIds
  <2>3. QED
    BY <1>2, <1>3, <2>1, <2>2, UsersAssumption DEF RowsSound
<1>5. HandlersSound
  BY <1>2 DEF Init, HandlersSound, RequestSound, DecisionSound, NoRequest
<1>6. PasswordsSound
  <2>1. \A u \in Seeded : MadeFor(users[u].password, u)
    BY <1>2, UsersAssumption DEF MadeFor, Owner, UserIds
  <2>2. QED
    BY <1>3, <2>1 DEF Init, PasswordsSound, NoRequest
<1>7. OldPasswordDead
  BY DEF Init, OldPasswordDead
<1>8. NoEscalation
  <2>1. \A u \in UserIds : users[u].by = None
    BY <1>2, UsersAssumption DEF NoRow
  <2>2. QED
    BY <2>1 DEF NoEscalation
<1>9. AdminsStay
  BY <1>2, UsersAssumption DEF AdminsStay, Live
<1>10. QED
  BY <1>1, <1>4, <1>5, <1>6, <1>7, <1>8, <1>9 DEF IInv

LEMMA IInvStep == IInv /\ [Next]_vars => IInv'
<1> SUFFICES ASSUME IInv, [Next]_vars PROVE IInv'
  OBVIOUS
<1> USE DEF IInv
<1>1. TypeOK' /\ RowsSound' /\ HandlersSound'
  BY TypeStep, RowsStep, HandlersStep
<1>2. PasswordsSound' /\ OldPasswordDead'
  BY <1>1, PasswordsStep, OldPasswordStep
<1>3. NoEscalation' /\ AdminsStay'
  BY EscalationStep, AdminsStep
<1>4. QED
  BY <1>1, <1>2, <1>3

\* The inductive invariant: rows keep rank and scope, copies are stale in
\* nothing a decision rests on, and replaced passwords are nobody's.
THEOREM UsersInvariant == Spec => []IInv
  BY IInvInit, IInvStep, PTL DEF Spec

\* Rows, requests and copies have their types throughout.
THEOREM UsersTyped == Spec => []TypeOK
<1>1. IInv => TypeOK
  BY DEF IInv
<1>2. QED
  BY <1>1, UsersInvariant, PTL

\* CanCreateUser: no chain of creations rises above or leaves the scope of
\* the account it started from.
THEOREM NobodyEscalates == Spec => []NoEscalation
<1>1. IInv => NoEscalation
  BY DEF IInv
<1>2. QED
  BY <1>1, UsersInvariant, PTL

\* CanUpdateUser, CanDeleteUser: the first administrators stay.
THEOREM AdministratorsStay == Spec => []AdminsStay
<1>1. IInv => AdminsStay
  BY DEF IInv
<1>2. QED
  BY <1>1, UsersInvariant, PTL

\* CreateUser: no two live accounts have one address.
THEOREM AddressesUnique == Spec => []OneAccountPerEmail
<1>1. IInv => OneAccountPerEmail
  BY DEF IInv, RowsSound, OneAccountPerEmail, Live, Known
<1>2. QED
  BY <1>1, UsersInvariant, PTL

\* ChangePassword: a password whose replacement was answered is of no use.
THEOREM OldPasswordsDie == Spec => []OldPasswordDead
<1>1. IInv => OldPasswordDead
  BY DEF IInv
<1>2. QED
  BY <1>1, UsersInvariant, PTL

\* Update, Delete, FirstLoginSetup and ChangePassword write a row for its
\* owner or for an account above it.
THEOREM ManagedFromAbove == Spec => ChangedByOverseer
<1> DEFINE A == \A u \in Known : users'[u] # users[u] =>
                    \E q \in Requests : /\ WritesRow(q, u)
                                        /\ Self(q) \/ Oversees(req[q].by, u)
<1>1. IInv /\ [Next]_vars => A
  <2> SUFFICES ASSUME IInv, [Next]_vars, NEW u \in Known, users'[u] # users[u]
               PROVE  \E q \in Requests : /\ WritesRow(q, u)
                                          /\ Self(q) \/ Oversees(req[q].by, u)
    OBVIOUS
  <2> USE DEF IInv
  <2>1. u \in UserIds
    BY DEF Known
  <2>2. ~ \E q \in Requests : InsertUser(q)
    BY <2>1, InsertedRow
  <2>3. PICK q \in Requests, row \in Row :
           /\ Writes(q) /\ Write(q, req[q].kind, row)
           /\ pc[q] = "write" /\ Live(req[q].on) /\ Rewrites(q, row)
           /\ users' = [users EXCEPT ![req[q].on] = row]
    BY <2>2, RowSteps
  <2>4. req[q].on = u
    BY <2>1, <2>3, RewrittenRows
  <2>5. WritesRow(q, u)
    BY <2>3, <2>4 DEF WritesRow, Write, Writable, Decide, TypeOK
  <2>6. CASE req[q].kind \in {"setup", "password"}
    BY <2>5, <2>6 DEF HandlersSound, RequestSound
  <2>7. CASE req[q].kind \in {"update", "delete"} /\ ~Self(q)
    <3>1. canManageUser(actor[q], target[q])
      BY <2>3, <2>7 DEF HandlersSound, DecisionSound, CanUpdateUser, CanDeleteUser
    <3>2. SamePost(target[q], users[u]) /\ SamePost(actor[q], users[req[q].by])
      BY <2>3, <2>4 DEF HandlersSound, DecisionSound, RequestSound
    <3>3. Consistent(target[q])
      BY <2>1, <3>2, ReachOfPost DEF RowsSound
    <3>4. /\ Level(target[q].role) < Level(actor[q].role)
          /\ Reach(target[q]) \subseteq Reach(actor[q])
      BY <3>1, <3>3, ManagedWithin
    <3>5. Oversees(req[q].by, u)
      BY <3>2, <3>4, ReachOfPost DEF Oversees
    <3>6. QED
      BY <2>5, <3>5
  <2>8. QED
    BY <2>3, <2>5, <2>6, <2>7
       DEF Writes, WriteUpdate, WriteDelete, WriteSetup, WritePassword, Write
<1>2. QED
  BY <1>1, UsersInvariant, PTL DEF Spec, ChangedByOverseer

\* WHERE ... deleted_at IS NULL: nothing writes the row of a deleted account.
THEOREM DeletionIsFinal == Spec => DeletedStaysDeleted
<1> DEFINE A == \A u \in Known : ~Live(u) => users'[u] = users[u]
<1>1. IInv /\ [Next]_vars => A
  <2> SUFFICES ASSUME IInv, [Next]_vars, NEW u \in Known, users'[u] # users[u]
               PROVE  Live(u)
    OBVIOUS
  <2> USE DEF IInv
  <2>1. u \in UserIds
    BY DEF Known
  <2>2. ~ \E q \in Requests : InsertUser(q)
    BY <2>1, InsertedRow
  <2>3. PICK q \in Requests, row \in Row :
           /\ pc[q] = "write" /\ Live(req[q].on) /\ Rewrites(q, row)
           /\ users' = [users EXCEPT ![req[q].on] = row]
    BY <2>2, RowSteps
  <2>4. QED
    BY <2>1, <2>3, RewrittenRows
<1>2. QED
  BY <1>1, UsersInvariant, PTL DEF Spec, DeletedStaysDeleted

\* Update: an inactive account comes back on request, or by the copy of one
\* that was active after the request had come.
THEOREM NoSilentReactivation == Spec => ReactivatedKnowingly
<1> DEFINE A == \A u \in Known : ~users[u].active /\ users'[u].active =>
                    \E q \in Requests : /\ WritesRow(q, u)
                                        /\ req[q].change = "on" \/ q \in awake
<1>1. IInv /\ [Next]_vars => A
  <2> SUFFICES ASSUME IInv, [Next]_vars, NEW u \in Known, ~users[u].active, users'[u].active
               PROVE  \E q \in Requests : /\ WritesRow(q, u)
                                          /\ req[q].change = "on" \/ q \in awake
    OBVIOUS
  <2> USE DEF IInv
  <2>1. u \in UserIds
    BY DEF Known
  <2>2. ~ \E q \in Requests : InsertUser(q)
    BY <2>1, InsertedRow
  <2>3. PICK q \in Requests, row \in Row :
           /\ Write(q, req[q].kind, row)
           /\ pc[q] = "write" /\ Live(req[q].on) /\ Rewrites(q, row)
           /\ users' = [users EXCEPT ![req[q].on] = row]
    BY <2>2, RowSteps
  <2>4. req[q].on = u /\ users'[u] = row
    BY <2>1, <2>3, RewrittenRows
  <2>5. WritesRow(q, u)
    BY <2>3, <2>4 DEF WritesRow, Write, Writable, Decide, TypeOK
  <2>6. QED
    BY <2>3, <2>4, <2>5 DEF Rewrites
<1>2. QED
  BY <1>1, UsersInvariant, PTL DEF Spec, ReactivatedKnowingly

\* What a write of an existing account may never do, in one statement.
THEOREM WritesAreSound == Spec => WritesSound
BY ManagedFromAbove, DeletionIsFinal, NoSilentReactivation DEF WritesSound

\* What may be opened is listed: List's filter is no narrower than the rules
\* of GetByID, whatever columns a row has.
THEOREM ListCoversReads == Spec => []OpenedIsListed
<1>1. ASSUME NEW a \in UserIds, NEW u \in UserIds, Live(u),
             CanReadUser(users[a], users[u], FALSE)
      PROVE  Listed(a, u)
  <2>1. CheckPermission(users[a], "user.read") /\ canManageUser(users[a], users[u])
    BY <1>1 DEF CanReadUser
  <2>2. QED
    BY <1>1, <2>1 DEF canManageUser, Listed
<1>2. OpenedIsListed
  BY <1>1 DEF OpenedIsListed
<1>3. QED
  BY <1>2, PTL

=============================================================================
