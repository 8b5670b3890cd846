------------------------------ MODULE Catalogue ------------------------------
(***************************************************************************)
(* How a change of the menu reaches a kiosk: the handlers and services of  *)
(* categories, items, variations, overrides and promotions write a row and *)
(* then announce the change (internal/events), the outbox delivers the     *)
(* announcement (AtLeastOnceQueue, which Outbox implements: at least once, *)
(* but Kafka may lose what only the leader of a partition had) and         *)
(* kfc-userapi empties its cache of menus, which it fills again from   *)
(* GetEffectiveMenu (EffectiveMenu shows that one computation is the menu  *)
(* of one moment).  kfc-userapi is external.                               *)
(*                                                                         *)
(* A handler is the sequence of its queries, its script: one step each.    *)
(* A row's content is named by the request that wrote it.  Failed queries, *)
(* lost or repeated announcements and crashes take from MaxFaults.         *)
(***************************************************************************)
EXTENDS RBAC, Sequences, Functions, FiniteSets

CONSTANTS
    Entities, KindOf,   \* what there may be a row for, and in which table
    Listed,             \* the rows at first
    Actors, Staff,      \* the accounts that send requests, and their rows
    Requests,
    Scenarios,          \* bound: what they ask for, together
    MaxFaults           \* bound: failures in a behaviour

Kinds == {"category", "item", "variation", "override", "promotion"}
Ops == {"create", "update", "delete"}
Changes == {"on", "off", "keep"}

\* at: the restaurant or the region of an override or a promotion, None when
\* it is for all.  of: the category of an item, the item of the others.
\* born: the request that inserted the row, by: the one that wrote it last.
Row == [state : {"none", "live", "deleted"}, active : BOOLEAN,
        of : Entities \cup {None}, at : Restaurants \cup Regions \cup {None},
        born : Requests \cup {None}, by : Requests \cup {None}]

Request == [kind : Kinds, op : Ops, by : Actors, on : Entities, of : Entities \cup {None},
            at : Restaurants \cup Regions \cup {None}, change : Changes,
            id : Requests \cup {None}]

NoRow == [state |-> "none", active |-> FALSE, of |-> None, at |-> None,
          born |-> None, by |-> None]

\* The override e is the row of one item at one restaurant, s: the table has no
\* second one, and what is asked for e is asked for s.  It is never switched off,
\* and nothing is left of it when it is deleted.
Overrides(e, s) ==
    /\ Listed[e] = NoRow \/ (Listed[e].state = "live" /\ Listed[e].active /\ Listed[e].at = s)
    /\ \A asked \in Scenarios, q \in Requests :
          asked[q].on = e /\ asked[q].op = "create" => asked[q].at = s

ASSUME CatalogueAssumption ==
    /\ KindOf \in [Entities -> Kinds]
    /\ Listed \in [Entities -> Row]
    /\ \A e \in Entities : Listed[e].state = "none" <=> Listed[e] = NoRow
    /\ Scenarios \subseteq [Requests -> Request]
    /\ \A asked \in Scenarios, q \in Requests :
          /\ asked[q].kind = KindOf[asked[q].on] /\ asked[q].id = None
          /\ asked[q].kind # "promotion" /\ asked[q].op = "create" => asked[q].change = "keep"
          /\ asked[q].kind = "override" => asked[q].change = "keep"
    /\ \A e \in Entities : KindOf[e] = "override" => \E s \in Restaurants : Overrides(e, s)
    /\ Regions \cap Restaurants = {}
    /\ MaxFaults \in Nat
    /\ None \notin Entities \cup Requests \cup Actors

VARIABLES
    rows,           \* the five tables
    req,            \* req[q]: what request q asks for
    outcome,        \* outcome[q]: idle, running, ok, refused or failed
    todo,           \* todo[q]: the rest of q's script
    loaded,         \* loaded[q]: the row q's handler read
    status, behind, topic, dropped,     \* the outbox and Kafka
    seen,           \* kfc-userapi: messages it has consumed, by key
    cache,          \* kfc-userapi: cache[s], <<>> or the menu of s it serves
    filling,        \* kfc-userapi: filling[s], a menu it asked for and computed
    blind,          \* history: restaurants whose cache may have missed a change
    faults

outboxVars == <<status, behind, topic, dropped>>
userapiVars == <<seen, cache, filling, blind>>
vars == <<rows, req, outcome, todo, loaded, outboxVars, userapiVars, faults>>

\* The message keys: a restaurant, or None, which stands for every restaurant.
Keys == Restaurants \cup {None}
Announcements == Requests \X Keys

Outbox == INSTANCE AtLeastOnceQueue
    WITH Changes <- Announcements, KeyOf <- [c \in Announcements |-> c[2]]

\* A menu as kfc-userapi keeps it, or nothing.
IsKept(x) == Len(x) <= 1 /\ Range(x) \subseteq SUBSET (Entities \X (Requests \cup {None}))

Init ==
    /\ rows = Listed
    /\ req \in Scenarios
    /\ outcome = [q \in Requests |-> "idle"]
    /\ todo = [q \in Requests |-> <<>>]
    /\ loaded = [q \in Requests |-> NoRow]
    /\ Outbox!Init
    /\ seen = [k \in Keys |-> 0]
    /\ cache = [s \in Restaurants |-> <<>>]
    /\ filling = [s \in Restaurants |-> <<>>]
    /\ blind = {}
    /\ faults = 0

Fault == faults < MaxFaults /\ faults' = faults + 1

Actor(q) == Staff[req[q].by]

Reaches(at, s) == at \in {None, s, RegionOf[s]}

\* The menu of s: the rows it is computed from, with their contents.
Menu(s) ==
    {<<e, rows[e].by>> : e \in {f \in Entities : /\ rows[f].state = "live"
                                                 /\ rows[f].active
                                                 /\ Reaches(rows[f].at, s)}}

-----------------------------------------------------------------------------
(* The scripts: after the permission, one step for each query.             *)

CreateCategory == <<"insert", "publish">>
\* Mutant: the change is announced before it is made.
AnnounceFirst == <<"load", "publish", "write">>
UpdateCategory == <<"load", "write", "publish">>
DeleteCategory == <<"remove", "publish">>

CreateItem == <<"parent", "insert", "publish">>
UpdateItem == <<"load", "parent", "write", "publish">>
DeleteItem == <<"load", "remove", "publish">>

CreateVariation == <<"parent", "insert", "publish">>
UpdateVariation == <<"load", "write", "publish">>
DeleteVariation == <<"remove", "publish">>

SetOverride == <<"scope", "parent", "upsert", "publish">>
UpdateOverride == <<"load", "scope", "write", "publish">>
DeleteOverride == <<"load", "scope", "remove", "publish">>

CreatePromotion == <<"scope", "insert", "publish">>
UpdatePromotion == <<"load", "scope", "write", "publish">>
DeletePromotion == <<"load", "scope", "remove", "publish">>

Script(kind, op) ==
    CASE kind = "category" -> (CASE op = "create" -> CreateCategory
                                 [] op = "update" -> UpdateCategory
                                 [] op = "delete" -> DeleteCategory)
      [] kind = "item" -> (CASE op = "create" -> CreateItem
                             [] op = "update" -> UpdateItem
                             [] op = "delete" -> DeleteItem)
      [] kind = "variation" -> (CASE op = "create" -> CreateVariation
                                  [] op = "update" -> UpdateVariation
                                  [] op = "delete" -> DeleteVariation)
      [] kind = "override" -> (CASE op = "create" -> SetOverride
                                 [] op = "update" -> UpdateOverride
                                 [] op = "delete" -> DeleteOverride)
      [] kind = "promotion" -> (CASE op = "create" -> CreatePromotion
                                  [] op = "update" -> UpdatePromotion
                                  [] op = "delete" -> DeletePromotion)

Permission(r) ==
    IF r.op = "delete"
    THEN CASE r.kind = "category" -> "menu.category.delete"
           [] r.kind = "item" -> "menu.item.delete"
           [] r.kind = "variation" -> "menu.variation.delete"
           [] r.kind = "override" -> "menu.override.delete"
           [] r.kind = "promotion" -> "menu.promotion.delete"
    ELSE CASE r.kind = "category" -> "menu.category.write"
           [] r.kind = "item" -> "menu.item.write"
           [] r.kind = "variation" -> "menu.variation.write"
           [] r.kind = "override" -> "menu.override.write"
           [] r.kind = "promotion" -> "menu.promotion.write"

-----------------------------------------------------------------------------
(* The endpoints.                                                          *)

\* The client names a row by the id it has been shown.
Arrive(q, kind, op) ==
    /\ outcome[q] = "idle"
    /\ req[q].kind = kind /\ req[q].op = op
    /\ req' = [req EXCEPT ![q].id = rows[req[q].on].born]
    /\ LET ok == CheckPermission(Actor(q), Permission(req[q])) IN
       /\ outcome' = [outcome EXCEPT ![q] = IF ok THEN "running" ELSE "refused"]
       /\ todo' = [todo EXCEPT ![q] = IF ok THEN Script(kind, op) ELSE <<>>]
    /\ UNCHANGED <<rows, loaded, outboxVars, userapiVars, faults>>

PostCategory(q) == Arrive(q, "category", "create")
PutCategory(q) == Arrive(q, "category", "update")
RemoveCategory(q) == Arrive(q, "category", "delete")
PostItem(q) == Arrive(q, "item", "create")
PutItem(q) == Arrive(q, "item", "update")
RemoveItem(q) == Arrive(q, "item", "delete")
PostVariation(q) == Arrive(q, "variation", "create")
PutVariation(q) == Arrive(q, "variation", "update")
RemoveVariation(q) == Arrive(q, "variation", "delete")
PostOverride(q) == Arrive(q, "override", "create")
PutOverride(q) == Arrive(q, "override", "update")
RemoveOverride(q) == Arrive(q, "override", "delete")
PostPromotion(q) == Arrive(q, "promotion", "create")
PutPromotion(q) == Arrive(q, "promotion", "update")
RemovePromotion(q) == Arrive(q, "promotion", "delete")

-----------------------------------------------------------------------------
(* The queries.                                                            *)

At(q, step) == outcome[q] = "running" /\ Head(todo[q]) = step

\* The handler goes on if `ok`, and answers with an error otherwise.
Decide(q, ok) ==
    /\ todo' = [todo EXCEPT ![q] = IF ok THEN Tail(@) ELSE <<>>]
    /\ outcome' = [outcome EXCEPT ![q] = IF ~ok THEN "refused"
                                         ELSE IF Len(todo[q]) = 1 THEN "ok" ELSE @]

\* The tables with a deleted_at hide what was deleted; a deleted variation is
\* an inactive one, and a deleted override is gone.
Exists(e) == rows[e].state = "live"

\* GetByID of the row the request names.
Found(q) == Exists(req[q].on) /\ rows[req[q].on].born = req[q].id

Load(q) ==
    /\ At(q, "load")
    /\ Decide(q, Found(q))
    /\ loaded' = [loaded EXCEPT ![q] = IF Found(q) THEN rows[req[q].on] ELSE @]
    /\ UNCHANGED <<rows, req, outboxVars, userapiVars, faults>>

\* GetByID of the category or the item.  Update asks only for another one.
FindParent(q) ==
    /\ At(q, "parent")
    /\ Decide(q, Exists(req[q].of) \/ (req[q].op = "update" /\ req[q].of = loaded[q].of))
    /\ UNCHANGED <<rows, req, loaded, outboxVars, userapiVars, faults>>

checkPromotionScope(user, at) ==
    \/ user.role = "super_admin"
    \/ /\ user.role = "regional_manager"
       /\ \/ at = None
          \/ at \in Regions /\ user.region = at
          \/ at \in Restaurants /\ CanAccessRestaurant(user, at, Restaurants)

\* Where the change applies: as the request says, or as the row does.
Where(q) == IF req[q].op = "create" THEN req[q].at ELSE loaded[q].at

CheckScope(q) ==
    /\ At(q, "scope")
    /\ Decide(q, IF req[q].kind = "promotion"
                 THEN checkPromotionScope(Actor(q), Where(q))
                 ELSE CanAccessRestaurant(Actor(q), Where(q), Restaurants))
    /\ UNCHANGED <<rows, req, loaded, outboxVars, userapiVars, faults>>

\* A new row is on; only a promotion can be created switched off.
NewRow(q, born) ==
    [state |-> "live", active |-> req[q].change # "off", of |-> req[q].of, at |-> req[q].at,
     born |-> born, by |-> q]

\* A code, or an id, is used once.
Insert(q) ==
    LET e == req[q].on
        free == rows[e].state = "none"
    IN /\ At(q, "insert")
       /\ Decide(q, free)
       /\ rows' = IF free THEN [rows EXCEPT ![e] = NewRow(q, q)] ELSE rows
       /\ UNCHANGED <<req, loaded, outboxVars, userapiVars, faults>>

\* The override of a restaurant and an item keeps its id.
Upsert(q) ==
    LET e == req[q].on IN
    /\ At(q, "upsert")
    /\ Decide(q, TRUE)
    /\ rows' = [rows EXCEPT ![e] = NewRow(q, IF Exists(e) THEN @.born ELSE q)]
    /\ UNCHANGED <<req, loaded, outboxVars, userapiVars, faults>>

\* Mutant: what is not said is on.
ActiveUnlessOff(q) == req[q].change # "off"

NewActive(q) ==
    CASE req[q].change = "on" -> TRUE
      [] req[q].change = "off" -> FALSE
      [] OTHER -> loaded[q].active

\* Only items and promotions can be moved.
NewParent(q) ==
    IF req[q].kind \in {"item", "promotion"} THEN req[q].of ELSE loaded[q].of

Writable(q) == Found(q)

\* Everything but the place is written: the rest as the request says.
Write(q) ==
    LET e == req[q].on IN
    /\ At(q, "write")
    /\ Decide(q, Writable(q))
    /\ rows' = IF Writable(q)
               THEN [rows EXCEPT ![e] = [@ EXCEPT !.active = NewActive(q),
                                                  !.of = NewParent(q), !.by = q]]
               ELSE rows
    /\ UNCHANGED <<req, loaded, outboxVars, userapiVars, faults>>

\* A row is marked as deleted; a variation is turned off, an override removed.
Removed(row, kind) ==
    CASE kind = "variation" -> [row EXCEPT !.active = FALSE]
      [] kind = "override" -> NoRow
      [] OTHER -> [row EXCEPT !.state = "deleted", !.active = FALSE]

Remove(q) ==
    LET e == req[q].on
        ok == Found(q) /\ (req[q].kind = "variation" => rows[e].active)
    IN /\ At(q, "remove")
       /\ Decide(q, ok)
       /\ rows' = IF ok THEN [rows EXCEPT ![e] = Removed(@, req[q].kind)] ELSE rows
       /\ UNCHANGED <<req, loaded, outboxVars, userapiVars, faults>>

\* A query fails, the client goes away or the process dies.  Before the row is
\* written nothing has happened; after, nobody hears of it.
GivesUp(q) ==
    /\ outcome[q] = "running"
    /\ Fault
    /\ outcome' = [outcome EXCEPT ![q] = "failed"]
    /\ todo' = [todo EXCEPT ![q] = <<>>]
    /\ blind' = IF At(q, "publish") THEN Restaurants ELSE blind
    /\ UNCHANGED <<rows, req, loaded, outboxVars, seen, cache, filling>>

-----------------------------------------------------------------------------
(* The announcement.                                                       *)

\* Only overrides and a restaurant's promotions concern one restaurant.
KeyOf(q) == IF Where(q) \in Restaurants THEN Where(q) ELSE None

\* Mutant: no restaurant has the empty id.
CoversOne(k) == {k} \cap Restaurants

Covers(k) == IF k = None THEN Restaurants ELSE {k}

\* PublishMenuUpdated: the event enters the outbox, or the error is logged.
Publish(q) ==
    /\ At(q, "publish")
    /\ Decide(q, TRUE)
    /\ \/ Outbox!Accept(<<q, KeyOf(q)>>) /\ UNCHANGED <<blind, faults>>
       \/ Fault /\ blind' = blind \cup Covers(KeyOf(q)) /\ UNCHANGED outboxVars
    /\ UNCHANGED <<rows, req, loaded, seen, cache, filling>>

\* The relay and Kafka.  A message is repeated when something has failed.
Deliver(c) ==
    /\ IF Outbox!Reached(c) THEN Fault ELSE UNCHANGED faults
    /\ Outbox!Deliver(c)
    /\ UNCHANGED <<rows, req, outcome, todo, loaded, userapiVars>>

\* The leader of k's partition fails with events that it acknowledged and its
\* followers do not have.  kfc-userapi has read only what they have.
LeaderFails(k) ==
    LET lost == {c \in Announcements : Outbox!Delivered(c) /\ ~Outbox!Delivered(c)'} IN
    /\ Fault
    /\ \E n \in seen[k]..(Len(topic[k]) - 1) : Outbox!Drop(k, n)
    /\ blind' = blind \cup UNION {Covers(c[2]) : c \in lost}
    /\ UNCHANGED <<rows, req, outcome, todo, loaded, seen, cache, filling>>

\* kfc-userapi empties the cache of k's restaurants.  A menu that is being
\* computed meanwhile is stored later all the same.
Consume(k) ==
    /\ seen[k] < Len(topic[k])
    /\ seen' = [seen EXCEPT ![k] = @ + 1]
    /\ cache' = [s \in Restaurants |-> IF s \in Covers(k) THEN <<>> ELSE cache[s]]
    /\ LET filled == {s \in Covers(k) : filling[s] # <<>>} IN
       blind' = (blind \ Covers(k)) \cup filled
    /\ UNCHANGED <<rows, req, outcome, todo, loaded, outboxVars, filling, faults>>

-----------------------------------------------------------------------------
(* Kiosks ask kfc-userapi for the menu of s.                               *)

Compute(s) ==
    /\ cache[s] = <<>> /\ filling[s] = <<>>
    /\ filling' = [filling EXCEPT ![s] = <<Menu(s)>>]
    /\ UNCHANGED <<rows, req, outcome, todo, loaded, outboxVars, seen, cache, blind, faults>>

Store(s) ==
    /\ filling[s] # <<>>
    /\ cache' = [cache EXCEPT ![s] = filling[s]]
    /\ filling' = [filling EXCEPT ![s] = <<>>]
    /\ UNCHANGED <<rows, req, outcome, todo, loaded, outboxVars, seen, blind, faults>>

\* The entry's time is over (ValidUntil, or kfc-userapi's own limit).
Expire(s) ==
    /\ cache[s] # <<>>
    /\ cache' = [cache EXCEPT ![s] = <<>>]
    /\ blind' = IF filling[s] = <<>> THEN blind \ {s} ELSE blind
    /\ UNCHANGED <<rows, req, outcome, todo, loaded, outboxVars, seen, filling, faults>>

-----------------------------------------------------------------------------
Arrives(q) ==
    \/ PostCategory(q) \/ PutCategory(q) \/ RemoveCategory(q)
    \/ PostItem(q) \/ PutItem(q) \/ RemoveItem(q)
    \/ PostVariation(q) \/ PutVariation(q) \/ RemoveVariation(q)
    \/ PostOverride(q) \/ PutOverride(q) \/ RemoveOverride(q)
    \/ PostPromotion(q) \/ PutPromotion(q) \/ RemovePromotion(q)

Handles(q) ==
    \/ Load(q) \/ FindParent(q) \/ CheckScope(q)
    \/ Insert(q) \/ Upsert(q) \/ Write(q) \/ Remove(q) \/ Publish(q)

Caches(s) == Compute(s) \/ Store(s) \/ Expire(s)

Next ==
    \/ \E q \in Requests : Arrives(q) \/ Handles(q) \/ GivesUp(q)
    \/ \E c \in Announcements : Deliver(c)
    \/ \E k \in Keys : Consume(k) \/ LeaderFails(k)
    \/ \E s \in Restaurants : Caches(s)

Spec == Init /\ [][Next]_vars

\* A handler that runs goes on, the outbox delivers what it accepted, and
\* kfc-userapi consumes what is delivered.  Nothing makes a kiosk ask again.
Fairness ==
    /\ \A q \in Requests : WF_vars(Handles(q))
    /\ \A c \in Announcements : WF_vars(~Outbox!Reached(c) /\ Deliver(c))
    /\ \A k \in Keys : WF_vars(Consume(k))

FairSpec == Spec /\ Fairness

-----------------------------------------------------------------------------
(* Properties.                                                             *)

TypeOK ==
    /\ rows \in [Entities -> Row]
    /\ req \in [Requests -> Request]
    /\ outcome \in [Requests -> {"idle", "running", "ok", "refused", "failed"}]
    /\ \A q \in Requests : (outcome[q] = "running") <=> (todo[q] # <<>>)
    /\ loaded \in [Requests -> Row]
    /\ \A k \in Keys : seen[k] \in 0..Len(topic[k])
    /\ DOMAIN cache = Restaurants /\ DOMAIN filling = Restaurants
    /\ \A s \in Restaurants : IsKept(cache[s]) /\ IsKept(filling[s])
    /\ blind \subseteq Restaurants
    /\ faults \in 0..MaxFaults

\* An announcement kfc-userapi has still to consume, and will.
Pending(c) ==
    /\ status[c] # "absent"
    /\ Outbox!Delivered(c) \/ c \notin dropped
    /\ c \notin Range(SubSeq(topic[c[2]], 1, seen[c[2]]))

Stale(s) == cache[s] # <<>> /\ cache[s] # <<Menu(s)>>

\* A kiosk is shown an old menu only while the change is being announced: its
\* handler is about to publish it or its event is on the way.  (Or the event
\* was lost, before the outbox had it or by Kafka after it was acknowledged; or
\* a menu computed before the change was stored after the event.)
StaleIsAnnounced ==
    \A s \in Restaurants : Stale(s) =>
        \/ s \in blind
        \/ \E q \in Requests : At(q, "publish") /\ s \in Covers(KeyOf(q))
        \/ \E c \in Announcements : Pending(c) /\ s \in Covers(c[2])

\* Typed, and no old menu is shown without its reason.
CatalogueInv == TypeOK /\ StaleIsAnnounced

\* Nobody but a super admin changes the menu of a restaurant out of his scope,
\* except that regional managers have the promotions that are for all.
ChangedWithinScope ==
    [][\A q \in Requests, s \in Restaurants :
          todo'[q] # todo[q] /\ Menu(s)' # Menu(s) =>
             \/ Actor(q).role = "super_admin"
             \/ CanAccessRestaurant(Actor(q), s, Restaurants)
             \/ /\ Actor(q).role = "regional_manager"
                /\ req[q].kind = "promotion" /\ Where(q) = None]_vars

\* A deleted row stays deleted, also under an update that loaded it before.
DeletedStaysDeleted ==
    [][\A e \in Entities : rows[e].state = "deleted" => rows'[e] = rows[e]]_vars

\* A row that is off is turned on by a request that says so, or by one that
\* says nothing and loaded the row when it was on.
ActivatedKnowingly ==
    [][\A e \in Entities :
          /\ rows[e].state = "live" /\ ~rows[e].active
          /\ rows'[e].state = "live" /\ rows'[e].active
          => \E q \in Requests : /\ todo'[q] # todo[q] /\ req[q].on = e
                                 /\ req[q].change = "on" \/ loaded[q].active]_vars

\* What a write of the menu may never do, whichever handlers run side by side.
ChangesSound == ChangedWithinScope /\ DeletedStaysDeleted /\ ActivatedKnowingly

\* An old menu is replaced in the end without waiting for its time to be over,
\* with the same exceptions.
StaleEnds == \A s \in Restaurants : Stale(s) ~> (~Stale(s) \/ s \in blind)

=============================================================================
