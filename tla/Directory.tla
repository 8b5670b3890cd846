------------------------------- MODULE Directory -------------------------------
(***************************************************************************)
(* Who reads the regions and the restaurants while they change: the gRPC   *)
(* directory of kfc-userapi, which pages through everything that is        *)
(* active, and the lists and single reads of staff.                        *)
(*                                                                         *)
(* A list counts its rows in one query and reads a page, by offset, in     *)
(* another.  A reader is the sequence of its queries, its plan; one that   *)
(* pages repeats "regions" or "restaurants" until it has enough.           *)
(***************************************************************************)
EXTENDS Organisation, Functions

CONSTANTS
    Readers,
    Calls,              \* bound: what they ask for, together
    MaxOffset,          \* bound: an offset that no reader gets to
    MaxPage,            \* 100 in the code
    DefaultPage         \* 10 in the code

\* by: None for the gRPC directory.  at: the restaurant, or the region, that
\* the call names or is about.  limit, offset: the page a staff list asks for.
Call == [kind : STRING, by : Actors \cup {None}, at : Rows \cup {None},
         limit : Int, offset : Int]

DirectoryKinds == {"ListRegions", "ListRestaurants", "GetRestaurant"}

\* A call of staff has an account; one about a single row names a row of its
\* table, which may not be there.
WellFormed(c) ==
    /\ c.by = None <=> c.kind \in DirectoryKinds
    /\ c.kind = "region" => c.at \in Regions
    /\ c.kind \in {"restaurant", "GetRestaurant"} => c.at \in Restaurants

ASSUME ReadersAssumption ==
    /\ \A asked \in Calls : asked \in [Readers -> Call]
    /\ \A asked \in Calls, p \in Readers : WellFormed(asked[p])
    /\ MaxOffset \in Nat /\ MaxPage \in Nat \ {0} /\ DefaultPage \in 1..MaxPage
    /\ None \notin Nat \cup Readers \cup Actors

VARIABLES
    call,           \* call[p]: what reader p asks for
    state,          \* state[p]: idle, running, ok or error
    plan,           \* plan[p]: the rest of p's queries
    cursor,         \* cursor[p]: the offset and the total of the page to read
    listed,         \* listed[p]: what the pages have brought, by table
    answer,         \* answer[p]: the rows p was told of
    was,            \* history: rows p may be told of at some moment of its call
    always,         \* history: ... and at every moment
    steady          \* history: the tables have not changed since p's call began,
                    \* and its names were all different

dirVars == <<call, state, plan, cursor, listed, answer, was, always, steady>>

Start == [offset |-> 0, total |-> None]
Nothing == [region |-> <<>>, restaurant |-> <<>>]

DirInit ==
    /\ call \in Calls
    /\ state = [p \in Readers |-> "idle"]
    /\ plan = [p \in Readers |-> <<>>]
    /\ cursor = [p \in Readers |-> Start]
    /\ listed = [p \in Readers |-> Nothing]
    /\ answer = [p \in Readers |-> {}]
    /\ was = [p \in Readers |-> {}]
    /\ always = [p \in Readers |-> {}]
    /\ steady = [p \in Readers |-> TRUE]

Reader(p) == Staff[call[p].by]
ByStaff(p) == call[p].by # None

-----------------------------------------------------------------------------
(* What a reader may be told of.                                           *)

Open(r) == IsLive(r) /\ table[r].active

\* A restaurant-scoped account has no region of its own.
InScope(user, r) ==
    \/ user.role = "super_admin"
    \/ user.role = "regional_manager" /\ user.region = (IF r \in Regions THEN r ELSE RegionOf[r])
    \/ user.role \in RestaurantRoles /\ user.restaurant = r

Visible(p) ==
    IF ByStaff(p) THEN {r \in Rows : IsLive(r) /\ InScope(Reader(p), r)}
                  ELSE {r \in Rows : Open(r)}

NamesDiffer ==
    \A rows \in {Regions, Restaurants} : \A r, s \in rows :
        IsLive(r) /\ IsLive(s) /\ r # s => table[r].name # table[s].name

-----------------------------------------------------------------------------
(* The lists of the repositories.                                          *)

\* The conditions of the query, from the filter the caller has set up.  An
\* account without a region or a restaurant sets no filter.
RegionFilter(p) ==
    IF ByStaff(p) THEN {g \in Regions : IsLive(g)} ELSE {g \in Regions : Open(g)}

FilterRegion(p) ==
    IF ByStaff(p)
    THEN IF Reader(p).role = "regional_manager" THEN Reader(p).region ELSE None
    ELSE call[p].at

RestaurantFilter(p) ==
    {s \in Restaurants : /\ IF ByStaff(p) THEN IsLive(s) ELSE Open(s)
                         /\ FilterRegion(p) \in {None, RegionOf[s]}}

Matching(p, t) == IF t = "region" THEN RegionFilter(p) ELSE RestaurantFilter(p)

\* ORDER BY name: rows with the same name come in any order.
Sorted(S) ==
    {s \in [1..Cardinality(S) -> S] :
        /\ IsInjective(s)
        /\ \A i, j \in DOMAIN s : i < j => table[s[i]].name <= table[s[j]].name}

\* Mutant: the cap itself is refused.
BelowCap(limit) == IF limit < 1 \/ limit >= MaxPage THEN DefaultPage ELSE limit

PageLimit(limit) == IF limit < 1 \/ limit > MaxPage THEN DefaultPage ELSE limit

PageOffset(offset) == IF offset < 0 THEN 0 ELSE offset

\* LIMIT and OFFSET.
PageFrom(limit, offset, s) ==
    LET first == PageOffset(offset)
        last == first + PageLimit(limit)
    IN SubSeq(s, first + 1, IF last < Len(s) THEN last ELSE Len(s))

-----------------------------------------------------------------------------
(* The steps of a reader.                                                  *)

\* The call begins: its permission, then its queries.
Begin(p, kind, allowed, steps) ==
    /\ state[p] = "idle" /\ call[p].kind = kind
    /\ state' = [state EXCEPT ![p] = IF allowed THEN "running" ELSE "error"]
    /\ plan' = [plan EXCEPT ![p] = IF allowed THEN steps ELSE <<>>]
    /\ was' = [was EXCEPT ![p] = Visible(p)]
    /\ always' = [always EXCEPT ![p] = Visible(p)]
    /\ steady' = [steady EXCEPT ![p] = NamesDiffer]
    /\ UNCHANGED <<call, cursor, listed, answer>>

Does(p, step) == state[p] = "running" /\ Head(plan[p]) = step

GoOn(p) ==
    /\ plan' = [plan EXCEPT ![p] = Tail(@)]
    /\ state' = [state EXCEPT ![p] = IF Len(plan[p]) = 1 THEN "ok" ELSE @]

Stop(p) ==
    /\ plan' = [plan EXCEPT ![p] = <<>>]
    /\ state' = [state EXCEPT ![p] = "error"]

OrStop(p, ok) == IF ok THEN GoOn(p) ELSE Stop(p)

Count(p, t) ==
    /\ cursor[p].total = None
    /\ cursor' = [cursor EXCEPT ![p].total = Cardinality(Matching(p, t))]
    /\ UNCHANGED <<call, state, plan, listed, answer, was, always, steady>>

\* Mutant: an empty page does not end the loop.
EnoughRead(page, read, total) == Len(read) >= total

Enough(page, read, total) == page = <<>> \/ Len(read) >= total

\* The loops ask for the largest page and advance by as much.
PageOn(p, t) ==
    /\ cursor[p].total # None /\ cursor[p].offset < MaxOffset
    /\ \E s \in Sorted(Matching(p, t)) :
          LET page == PageFrom(MaxPage, cursor[p].offset, s)
              read == listed[p][t] \o page
          IN /\ listed' = [listed EXCEPT ![p][t] = read]
             /\ IF Enough(page, read, cursor[p].total)
                THEN GoOn(p) /\ cursor' = [cursor EXCEPT ![p] = Start]
                ELSE /\ cursor' = [cursor EXCEPT ![p] = [offset |-> @.offset + MaxPage,
                                                         total |-> None]]
                     /\ UNCHANGED <<plan, state>>
    /\ UNCHANGED <<call, answer, was, always, steady>>

PageRegions(p) == Does(p, "regions") /\ (Count(p, "region") \/ PageOn(p, "region"))
PageRestaurants(p) ==
    Does(p, "restaurants") /\ (Count(p, "restaurant") \/ PageOn(p, "restaurant"))

\* A list of staff is one page.
PageOnce(p, t) ==
    /\ cursor[p].total # None
    /\ \E s \in Sorted(Matching(p, t)) :
          listed' = [listed EXCEPT ![p][t] = PageFrom(call[p].limit, call[p].offset, s)]
    /\ cursor' = [cursor EXCEPT ![p] = Start]
    /\ GoOn(p)
    /\ UNCHANGED <<call, answer, was, always, steady>>

ListPage(p) ==
    \/ Does(p, "region page") /\ (Count(p, "region") \/ PageOnce(p, "region"))
    \/ Does(p, "restaurant page") /\ (Count(p, "restaurant") \/ PageOnce(p, "restaurant"))

\* GetByID of the row the call names.
Find(p) ==
    /\ Does(p, "find")
    /\ OrStop(p, IsLive(call[p].at))
    /\ listed' = IF ~IsLive(call[p].at) THEN listed
                 ELSE IF call[p].at \in Regions
                      THEN [listed EXCEPT ![p].region = <<call[p].at>>]
                      ELSE [listed EXCEPT ![p].restaurant = <<call[p].at>>]
    /\ UNCHANGED <<call, cursor, answer, was, always, steady>>

\* GetByID of the restaurant's region, which has to be active too.
FindOpenRegion(p) ==
    LET g == RegionOf[call[p].at] IN
    /\ Does(p, "open region")
    /\ OrStop(p, Open(g))
    /\ listed' = IF Open(g) THEN [listed EXCEPT ![p].region = <<g>>] ELSE listed
    /\ UNCHANGED <<call, cursor, answer, was, always, steady>>

\* GetByID of a restaurant that has to be active.
FindOpen(p) ==
    /\ Does(p, "find open")
    /\ OrStop(p, Open(call[p].at))
    /\ listed' = IF Open(call[p].at) THEN [listed EXCEPT ![p].restaurant = <<call[p].at>>]
                                     ELSE listed
    /\ UNCHANGED <<call, cursor, answer, was, always, steady>>

CheckAccess(p) ==
    /\ Does(p, "access")
    /\ OrStop(p, CanAccessRestaurant(Reader(p), call[p].at, LiveRestaurants))
    /\ UNCHANGED <<call, cursor, listed, answer, was, always, steady>>

-----------------------------------------------------------------------------
(* The answers.                                                            *)

CanAccessRegion(user, g) ==
    \/ user.role = "super_admin"
    \/ user.role = "regional_manager" /\ user.region # None /\ user.region = g

\* Only regions with somewhere to order from.
RegionsWithRestaurants(l) ==
    {g \in Range(l.region) : \E s \in Range(l.restaurant) : RegionOf[s] = g}

RestaurantsOfRegions(l) ==
    {s \in Range(l.restaurant) : RegionOf[s] \in Range(l.region)}

\* A regional manager's page of regions is filtered after it was read.
OwnRegion(p) ==
    IF Reader(p).role = "super_admin" THEN Range(listed[p].region)
    ELSE Range(listed[p].region) \cap {Reader(p).region}

AnswerOf(p) ==
    CASE call[p].kind = "ListRegions" -> RegionsWithRestaurants(listed[p])
      [] call[p].kind = "ListRestaurants" -> RestaurantsOfRegions(listed[p])
      [] call[p].kind = "regions" -> OwnRegion(p)
      [] OTHER -> Range(listed[p].region) \cup Range(listed[p].restaurant)

Tell(p) ==
    /\ Does(p, "answer")
    /\ answer' = [answer EXCEPT ![p] = AnswerOf(p)]
    /\ GoOn(p)
    /\ UNCHANGED <<call, cursor, listed, was, always, steady>>

\* A query fails.
ReadFails(p) ==
    /\ state[p] = "running"
    /\ Stop(p)
    /\ UNCHANGED <<call, cursor, listed, answer, was, always, steady>>

-----------------------------------------------------------------------------
(* The calls.                                                              *)

ListRegions(p) == Begin(p, "ListRegions", TRUE, <<"regions", "restaurants", "answer">>)

ListRestaurants(p) ==
    Begin(p, "ListRestaurants", TRUE, <<"restaurants", "regions", "answer">>)

GetRestaurant(p) == Begin(p, "GetRestaurant", TRUE, <<"find open", "open region", "answer">>)

StaffRegions(p) ==
    /\ ByStaff(p)
    /\ Begin(p, "regions", CheckPermission(Reader(p), "region.read"),
             <<"region page", "answer">>)

StaffRegion(p) ==
    /\ ByStaff(p)
    /\ Begin(p, "region", /\ CheckPermission(Reader(p), "region.read")
                          /\ CanAccessRegion(Reader(p), call[p].at),
             <<"find", "answer">>)

\* Restaurant-scoped accounts are shown the restaurant they belong to.
StaffRestaurants(p) ==
    /\ ByStaff(p)
    /\ Begin(p, "restaurants", CheckPermission(Reader(p), "restaurant.read"),
             IF Reader(p).role \in RestaurantRoles /\ Reader(p).restaurant # None
             THEN <<"own", "answer">>
             ELSE <<"restaurant page", "answer">>)

FindOwn(p) ==
    LET s == Reader(p).restaurant IN
    /\ Does(p, "own")
    /\ OrStop(p, IsLive(s))
    /\ listed' = IF IsLive(s) THEN [listed EXCEPT ![p].restaurant = <<s>>] ELSE listed
    /\ UNCHANGED <<call, cursor, answer, was, always, steady>>

StaffRestaurant(p) ==
    /\ ByStaff(p)
    /\ Begin(p, "restaurant", CheckPermission(Reader(p), "restaurant.read"),
             <<"access", "find", "answer">>)

Calling(p) ==
    \/ ListRegions(p) \/ ListRestaurants(p) \/ GetRestaurant(p)
    \/ StaffRegions(p) \/ StaffRegion(p) \/ StaffRestaurants(p) \/ StaffRestaurant(p)

Reading(p) ==
    \/ PageRegions(p) \/ PageRestaurants(p) \/ ListPage(p)
    \/ Find(p) \/ FindOpen(p) \/ FindOpenRegion(p) \/ FindOwn(p)
    \/ CheckAccess(p) \/ Tell(p)

Reads(p) == Calling(p) \/ Reading(p) \/ ReadFails(p)

\* The histories of the readers that run, when a request changes the tables.
Observe ==
    /\ was' = [p \in Readers |-> IF state[p] = "running" THEN was[p] \cup Visible(p)' ELSE was[p]]
    /\ always' = [p \in Readers |->
                     IF state[p] = "running" THEN always[p] \cap Visible(p)' ELSE always[p]]
    /\ steady' = [p \in Readers |-> steady[p] /\ (state[p] = "running" => table' = table)]

ChangesObserved(q) ==
    /\ Changes(q)
    /\ UNCHANGED <<call, state, plan, cursor, listed, answer>>
    /\ Observe

-----------------------------------------------------------------------------
(* Properties.                                                             *)

DirTypeOK ==
    /\ OrgTypeOK
    /\ call \in [Readers -> Call]
    /\ state \in [Readers -> {"idle", "running", "ok", "error"}]
    /\ \A p \in Readers : (state[p] = "running") <=> (plan[p] # <<>>)
    /\ \A p \in Readers : cursor[p].offset \in Nat /\ cursor[p].total \in Nat \cup {None}
    /\ \A p \in Readers : Range(listed[p].region) \subseteq Regions
                          /\ Range(listed[p].restaurant) \subseteq Restaurants
    /\ \A p \in Readers : answer[p] \cup was[p] \cup always[p] \subseteq Rows
    /\ steady \in [Readers -> BOOLEAN]

Answered(p, kinds) == state[p] = "ok" /\ call[p].kind \in kinds

\* An account without a region or a restaurant, which lists all restaurants.
Unfiltered(p) ==
    /\ ByStaff(p) /\ call[p].kind = "restaurants"
    /\ \/ Reader(p).role = "regional_manager" /\ Reader(p).region = None
       \/ Reader(p).role \in RestaurantRoles /\ Reader(p).restaurant = None

\* A row that a reader was told of existed, and was its to see, at some moment
\* of the call; the directory shows a restaurant only if its region was open.
ToldOnlyVisible ==
    \A p \in Readers : state[p] = "ok" =>
        /\ answer[p] \subseteq was[p] \/ Unfiltered(p)
        /\ call[p].kind \in DirectoryKinds =>
              \A s \in answer[p] \cap Restaurants : RegionOf[s] \in was[p]

\* When nothing changes during its call and no two rows of a table share a name,
\* the directory lists every open restaurant of an open region, and no other,
\* whatever the sizes of the pages.
CompleteWhenQuiet ==
    \A p \in Readers : Answered(p, {"ListRestaurants"}) /\ steady[p] =>
        answer[p] = {s \in always[p] \cap Restaurants :
                        RegionOf[s] \in always[p] /\ call[p].at \in {None, RegionOf[s]}}

\* Every call ends, also when rows come and go between its pages.
CallsEnd == \A p \in Readers : (state[p] = "running") ~> (state[p] # "running")

=============================================================================
