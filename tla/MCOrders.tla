------------------------------- MODULE MCOrders -------------------------------
(* Two regions, three restaurants and one to come, for TLC.                 *)
EXTENDS Orders, TLC

CONSTANTS north, south, ash, elm, oak, yew, boss, rita, sam, max, lena, q1, q2, p1, o1, o2

Region == (ash :> north) @@ (elm :> north) @@ (oak :> south) @@ (yew :> north)

There(name) == [state |-> "live", active |-> TRUE, name |-> name]
ToCome == [state |-> "none", active |-> FALSE, name |-> 0]

Seed ==
    (north :> There(1)) @@ (south :> There(2))
    @@ (ash :> There(1)) @@ (elm :> There(2)) @@ (oak :> There(3)) @@ (yew :> ToCome)

Holder(role, region, restaurant) ==
    [role |-> role, region |-> region, restaurant |-> restaurant, active |-> TRUE]

Accounts ==
    (boss :> Holder("super_admin", None, None))
    @@ (rita :> Holder("regional_manager", north, None))
    @@ (sam :> Holder("regional_manager", south, None))
    @@ (max :> Holder("restaurant_manager", None, ash))
    @@ (lena :> Holder("regional_manager", None, None))

Ask(op, by, on, change, name) ==
    [op |-> op, by |-> by, on |-> on, change |-> change, name |-> name, clash |-> FALSE]
New(by, on, name) == Ask("create", by, on, "keep", name)
Edit(by, on, change, name) == Ask("update", by, on, change, name)
Drop(by, on) == Ask("delete", by, on, "keep", 0)
Both(r, s) == (q1 :> r) @@ (q2 :> s)

MCScenarios ==
    {Both(Drop(boss, ash), New(rita, yew, 4)),
     Both(Edit(boss, north, "off", 1), Drop(boss, south)),
     Both(Drop(rita, ash), Drop(boss, elm)),
     Both(Edit(rita, elm, "keep", 3), Edit(rita, elm, "off", 2)),
     Both([New(boss, yew, 2) EXCEPT !.clash = TRUE], Drop(boss, north)),
     Both(New(rita, yew, 0), Edit(max, ash, "off", 1)),
     Both(Edit(boss, oak, "keep", 3), Drop(boss, oak)),
     Both(New(sam, yew, 3), New(boss, south, 2)),
     Both(New(lena, yew, 3), Drop(lena, ash))}

One(kind, by, at, limit, offset) ==
    (p1 :> [kind |-> kind, by |-> by, at |-> at, limit |-> limit, offset |-> offset])
Plain(kind, by, at) == One(kind, by, at, 0, 0)

MCCalls ==
    {Plain("ListRegions", None, None), Plain("ListRestaurants", None, None),
     Plain("ListRestaurants", None, north), Plain("GetRestaurant", None, elm),
     One("regions", boss, None, 2, -1), One("regions", rita, None, 1, 1),
     Plain("region", rita, north), Plain("restaurants", max, None),
     One("restaurants", boss, None, 3, 1), One("restaurants", rita, None, 2, 0),
     One("restaurants", lena, None, 2, 1), Plain("orders", lena, None),
     Plain("restaurant", rita, elm),
     Plain("orders", boss, None), Plain("orders", rita, None), Plain("orders", max, None),
     Plain("orders", rita, oak), Plain("order stats", rita, None),
     Plain("order", max, None), Plain("order", sam, None),
     Plain("cancel", rita, None), Plain("cancel", sam, None)}

OrderPlaces == (o1 :> ash) @@ (o2 :> oak)
AskedOrder == (p1 :> o1)

=============================================================================
