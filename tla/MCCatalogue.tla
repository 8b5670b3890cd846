----------------------------- MODULE MCCatalogue -----------------------------
(* Two restaurants of two regions and a row of each kind, for TLC.          *)
EXTENDS Catalogue, TLC

CONSTANTS north, south, oak, elm, burgers, drinks, zinger, cola, small, large,
          price, deal, offer, boss, rita, max, q1, q2

Region == (oak :> north) @@ (elm :> south)

Account(role, region, restaurant) ==
    [role |-> role, region |-> region, restaurant |-> restaurant, active |-> TRUE]

Accounts ==
    (boss :> Account("super_admin", None, None))
    @@ (rita :> Account("regional_manager", north, None))
    @@ (max :> Account("restaurant_manager", None, oak))

Tables ==
    (burgers :> "category") @@ (drinks :> "category") @@ (zinger :> "item")
    @@ (cola :> "item") @@ (small :> "variation") @@ (large :> "variation")
    @@ (price :> "override") @@ (deal :> "promotion") @@ (offer :> "promotion")

Seeded(of, at) ==
    [state |-> "live", active |-> TRUE, of |-> of, at |-> at, born |-> None, by |-> None]

Seed ==
    (burgers :> Seeded(None, None)) @@ (drinks :> NoRow)
    @@ (zinger :> Seeded(burgers, None)) @@ (cola :> NoRow)
    @@ (small :> Seeded(zinger, None)) @@ (large :> NoRow)
    @@ (price :> Seeded(zinger, oak))
    @@ (deal :> Seeded(zinger, south)) @@ (offer :> NoRow)

Ask(op, by, on, of, at, change) ==
    [kind |-> Tables[on], op |-> op, by |-> by, on |-> on, of |-> of, at |-> at,
     change |-> change, id |-> None]
New(by, on, of, at) == Ask("create", by, on, of, at, "keep")
Change(by, on, of, change) == Ask("update", by, on, of, None, change)
Drop(by, on) == Ask("delete", by, on, None, None, "keep")

Both(r, s) == (q1 :> r) @@ (q2 :> s)

MCScenarios ==
    {Both(Change(boss, burgers, None, "keep"), Drop(boss, burgers)),
     Both(New(boss, drinks, None, None), Change(boss, zinger, drinks, "keep")),
     Both(New(boss, cola, burgers, None), Drop(boss, burgers)),
     Both(New(boss, large, zinger, None), Drop(boss, zinger)),
     Both(Change(boss, small, zinger, "keep"), Drop(boss, small)),
     Both(New(max, price, zinger, oak), Drop(rita, price)),
     Both(Change(max, price, zinger, "keep"), Drop(max, price)),
     Both(Change(boss, deal, zinger, "keep"), Drop(rita, deal)),
     Both(Change(rita, deal, zinger, "off"), Drop(boss, deal)),
     Both(New(rita, offer, zinger, None), New(rita, offer, zinger, north)),
     Both(New(rita, offer, zinger, oak), Drop(max, price))}

=============================================================================
