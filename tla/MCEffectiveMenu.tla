---------------------------- MODULE MCEffectiveMenu ----------------------------
(* A menu of two categories and two items, one of them with a size, and two *)
(* promotions, for TLC.                                                     *)
EXTENDS EffectiveMenu

CONSTANTS x, y, a, b, v, p, q

SizeOf == v :> a

NewOffer(type, value, priority, starts, ends, targets) ==
    [type |-> type, value |-> value, priority |-> priority,
     starts |-> starts, ends |-> ends, targets |-> targets]

HalfPrice == NewOffer("percentage", 50, 0, 0, 1, {a})
MoneyOff == NewOffer("fixed", 50, 0, 1, 2, {})
GiveAway == NewOffer("fixed", 300, 1, 1, 3, {b})
MCOffers == {HalfPrice, MoneyOff, GiveAway}

ItemIn(c, price) == [state |-> "active", category |-> c, price |-> price]
Promo(state, offer) == [state |-> state, scope |-> "global", offer |-> offer]

Base ==
    [category |-> (x :> "active") @@ (y :> "none"),
     item |-> (a :> ItemIn(x, 100)) @@ (b :> ItemIn(x, 100)),
     variation |-> v :> [state |-> "active", delta |-> 10],
     override |-> [i \in Items |-> NoOverride],
     promotion |-> (p :> Promo("active", HalfPrice)) @@ (q :> Promo("none", MoneyOff))]

MCStart ==
    {Base,
     [Base EXCEPT !.item[b].state = "none", !.promotion[q].state = "active"],
     [Base EXCEPT !.item[b].state = "inactive",
                  !.override[b] = [price |-> Null, available |-> "yes"]],
     [Base EXCEPT !.override[a] = [price |-> 200, available |-> "no"],
                  !.variation[v].state = "none", !.category[y] = "inactive",
                  !.promotion[p] = Promo("active", MoneyOff),
                  !.promotion[q] = Promo("inactive", GiveAway)]}

=============================================================================
