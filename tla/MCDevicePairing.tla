---------------------------- MODULE MCDevicePairing ----------------------------
(* Two devices of one restaurant, and a spare, for TLC.                     *)
EXTENDS DevicePairing, TLC

CONSTANTS north, south, oak, elm, d1, d2, d3, rita, max, q1, q2, q3

Region == (oak :> north) @@ (elm :> south)

Account(role, region, restaurant) ==
    [role |-> role, region |-> region, restaurant |-> restaurant, active |-> TRUE]

Accounts ==
    (rita :> Account("regional_manager", north, None))
    @@ (max :> Account("restaurant_manager", None, elm))

Fitted ==
    (d1 :> [state |-> "live", restaurant |-> oak, active |-> TRUE])
    @@ (d2 :> [state |-> "live", restaurant |-> oak, active |-> FALSE])
    @@ (d3 :> [state |-> "none", restaurant |-> None, active |-> FALSE])

Ask(kind, by, on) == [NoRequest EXCEPT !.kind = kind, !.by = by, !.on = on]
AskIn(kind, by, on, s) == [Ask(kind, by, on) EXCEPT !.in = s]
AskChange(by, on, change) == [Ask("update", by, on) EXCEPT !.change = change]

PairD1 == Ask("pair", rita, d1)
PairOak == AskIn("pairAll", rita, None, oak)

MCAsks ==
    (q1 :> {PairD1, PairOak})
    @@ (q2 :> {Ask("delete", rita, d1), PairOak})
    @@ (q3 :> {PairD1, AskChange(rita, d1, "keep"), Ask("pair", max, d1),
               AskIn("create", rita, d3, oak)})

=============================================================================
