------------------------------- MODULE MCPeers -------------------------------
(* A rolling upgrade of two replicas, a request and a read, for TLC.        *)
EXTENDS Peers, TLC

CONSTANTS old, new, gift, query

Image == (old :> {1, 2}) @@ (new :> {1, 2, 3})

Ask(kind, role) == (gift :> [kind |-> kind, role |-> role])

MCSendings ==
    {Ask("adjust", "super_admin"), Ask("adjust", "shift_manager"),
     Ask("create", "restaurant_manager")}

Repeats == (gift :> 2) @@ (query :> 1)

NoRestaurants == [s \in {} |-> None]

=============================================================================
