------------------------------- MODULE MCUsers -------------------------------
(* Users on a small organisation, for TLC: one restaurant in each of two   *)
(* regions.                                                                *)
EXTENDS Users, TLC

CONSTANTS
    north, south,               \* regions
    n1, s1,                     \* restaurants
    admin, regional, manager, shift,
    e1, e2,                     \* addresses nobody has yet
    ea, er, em, es,             \* the addresses of the accounts above
    q1, q2, q3

Places == (n1 :> north) @@ (s1 :> south)

Account(u, role, region, restaurant, email) ==
    [state |-> "live", role |-> role, region |-> region, restaurant |-> restaurant,
     email |-> email, active |-> TRUE, completed |-> FALSE, password |-> u,
     by |-> None]

Admin == Account(admin, "super_admin", None, None, ea)
Regional == Account(regional, "regional_manager", north, None, er)
Manager == Account(manager, "restaurant_manager", north, n1, em)
Shift == Account(shift, "shift_manager", south, s1, es)

OneAdmin == admin :> Admin
Pair == (regional :> Regional) @@ (manager :> Manager)
Team == (regional :> Regional) @@ (manager :> Manager) @@ (shift :> Shift)

New(role, region, restaurant, email) ==
    [role |-> role, region |-> region, restaurant |-> restaurant, email |-> email]

\* Each way of naming a region, a restaurant, both or neither, a restaurant of
\* another region among them, on two addresses.
Hires ==
    {New("regional_manager", north, None, e1), New("regional_manager", None, None, e1),
     New("restaurant_manager", None, s1, e2), New("restaurant_manager", south, n1, e2),
     New("cashier", None, s1, e1)}

Updating == [q \in Requests |-> {"update"}]
Hiring == (q1 :> {"create"}) @@ (q2 :> {"create"})
          @@ (q3 :> {"create", "update", "delete"})
Managing == (q1 :> {"delete"}) @@ (q2 :> {"update", "setup"})
            @@ (q3 :> {"update", "password"})

=============================================================================
