-------------------------------- MODULE Orders --------------------------------
(***************************************************************************)
(* The order view of staff: OrderService turns an account into the         *)
(* restaurants it may see, as Directory's readers do, and asks kfc-order   *)
(* for their orders; a list of no restaurants means all of them there.     *)
(* Staff also cancel orders while the kitchen completes them.  kfc-order   *)
(* is external.                                                            *)
(***************************************************************************)
EXTENDS Directory

CONSTANTS
    OrderIds,
    OrderAt,            \* the restaurant of each order
    Asked               \* Asked[p]: the order that call p is about

ASSUME OrdersAssumption ==
    /\ OrderAt \in [OrderIds -> Restaurants]
    /\ \A asked \in Calls, p \in Readers : asked[p].kind \in {"orders", "order stats"} =>
          asked[p].at \in Restaurants \cup {None}
    /\ Asked \in [Readers -> OrderIds]

VARIABLES
    order,          \* order[o]: open, completed or cancelled
    shown           \* shown[p]: the orders p was answered with

ordersVars == <<orgVars, dirVars, order, shown>>

OrdersInit ==
    /\ OrgInit /\ DirInit
    /\ order = [o \in OrderIds |-> "open"]
    /\ shown = [p \in Readers |-> {}]

-----------------------------------------------------------------------------
(* The scope of a call: a restaurant it names, all, or those of a region.  *)

resolveScope(p) ==
    IF call[p].at # None \/ Reader(p).role \in RestaurantRoles
    THEN <<"access", "find", "orders">>
    ELSE <<"restaurants", "orders">>

\* A restaurant-scoped account asks for its own restaurant.
About(p, s) == call' = [call EXCEPT ![p].at = s]

Overview(p, kind) ==
    /\ state[p] = "idle" /\ call[p].kind = kind
    /\ LET user == Reader(p)
           own == call[p].at = None /\ user.role \in RestaurantRoles
           assigned == /\ user.role = "regional_manager" => user.region # None
                       /\ own => user.restaurant # None
           allowed == CheckPermission(user, "order.read") /\ (call[p].at # None \/ assigned)
       IN /\ state' = [state EXCEPT ![p] = IF allowed THEN "running" ELSE "error"]
          /\ plan' = [plan EXCEPT ![p] = IF allowed THEN resolveScope(p) ELSE <<>>]
          /\ IF own THEN About(p, user.restaurant) ELSE UNCHANGED call
    /\ was' = [was EXCEPT ![p] = Visible(p)]
    /\ always' = [always EXCEPT ![p] = Visible(p)]
    /\ steady' = [steady EXCEPT ![p] = NamesDiffer]
    /\ UNCHANGED <<orgVars, cursor, listed, answer, order, shown>>

ListOrders(p) == Overview(p, "orders")
OrderStats(p) == Overview(p, "order stats")

All(p) == Reader(p).role = "super_admin" /\ call[p].at = None

\* What kfc-order finds for a list of restaurants.
OrdersOf(ids) == {o \in OrderIds : ids = {} \/ OrderAt[o] \in ids}

\* Mutant: the list is always sent.
NeverEmpty(p) == FALSE

empty(p) == ~All(p) /\ listed[p].restaurant = <<>>

QueryOrders(p) ==
    /\ Does(p, "orders")
    /\ shown' = [shown EXCEPT ![p] =
                    IF empty(p) THEN {}
                    ELSE OrdersOf(IF All(p) THEN {} ELSE Range(listed[p].restaurant))]
    /\ GoOn(p)
    /\ UNCHANGED <<orgVars, call, cursor, listed, answer, was, always, steady, order>>

-----------------------------------------------------------------------------
(* One order.                                                              *)

\* Mutant: whoever may cancel orders may cancel this one.
CancelUnchecked == <<"order", "find", "cancel">>

GetSteps == <<"order", "access", "find", "order answer">>
CancelSteps == <<"order", "access", "find", "cancel">>

GetOrder(p) ==
    /\ Begin(p, "order", CheckPermission(Reader(p), "order.read"), GetSteps)
    /\ UNCHANGED <<orgVars, order, shown>>

CancelOrder(p) ==
    /\ Begin(p, "cancel", CheckPermission(Reader(p), "order.cancel"), CancelSteps)
    /\ UNCHANGED <<orgVars, order, shown>>

\* kfc-order answers with the order, and so with its restaurant.
FetchOrder(p) ==
    /\ Does(p, "order")
    /\ GoOn(p)
    /\ About(p, OrderAt[Asked[p]])
    /\ UNCHANGED <<orgVars, cursor, listed, answer, was, always, steady, order, shown>>

ShowOrder(p) ==
    /\ Does(p, "order answer")
    /\ shown' = [shown EXCEPT ![p] = {Asked[p]}]
    /\ GoOn(p)
    /\ UNCHANGED <<orgVars, call, cursor, listed, answer, was, always, steady, order>>

\* UpdateOrderStatus: an order that is not open is refused; a call that timed
\* out may have cancelled it.
UpdateOrderStatus(p) ==
    LET open == order[Asked[p]] = "open"
        cancelled == [order EXCEPT ![Asked[p]] = "cancelled"]
    IN /\ Does(p, "cancel")
       /\ \/ open /\ GoOn(p) /\ order' = cancelled /\ shown' = [shown EXCEPT ![p] = {Asked[p]}]
          \/ open /\ Stop(p) /\ order' = cancelled /\ UNCHANGED shown
          \/ ~open /\ Stop(p) /\ UNCHANGED <<order, shown>>
       /\ UNCHANGED <<orgVars, call, cursor, listed, answer, was, always, steady>>

\* The kitchen.
Complete(o) ==
    /\ order[o] = "open"
    /\ order' = [order EXCEPT ![o] = "completed"]
    /\ UNCHANGED <<orgVars, dirVars, shown>>

-----------------------------------------------------------------------------
Views(p) ==
    \/ ListOrders(p) \/ OrderStats(p) \/ GetOrder(p) \/ CancelOrder(p)
    \/ QueryOrders(p) \/ FetchOrder(p) \/ ShowOrder(p) \/ UpdateOrderStatus(p)

OrdersNext ==
    \/ \E q \in Requests : ChangesObserved(q) /\ UNCHANGED <<order, shown>>
    \/ \E p \in Readers : Reads(p) /\ UNCHANGED <<orgVars, order, shown>>
    \/ \E p \in Readers : Views(p)
    \/ \E o \in OrderIds : Complete(o)

OrdersSpec == OrdersInit /\ [][OrdersNext]_ordersVars

\* Queries are answered.
OrdersFairSpec ==
    /\ OrdersSpec
    /\ \A p \in Readers :
          /\ WF_ordersVars(Reading(p) /\ UNCHANGED <<orgVars, order, shown>>)
          /\ WF_ordersVars(QueryOrders(p) \/ FetchOrder(p) \/ ShowOrder(p) \/ UpdateOrderStatus(p))

-----------------------------------------------------------------------------
(* Properties.                                                             *)

OrdersTypeOK ==
    /\ DirTypeOK
    /\ order \in [OrderIds -> {"open", "completed", "cancelled"}]
    /\ shown \in [Readers -> SUBSET OrderIds]

\* An account is shown orders only of restaurants that were in its scope at
\* some moment of the call; none, and not all, when there are no such
\* restaurants (any more).
OrdersInScope ==
    \A p \in Readers : \A o \in shown[p] :
        Reader(p).role = "super_admin" \/ OrderAt[o] \in was[p]

\* Typed; and neither the directory nor the orders view tells anybody more than
\* was his to see at some moment of the call.
OrdersInv == OrdersTypeOK /\ ToldOnlyVisible /\ OrdersInScope

\* An order is cancelled by an account in whose scope its restaurant was at
\* some moment of the call, and only while it is open.
CancelledInScope ==
    [][\A o \in OrderIds : order'[o] = "cancelled" /\ order[o] # "cancelled" =>
          /\ order[o] = "open"
          /\ \E p \in Readers :
                /\ plan'[p] # plan[p] /\ call[p].kind = "cancel" /\ Asked[p] = o
                /\ Reader(p).role = "super_admin" \/ OrderAt[o] \in was[p]]_ordersVars

\* What a change of a region, a restaurant or an order may never do.
ChangesSound == ChangedWithinScope /\ DeletedStaysDeleted /\ CancelledInScope

=============================================================================
