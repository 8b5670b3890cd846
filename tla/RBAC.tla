-------------------------------- MODULE RBAC --------------------------------
(***************************************************************************)
(* Who may do what: the roles and their permissions                        *)
(* (internal/domain/rbac.go) and the rules of RBACService                  *)
(* (internal/service/rbac_service.go).  A user row has a role, a region, a *)
(* restaurant (None when NULL) and an activation flag.  Restaurants and    *)
(* regions that were soft-deleted are not found: the rules that look one   *)
(* up take the set of those that still exist.                              *)
(***************************************************************************)
EXTENDS Naturals

CONSTANTS
    Regions, Restaurants,
    RegionOf,           \* restaurant.region_id, which no handler changes
    None                \* a NULL column

ASSUME OrganisationAssumption ==
    /\ RegionOf \in [Restaurants -> Regions]
    /\ None \notin Regions \cup Restaurants

Roles == {"super_admin", "regional_manager", "restaurant_manager",
          "shift_manager", "cashier"}
RestaurantRoles == {"restaurant_manager", "shift_manager", "cashier"}

\* 0 for anything that is not a role.
Level(role) ==
    CASE role = "super_admin" -> 5
      [] role = "regional_manager" -> 4
      [] role = "restaurant_manager" -> 3
      [] role = "shift_manager" -> 2
      [] role = "cashier" -> 1
      [] OTHER -> 0

IsAtLeast(role, other) == Level(role) >= Level(other)

IsValid(role) == Level(role) > 0

-----------------------------------------------------------------------------
(* RolePermissions: each role has those of the role below it, and more.    *)

CashierPermissions ==
    {"restaurant.read", "menu.category.read", "menu.item.read",
     "menu.variation.read", "menu.override.read", "menu.promotion.read",
     "order.read"}

ShiftManagerPermissions == CashierPermissions \cup
    {"user.read", "device.read", "order.cancel", "customer.read"}

RestaurantManagerPermissions == ShiftManagerPermissions \cup
    {"user.create", "user.update", "device.create", "device.update",
     "device.pair", "menu.override.write", "menu.override.delete",
     "customer.adjust"}

RegionalManagerPermissions == RestaurantManagerPermissions \cup
    {"region.read", "restaurant.create", "restaurant.update",
     "restaurant.delete", "user.delete", "device.delete",
     "menu.promotion.write", "menu.promotion.delete"}

SuperAdminPermissions == RegionalManagerPermissions \cup
    {"region.create", "region.update", "region.delete",
     "menu.category.write", "menu.category.delete", "menu.item.write",
     "menu.item.delete", "menu.variation.write", "menu.variation.delete"}

RolePermissions(role) ==
    CASE role = "super_admin" -> SuperAdminPermissions
      [] role = "regional_manager" -> RegionalManagerPermissions
      [] role = "restaurant_manager" -> RestaurantManagerPermissions
      [] role = "shift_manager" -> ShiftManagerPermissions
      [] role = "cashier" -> CashierPermissions
      [] OTHER -> {}

CreatableRoles(role) ==
    CASE role = "super_admin" ->
            {"regional_manager", "restaurant_manager", "shift_manager", "cashier"}
      [] role = "regional_manager" ->
            {"restaurant_manager", "shift_manager", "cashier"}
      [] role = "restaurant_manager" -> {"shift_manager", "cashier"}
      [] OTHER -> {}

CheckPermission(user, permission) ==
    /\ IsValid(user.role)
    /\ user.active
    /\ permission \in RolePermissions(user.role)

-----------------------------------------------------------------------------
(* Scope.  `existing` are the restaurants that are not soft-deleted.       *)

CanAccessRestaurant(user, s, existing) ==
    \/ user.role = "super_admin"
    \/ /\ user.role = "regional_manager"
       /\ user.region # None
       /\ s \in existing
       /\ RegionOf[s] = user.region
    \/ /\ user.role \in RestaurantRoles
       /\ user.restaurant = s

-----------------------------------------------------------------------------
(* Users.                                                                  *)

WithinNamedRegion(actor, new) ==
    actor.role = "regional_manager" => new.region \in {None, actor.region}

\* The scope part of CanCreateUser; new.region and new.restaurant were found.
WithinScope(actor, new) ==
    \/ actor.role = "super_admin"
    \/ /\ actor.role = "regional_manager"
       /\ actor.region # None
       /\ new.restaurant # None => RegionOf[new.restaurant] = actor.region
       /\ new.region # None => new.region = actor.region
    \/ /\ actor.role = "restaurant_manager"
       /\ actor.restaurant # None
       /\ new.restaurant = actor.restaurant

\* What CanCreateUser decides before it looks anything up ...
MayCreateRole(actor, new) ==
    /\ CheckPermission(actor, "user.create")
    /\ IsValid(new.role)
    /\ new.role \in CreatableRoles(actor.role)

\* ... and after: a restaurant lies in the region given with it.
MayCreateHere(actor, new) ==
    /\ (new.region # None /\ new.restaurant # None)
          => RegionOf[new.restaurant] = new.region
    /\ WithinScope(actor, new)

canManageUser(actor, target) ==
    /\ ~IsAtLeast(target.role, actor.role)
    /\ \/ actor.role = "super_admin"
       \/ /\ actor.role = "regional_manager"
          /\ actor.region # None
          /\ target.region = actor.region
       \/ /\ actor.role = "restaurant_manager"
          /\ actor.restaurant # None
          /\ target.restaurant = actor.restaurant

CanReadUser(actor, target, self) ==
    /\ CheckPermission(actor, "user.read")
    /\ self \/ canManageUser(actor, target)

CanUpdateOneself(actor, target, self, change) ==
    /\ CheckPermission(actor, "user.update")
    /\ self \/ canManageUser(actor, target)

\* change: the is_active of the request, "keep" when it has none.
CanUpdateUser(actor, target, self, change) ==
    /\ CheckPermission(actor, "user.update")
    /\ IF self THEN change = "keep" ELSE canManageUser(actor, target)

CanDeleteUser(actor, target, self) ==
    /\ CheckPermission(actor, "user.delete")
    /\ ~self
    /\ canManageUser(actor, target)

=============================================================================
