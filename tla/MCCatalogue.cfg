SPECIFICATION FairSpec
CONSTANTS
    north = north  south = south  oak = oak  elm = elm
    burgers = burgers  drinks = drinks  zinger = zinger
    cola = cola  small = small  large = large
    price = price  deal = deal  offer = offer
    boss = boss  rita = rita  max = max
    q1 = q1  q2 = q2
    None = None
    Regions = {north, south}
    Restaurants = {oak, elm}
    RegionOf <- Region
    Entities = {burgers, drinks, zinger, cola, small, large, price, deal, offer}
    KindOf <- Tables
    Listed <- Seed
    Actors = {boss, rita, max}
    Staff <- Accounts
    Requests = {q1, q2}
    Scenarios <- MCScenarios
    MaxFaults = 2

INVARIANT CatalogueInv
PROPERTY ChangesSound
PROPERTY StaleEnds

CHECK_DEADLOCK FALSE
