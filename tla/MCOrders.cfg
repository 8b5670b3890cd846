SPECIFICATION OrdersFairSpec
CONSTANTS
    north = north  south = south
    ash = ash  elm = elm  oak = oak  yew = yew
    boss = boss  rita = rita  sam = sam  max = max  lena = lena
    q1 = q1  q2 = q2  p1 = p1  o1 = o1  o2 = o2
    None = None
    Regions = {north, south}
    Restaurants = {ash, elm, oak, yew}
    RegionOf <- Region
    Seeded <- Seed
    Actors = {boss, rita, sam, max, lena}
    Staff <- Accounts
    Requests = {q1, q2}
    Scenarios <- MCScenarios
    Readers = {p1}
    Calls <- MCCalls
    MaxOffset = 8
    MaxPage = 2
    DefaultPage = 1
    OrderIds = {o1, o2}
    OrderAt <- OrderPlaces
    Asked <- AskedOrder

INVARIANT CompleteWhenQuiet
INVARIANT OrdersInv
PROPERTY ChangesSound
PROPERTY CallsEnd

CHECK_DEADLOCK FALSE
