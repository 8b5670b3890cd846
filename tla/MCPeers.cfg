SPECIFICATION FairSpec
CONSTANTS
    old = old  new = new  gift = gift  query = query
    None = None
    Nobody = Nobody
    Regions = {}
    Restaurants = {}
    RegionOf <- NoRestaurants
    Replicas = {old, new}
    Files = {1, 2, 3}
    Build <- Image
    Blank = {2}
    AutoMigrate = {old, new}
    Works = {gift, query}
    Grpc = {query}
    Sendings <- MCSendings
    Tries <- Repeats
    MaxFaults = 1

INVARIANT PeersInv
INVARIANT MigratedOnceInOrder
INVARIANT ServesMigrated
INVARIANT StartsTogether
PROPERTY CutOnlyLate
PROPERTY AllEnd

CHECK_DEADLOCK FALSE
