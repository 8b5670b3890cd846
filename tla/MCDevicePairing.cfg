SPECIFICATION Spec
CONSTANTS
    north = north  south = south  oak = oak  elm = elm
    d1 = d1  d2 = d2  d3 = d3
    rita = rita  max = max
    q1 = q1  q2 = q2  q3 = q3
    None = None
    Regions = {north, south}
    Restaurants = {oak, elm}
    RegionOf <- Region
    Devices = {d1, d2, d3}
    Installed <- Fitted
    Actors = {rita, max}
    Staff <- Accounts
    Requests = {q1, q2, q3}
    Asks <- MCAsks
    Removals = {oak}
    MaxFaults = 1

INVARIANT DevicesInv
INVARIANT DeletedIsCutOff
INVARIANT ShownWorks
INVARIANT Superseded

CHECK_DEADLOCK FALSE
