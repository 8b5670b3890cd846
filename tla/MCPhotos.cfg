SPECIFICATION FairSpec
CONSTANTS
    burgers = burgers  zinger = zinger
    q1 = q1  q2 = q2  q3 = q3
    k0 = k0
    Link = Link  None = None
    Categories = {burgers}
    Items = {zinger}
    Stored = {k0}
    Images <- MCImages
    Requests = {q1, q2, q3}
    Scenarios <- MCScenarios
    MaxFaults = 2

INVARIANT PhotosInv
INVARIANT OrphansExplained
PROPERTY ReplacedOnPurpose
PROPERTY RequestsEnd

CHECK_DEADLOCK FALSE
