CONSTANTS
  c1 = c1
  c2 = c2
  k1 = k1
  r1 = r1
  r2 = r2
  Changes <- MCChanges
  Keys <- MCKeys
  Relays <- MCRelays
  KeyOf <- MCKeyOf
  HostOf <- MCHostOf
  NoRelay = NoRelay
  Batch = 2
  MaxFaults = 2
SPECIFICATION FairSpec
INVARIANTS
  IInv
  DuplicatesNeedFaults
  NoOvertaking
PROPERTIES
  ImplementsQueue
  ImplementsFairQueue
