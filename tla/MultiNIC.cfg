SPECIFICATION FairSpec
CONSTANTS
  eth1 = eth1
  eth2 = eth2
  Nics <- TwoNics
  Nets = {a, b}
  FirstTable = 1
  LastTable = 4
  Foreign = {2}
  Setups = {h1}
  MaxFaults = 2
  None = None
INVARIANTS
  TableInv
  TableOfOneNIC
  RouteThroughOwnNIC
  ReadyRouted
  OneTablePerNIC
  TablesBounded
  IInv
PROPERTIES
  SetupEnds
CHECK_DEADLOCK FALSE
