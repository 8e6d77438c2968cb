SPECIFICATION Spec
CONSTANTS
  eth1 = eth1
  eth2 = eth2
  Nics <- TwoNics
  Nets = {a, b}
  FirstTable = 1
  LastTable = 4
  Foreign = {2}
  Setups = {h1, h2}
  MaxFaults = 0
  None = None
INVARIANTS
  TableOfOneNIC
CHECK_DEADLOCK FALSE
