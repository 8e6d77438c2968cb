SPECIFICATION FairSpec
CONSTANTS
  Nics <- ThreeNics
  Primary = "eth0"
  Vpc <- VpcOfNic
  MaxFaults = 2
  MaxChanges = 2
  None = None
  Proxies = {p1}
  maxRetries = 3
  SupportsIAM = TRUE
INVARIANTS
  BootInv
  DriverFollowsLNet
  PortAgreed
  InstalledWhole
  ServingMeansInstalled
PROPERTIES
  DriverComesUp
  UpcallEnds
  ServesOrFailed
CHECK_DEADLOCK FALSE
