SPECIFICATION AllSpec
CONSTANTS
  Volumes = {v}
  Handlers = {h1, h2}
  Zones = {"a", "b"}
  RegionOf <- OwnRegions
  DefaultZone = "a"
  FSNames = {"f"}
  Requests <- SomeRequests
  Gib = 2
  MinVolumeSizeBytes = 4
  MaxFaults = 1
  None = None
INVARIANTS
  ControllerInv
  OneCreation
  BoundHasInstance
  GoneIsDeleted
  LeftBehindOnlyAfterError
  LabelsKept
PROPERTIES
  CapacityAnswersRequest
  NeverShrinks
  ImplementsVolume
  Provisioned
  Reclaimed
  Grown
  LabeledInTime
CHECK_DEADLOCK FALSE
