SPECIFICATION Spec
CONSTANTS
  Volumes = {v, w}
  Handlers = {h1, h2}
  Zones = {z}
  RegionOf <- OneRegion
  DefaultZone = z
  FSNames = {f, g}
  Requests <- TwoRequests
  Gib = 2
  MinVolumeSizeBytes = 4
  MaxFaults = 0
  None = None
INVARIANTS
  UniqueGeneratedName
CHECK_DEADLOCK FALSE
