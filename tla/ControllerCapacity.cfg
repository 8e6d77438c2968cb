SPECIFICATION Spec
CONSTANTS
  Volumes = {v}
  Handlers = {h}
  Zones = {z}
  RegionOf <- OneRegion
  DefaultZone = z
  FSNames = {f}
  Requests <- OddRequest
  Gib = 2
  MinVolumeSizeBytes = 4
  MaxFaults = 0
  None = None
PROPERTIES
  RequiredBytesMet
CHECK_DEADLOCK FALSE
