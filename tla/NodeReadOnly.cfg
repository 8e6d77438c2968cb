SPECIFICATION Spec
CONSTANTS
  Pods = {p1}
  Volumes = {a}
  IAMVolumes = {}
  Uses <- Targets
  ReadOnly <- Targets
  Keys = {a}
  KeyOf <- KeyPerVolume
  FSName <- DistinctFS
  Handlers = {h1}
  MaxFaults = 1
  Nil = Nil
INVARIANTS
  ReadOnlyHonoured
CHECK_DEADLOCK FALSE
