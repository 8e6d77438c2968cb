SPECIFICATION Spec
CONSTANTS
  Pods = {p1}
  Volumes = {a, b}
  IAMVolumes = {a, b}
  Uses <- Targets
  ReadOnly = {}
  Keys = {a, b}
  KeyOf <- KeyPerVolume
  FSName <- DistinctFS
  Handlers = {h1}
  MaxFaults = 0
  Nil = Nil
INVARIANTS
  BoundKeepsReference
CHECK_DEADLOCK FALSE
