SPECIFICATION Spec
CONSTANTS
  Pods = {p1}
  Volumes = {iam}
  IAMVolumes = {iam}
  Uses <- Targets
  ReadOnly = {}
  Keys = {iam}
  KeyOf <- KeyPerVolume
  FSName <- DistinctFS
  Handlers = {h1}
  MaxFaults = 1
  Nil = Nil
INVARIANTS
  NoLeakedGlobalMount
CHECK_DEADLOCK FALSE
