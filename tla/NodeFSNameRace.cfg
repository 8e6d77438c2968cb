SPECIFICATION Spec
CONSTANTS
  Pods = {p1, p2}
  Volumes = {a, b}
  IAMVolumes = {}
  Uses <- AllButOne
  ReadOnly <- AllButOne
  Keys = {a, b}
  KeyOf <- KeyPerVolume
  FSName <- SameFS
  Handlers = {h1, h2}
  MaxFaults = 0
  Nil = Nil
SYMMETRY HandlerSymmetry
INVARIANTS
  UniqueFSName
CHECK_DEADLOCK FALSE
