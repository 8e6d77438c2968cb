SPECIFICATION Spec
CONSTANTS
  Pods = {p1, p2}
  Volumes = {a, b}
  IAMVolumes = {}
  Uses <- AllButOne
  ReadOnly = {}
  Keys = {a, b}
  KeyOf <- KeyPerVolume
  FSName <- SameFS
  Handlers = {h1, h2}
  MaxFaults = 2
  Nil = Nil
SYMMETRY HandlerSymmetry
INVARIANTS
  LocksExclusive
  BindSourceMounted
CHECK_DEADLOCK FALSE
