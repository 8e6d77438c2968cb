SPECIFICATION FairSpec
CONSTANTS
  Pods = {p1, p2}
  Volumes = {iam}
  IAMVolumes = {iam}
  Uses <- Targets
  ReadOnly = {}
  Keys = {iam}
  KeyOf <- KeyPerVolume
  FSName <- DistinctFS
  Handlers = {h1, h2}
  MaxFaults = 2
  Nil = Nil
INVARIANTS
  ReferenceInv
  TeardownExclusive
  RemoveAllDetached
  BoundKeepsReference
  UnpublishComplete
  CleanTeardown
  IInv
PROPERTIES
  ImplementsSharedMount
  DeletedPodUnpublished
CHECK_DEADLOCK FALSE
