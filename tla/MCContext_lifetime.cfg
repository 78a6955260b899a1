SPECIFICATION Spec
CONSTANTS
  Machines <- MCMachines
  Results <- MCResults
  DebugLayers = {TRUE, FALSE}
  Slots = {a, b, c}
  First = a
  a = a
  b = b
  c = c
INVARIANTS
  TypeOK
  ParentsOutliveChildren
  OneOwner
  HeldWithParent
  InstanceExtensionsSupported
  NothingLost
CHECK_DEADLOCK FALSE
