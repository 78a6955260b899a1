SPECIFICATION Spec
CONSTANTS
  ImageCount = 2
  MAX_FRAMES_IN_FLIGHT = 2
  MinExtent = 1
  MaxExtent = 2
  ReportsExtent = TRUE
  AcquireResults <- AnyAcquire
  SubmitResults <- Failing
  PresentResults <- AnyPresent
  CreateResults <- Failing
  MayClose = TRUE
  OneDimension = TRUE
  MaxResizes = 2
INVARIANTS
  WorkUsesLiveObjects
  ParentsOutliveChildren
  NothingLeaked
CHECK_DEADLOCK FALSE
