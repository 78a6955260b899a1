SPECIFICATION ReleaseSpec
CONSTANTS
  ImageCount = 2
  MAX_FRAMES_IN_FLIGHT = 2
  MinExtent = 1
  MaxExtent = 2
  ReportsExtent = TRUE
  AcquireResults <- Good
  SubmitResults <- Good
  PresentResults <- Good
  CreateResults <- Good
  MayClose = FALSE
  OneDimension = FALSE
  MaxResizes = 0
PROPERTY FenceIsReached
CHECK_DEADLOCK FALSE
