SPECIFICATION Spec
CONSTANTS
  ImageCount = 2
  MAX_FRAMES_IN_FLIGHT = 2
  MinExtent = 1
  MaxExtent = 2
  ReportsExtent = TRUE
  AcquireResults <- Retriable
  SubmitResults <- Good
  PresentResults <- Retriable
  CreateResults <- Good
  MayClose = FALSE
  OneDimension = FALSE
  MaxResizes = 2
INVARIANTS
  AllObjectsDestroyed
