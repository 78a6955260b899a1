SPECIFICATION FairSpec
CONSTANTS
  Keys = {1}
  Buttons = {1}
  Positions = {1, 2}
  Sizes <- Skewed
  MaxEvents = 3
INVARIANTS
  ListenersFollowServer
  SizeIsReal
  SizeSharesDimension
PROPERTIES
  TellsEveryResize
  CloseEndsLoop
  ExitsDrained
CHECK_DEADLOCK FALSE
