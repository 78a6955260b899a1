SPECIFICATION Spec
CONSTANTS
  Keys = {1}
  Buttons = {1}
  Positions = {1, 2}
  Sizes <- Skewed
  MaxEvents = 3
INVARIANTS
  SizeFollowsServer
CHECK_DEADLOCK FALSE
