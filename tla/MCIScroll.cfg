CONSTANTS
  NaN = NaN
  None = None
  Wrapper <- MCWrapper
  Setups <- MCSetups
  KeySteps = {1}
  MoveThreshold = 2
  LockThreshold = 1
  FlickDistance = 2
  MinIndicator = 1
  Steps = 2
  Overshoot = 1
  Reach = 2
  MaxFrames = 2
SPECIFICATION Spec
INVARIANT PageExists
PROPERTIES
  OnlyTheseStrandIt
  EveryEndIsTold
  BarFades
  PageIsShown
  NumbersComeFromNumbers
  LeftAloneItRests
CHECK_DEADLOCK FALSE
