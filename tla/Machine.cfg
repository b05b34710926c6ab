CONSTANTS
  Sources <- MCSources
  StrayBytes = {0}
  MaxLines = 3
  MaxSteps = 8
SPECIFICATION MCSpec
CHECK_DEADLOCK FALSE
INVARIANTS TypeOK IsTranslated OperandsReached
PROPERTIES ControlFollowsSource
