CONSTANTS
  Programs        <- GuestPrograms
  StrayBytes       = {0}
  FibCounts        = {1, 5, 10, 14}
  FibArguments     = {1, 2, 5, 9}
  CollatzArguments = {3, 6, 27}
  Words            = {0, 1, 255, 256, 32767, 65280, 65535}
  Depths           = {1, 127, 128}
  BodyLength       = 3
SPECIFICATION GSpec
INVARIANT FramesIntact
PROPERTIES GuestsInOrder ReturnsToCaller GuestsCompute
CHECK_DEADLOCK FALSE
