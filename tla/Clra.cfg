CONSTANTS
  Programs  <- IsaPrograms
  StrayBytes = {0, 255}
  Accs      = {0, 127, 128, 255}
  Operands  = {0, 1, 9, 128, 255}
  FlagBytes = {0, 1, 31}
  Window    <- IsaWindow
SPECIFICATION IsaSpec
PROPERTY ClearIsLoadZero
CHECK_DEADLOCK FALSE
