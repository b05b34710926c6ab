CONSTANTS
  Byte <- MCByte  MEMORY_SIZE = 49
  PROGRAM_START = 8
  WRITE_IDX = 33  READ_IDX = 34  RINGBUF = 35  BUF_SIZE = 4
  SCREEN = 39  SCREEN_LEN = 2
  OP_NOOP = 0  OP_HALT = 1  OP_ET = 2  OP_RESET = 3  OP_LOAD_I = 4  OP_STORE_IM = 5  OP_JMP = 6
  Memories <- MCMemories
  Keys = {4}
  MaxEvents = 2
  Blocks = {1, 2}
  Stretches <- MCStretches
SPECIFICATION FairSpec
INVARIANTS TypeOK MemoryLives EscStopsGuest
PROPERTIES QuitEnds ScreenKeepsUp
