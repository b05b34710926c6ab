CONSTANTS
  Keys     = {97, 98}
  BUF_SIZE = 4
SPECIFICATION FairSpec
INVARIANTS TypeOK ChecksStayValid
PROPERTIES KeysInOrder KeysArrive
