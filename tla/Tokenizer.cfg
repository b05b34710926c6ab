CONSTANTS
  Letters <- MCLetters
  MaxLetters = 4
  Pieces <- MCPieces
  Ends <- MCEnds
  Texts <- MCTexts
SPECIFICATION Spec
INVARIANTS TypeOK TextIsTiled KeywordsFound LinesAreEditorLines SuitsAssembler ImmediatesRead TokensStandAlone MessagesMatchText
PROPERTIES EveryStepAdvances
