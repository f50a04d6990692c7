SPECIFICATION Spec
\* TLC stops at the first claim it refutes: check them one at a time
INVARIANTS
  LoopInStep
  \* FirstHandled
  \* PiecesAlwaysKnown
  \* HashIsOfData
  \* ReloadKeepsAll
CONSTANTS
  HandshakeLength = 2
  MaxMessages = 3
  Depth = 4
  MCTwice = TRUE
  Metainfos <- MCMetainfos
  AnswersMeant <- MCAnswersMeant
  Trailers <- MCTrailers
  Messages <- MCMessages
