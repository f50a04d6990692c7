SPECIFICATION FairSpec
INVARIANTS
  TypeOK
  FileUnderstood
  ReloadedIsSame
  PeersExact
  MessagesKept
  ChokeKnown
  PiecesKnown
PROPERTIES
  HangUpNoticed
CONSTANTS
  HandshakeLength = 2
  MaxMessages = 3
  Depth = 4
  MCTwice = FALSE
  Metainfos <- MCMetainfos
  AnswersMeant <- MCAnswersMeant
  Trailers <- MCTrailers
  Messages <- MCMessages
