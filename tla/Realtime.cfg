SPECIFICATION FairSpec
CONSTANTS
  Sessions = {own, kitchen}
  OwnSession = own
  Frames <- AllFrames
  SttEvents = {"interim", "utterance"}
  MaxMessages = 2
  MaxEvents = 2
  MaxDeltas = 1
  MaxFlush = 1
INVARIANTS
  OneReplyAtATime
  HistoryPairsUp
  CutReplyIsNotRecorded
  ClientKnowsSession
PROPERTIES
  AnswerOnlyAfterSpeech
  ChainDrains
CHECK_DEADLOCK FALSE
