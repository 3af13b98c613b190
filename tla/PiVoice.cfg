SPECIFICATION FairSpec
CHECK_DEADLOCK FALSE
CONSTANTS
  MaxTurns = 2
  MaxResets = 1
  MaxDeltas = 1
  Devices = {"pi", "other"}
  Levels = {"quiet", "loud"}
  MaxChunks = 3
  MaxSent = 4
  PrerollChunks = 2
  LeadChunks = 1
INVARIANTS
  CancelledIsNotAnswered
  PlayerHearsOneReply
  UserIsNotTalkedOver
  SpeechIsWhole
PROPERTIES
  HistoryKeepsExchanges
  ReplyEnds
