SPECIFICATION ProcessSpec
CONSTANTS
  UserLevels = {2}
  DuckPercent = 1
  Nobody = nobody
  Chunks = {k1, k2}
  MaxConnections = 2
  MaxSegments = 2
  MaxInterrupts = 1
  Clips = {c1}
  Speeches = {s1}
  MaxRelayConnections = 2
  MaxAudio = 2
  MaxReplies = 1
  ReplySegments = 2
  MaxOwnerConnections = 2
  MaxPosts = 1
INVARIANTS
  OneVoice
  PlayingShutsMicrophone
  EndsReportedOnce
  VolumeReturns
  TablesHoldOpenRequests
  SpeechIsAnsweredWhole
  QueuedAudioIsNew
PROPERTIES
  MicrophoneReopens
  RequestsEnd
CHECK_DEADLOCK FALSE
