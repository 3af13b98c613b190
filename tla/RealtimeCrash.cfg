SPECIFICATION GreetedSpec
CONSTANTS
  Sessions = {own, kitchen}
  OwnSession = own
  Frames <- ReplyFrames
  SttEvents = {}
  MaxMessages = 3
  MaxEvents = 1
  MaxDeltas = 2
  MaxFlush = 1
INVARIANTS
  HubSurvivesTtsFailure
CHECK_DEADLOCK FALSE
