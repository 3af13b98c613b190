SPECIFICATION GreetedSpec
CONSTANTS
  Sessions = {own, kitchen}
  OwnSession = own
  Frames <- ReplyFrames
  SttEvents = {}
  MaxMessages = 3
  MaxEvents = 2
  MaxDeltas = 1
  MaxFlush = 1
INVARIANTS
  InterruptStopsReply
CHECK_DEADLOCK FALSE
