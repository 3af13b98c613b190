SPECIFICATION Spec
CONSTANTS
  c1 = c1
  c2 = c2
  t1 = t1
  hi = hi
  bye = bye
  Texts = {hi, bye}
  Conns = {c1, c2}
  Tokens = {t1}
  Scenarios <- VoxtaScenarios
  Voxta = voxta
  Others = {pi}
  Shared <- SharedSessions
  MaxFrames = 2
  MaxDeltas = 1
  MaxMessages = 2
INVARIANTS
  PromptEndsWithQuestion
  ContextNamesSource
  AnswerAfterQuestion
PROPERTIES
  ImplementsDialog
CHECK_DEADLOCK FALSE
