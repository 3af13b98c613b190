SPECIFICATION FairSpec
CONSTANTS
  Items = {a, b}
  Consumers = {c1, c2}
  MaxPush = 4
INVARIANTS
  ExactlyOnceInOrder
PROPERTIES
  LoopsEnd
  ImplementsChannel
CHECK_DEADLOCK FALSE
