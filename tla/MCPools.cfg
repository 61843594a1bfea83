CONSTANTS
  None = None
  Datagrams = {d1, d2, d3}
  Keys = {k1, k2}
  maxUDPExchanges = 1
  Openers = {o1, o2}
  MaxSlots = 3
  PrioritySlots = 2
  Threshold = 1
  MaxStreams = 2
  Loads = {0, 1, 2, 3, 4, 7, 8}
SPECIFICATION PoolsSpec
INVARIANTS ExchangesOwned DatagramsServed SlotPoolsSound ChoiceUnderLoad
PROPERTY SlotMoves
CHECK_DEADLOCK FALSE
