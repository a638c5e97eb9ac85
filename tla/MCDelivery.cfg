CONSTANTS
  u = u v = v
  Receiver <- MCReceiver
  Topic <- MCTopic
  Blocks = "block"
  Subscribed <- MCSubscribed
  None = None
  MaxBlocks = 2
  MaxFaults = 2
SPECIFICATION DeliverySpec
CHECK_DEADLOCK FALSE
INVARIANTS OwnPayload Accounted
