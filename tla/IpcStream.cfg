SPECIFICATION FairSpec
CONSTANTS
  HdrLen = 2
  Align = 2
  Payload = {0, 1, 3}
  BufLen = 3
  MaxMsg = 3
PROPERTIES DeliversInOrder AllDelivered
CHECK_DEADLOCK FALSE
