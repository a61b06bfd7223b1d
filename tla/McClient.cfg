SPECIFICATION Spec
CONSTANTS
  Name = {a}
  Table = {a}
  Failing = {a}
  MaxClient = 2
  None = None
  loss_max = 2
  interval <- EverySecond
  MaxRequest = 4
INVARIANTS QueueAgree OneGuardian
 
CHECK_DEADLOCK FALSE
