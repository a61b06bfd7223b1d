SPECIFICATION FairSpec
CONSTANTS
  x1 = x1 x2 = x2 e1 = e1
  Timer = {x1, x2}
  Executor = {e1}
  Inspector = inspector
  App = {a1}
  None = None
  Option <- Threaded
  Interval = {1}
  UserOpt <- OneExecutor
  Usage = {"mod"}
  MaxTime = 1
  MaxSetup = 1
PROPERTIES  DelReturns
CHECK_DEADLOCK FALSE
