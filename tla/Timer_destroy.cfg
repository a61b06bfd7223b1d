SPECIFICATION FairSpec
CONSTANTS
  x1 = x1 x2 = x2 e1 = e1
  Timer = {x1}
  Executor = {e1}
  Inspector = inspector
  App = {a1}
  None = None
  Option <- Plain
  Interval = {1}
  UserOpt <- OneExecutor
  Usage = {"destroy"}
  MaxTime = 2
  MaxSetup = 1
PROPERTIES DestroyReturns
CHECK_DEADLOCK FALSE
