SPECIFICATION Spec
CONSTANTS
  x1 = x1 x2 = x2 e1 = e1
  Timer <- Timers
  Executor = {e1}
  Inspector = inspector
  App = {a1}
  None = None
  Option <- Mixed
  Interval = {1, 2}
  UserOpt <- OneLingers
  Usage = {"mod", "cross", "destroy"}
  MaxTime = 2
  MaxSetup = 1
INVARIANTS FlagsAgree QuietAfterDel NoLostExpiry 
SYMMETRY Symmetric
CHECK_DEADLOCK FALSE
