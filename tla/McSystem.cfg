SPECIFICATION Spec
CONSTANTS
  t1 = t1 t2 = t2 s1 = s1 s2 = s2
  Sub = {s1, s2}
  RegOnly = {}
  Thread = {t1, t2}
  Rebooter = Rebooter
  asks <- Requests
  MaxOwed <- Owed
SYMMETRY Symmetry
INVARIANTS BitsOfSubscribers NoLostAnswer
 
CHECK_DEADLOCK FALSE
