SPECIFICATION CoSpec
CONSTANTS
  Co = {c1, c2}
  Naps = {1, 5}
PROPERTIES SleeperWakes
CHECK_DEADLOCK FALSE
