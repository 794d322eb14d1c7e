SPECIFICATION Spec
CONSTANTS
  Users = {u1}
  Passwords = {p1}
  Workers = {w1}
  None = None
  Doors = {"mono"}
  Day = 1
  MaxClock = 3
  Heads = {0, 9}
  Faults = {}
PROPERTY
  CheckedTokenIsFresh
CHECK_DEADLOCK FALSE
