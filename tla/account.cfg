SPECIFICATION Spec
CONSTANTS
  Users = {u1}
  Passwords = {p1, p2}
  Workers = {w1, w2}
  None = None
  Doors = {"mono", "micro"}
  Day = 1
  MaxClock = 2
  Heads = {9}
  Faults <- AllFaults
SYMMETRY Symmetry
INVARIANTS
  TypeOK
  OneSignupWins
  LockedOutOnlyByOverlap
CHECK_DEADLOCK FALSE
