SPECIFICATION FairSpec
CONSTANTS
  Servers = {s1}
  Checkers = {c1, c2, c3}
  Mortal = {s1, c3}
  Absent = Absent
  Empty = Empty
INVARIANTS TypeOK 
PROPERTIES SelfHeals
CHECK_DEADLOCK FALSE
