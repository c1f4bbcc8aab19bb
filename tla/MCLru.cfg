SPECIFICATION Spec
CONSTANTS
  Paths = {p1, p2, p3, p4}
  Handlers = {h1, h2}
  Sessions = {s1, s2, s3, s4, s5}
  Capacity = 3
SYMMETRY Symmetry
INVARIANTS TypeOK OrderMatchesMap
PROPERTY LastUsedSurvives
