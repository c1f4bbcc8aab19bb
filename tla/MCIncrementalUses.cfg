SPECIFICATION Spec
CONSTANTS
  a = a
  b = b
  Root = root
  Subs = {a, b}
  Uses <- BUsesA
  Breakable = {}
  AtomicWrites = TRUE
  CleanSaves = TRUE
  MaxWrites = 1
  MaxEdits <- TwoEditsOfA
INVARIANTS ImportsAgree
CHECK_DEADLOCK FALSE
