SPECIFICATION Spec
CONSTANTS
  a = a
  b = b
  Root = root
  Subs = {a}
  Uses <- NoUses
  Breakable = {}
  AtomicWrites = FALSE
  CleanSaves = FALSE
  MaxWrites = 4
  MaxEdits <- TwoEditsOfA
INVARIANTS TypeOK ReuseFindsProgram CachesAgree
CHECK_DEADLOCK FALSE
