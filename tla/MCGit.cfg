SPECIFICATION FairSpec
CONSTANTS
  foo = foo
  foo_utils = foo_utils
  Sources = {foo, foo_utils}
  StartsWith <- Prefix
  Runs = {r1, r2}
  NoRun = NoRun
  Mortal = {r1}
  MaxCommits = 2
INVARIANTS TypeOK IndexMeansFull ReadsWhole
PROPERTIES RunsEnd
CHECK_DEADLOCK FALSE
