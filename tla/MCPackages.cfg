SPECIFICATION Spec
CONSTANTS
  app = app
  base = base
  callee = callee
  util = util
  std = std
  alias = alias
  git1 = git1
  git2 = git2
  f1 = f1
  f2 = f2
  Forcs = {f1, f2}
  Members <- MCMembers
  Paths = {callee, util}
  Repos = {git1, git2}
  Manifests <- MCManifests
  FirstManifest <- MCFirstManifest
  RepoManifest <- MCRepoManifest
  LastCommit <- MCLastCommit
  MaxPlans = 2
  MaxEdits = 1
  NoLock = NoLock
  Empty = Empty
  Mixed = Mixed
INVARIANTS PlanFollowsManifests PinnedOnce LockRoundTrips 
SYMMETRY TwoForcs
CHECK_DEADLOCK FALSE
