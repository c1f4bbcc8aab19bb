--------------------------- MODULE MCPackageGraph ----------------------------
(* PackageGraph for TLC: a contract app and a library base in a workspace,  *)
(* a contract callee and a library util beside it, and std at two git       *)
(* references.                                                              *)
EXTENDS PackageGraph, TLC

CONSTANTS app, base, callee, util, std, alias, git1, git2, f1, f2

MCMembers == <<app, base>>

Lib(as, pkg, at) == [as |-> as, pkg |-> pkg, at |-> at, kind |-> "library", salt |-> 0]
Contract(as, pkg, at, salt) ==
  [as |-> as, pkg |-> pkg, at |-> at, kind |-> "contract", salt |-> salt]
Package(name, type, deps) == [name |-> name, type |-> type, deps |-> deps]

Std == Package(std, "library", <<>>)

App == Package(app, "contract",
  <<Contract(alias, callee, callee, 0), Lib(util, util, util), Lib(std, std, git1)>>)
Callee == Package(callee, "contract", <<Lib(std, std, git1)>>)
Base == Package(base, "library", <<Lib(std, std, git2)>>)
Util == Package(util, "library", <<Lib(base, base, base)>>)

\* base may come to need util: a cycle as long as util needs base.
BaseWithUtil == Package(base, "library", <<Lib(util, util, util), Lib(std, std, git2)>>)

\* base may come to need callee with another salt than app's.
BaseWithCallee == Package(base, "library", <<Contract(callee, callee, callee, 1)>>)

\* util may come to do without base.
UtilWithStd == Package(util, "library", <<Lib(std, std, git1)>>)

MCManifests ==
  [x \in {app, base, callee, util} |->
     CASE x = app    -> {App}
       [] x = base   -> {Base, BaseWithUtil, BaseWithCallee}
       [] x = callee -> {Callee}
       [] x = util   -> {Util, UtilWithStd}]
MCFirstManifest ==
  [x \in {app, base, callee, util} |->
     CASE x = app -> App [] x = base -> Base [] x = callee -> Callee [] x = util -> Util]

TwoForcs == Permutations({f1, f2})

MCRepoManifest == [r \in {git1, git2} |-> [c \in 1..2 |-> Std]]
MCLastCommit == [r \in {git1, git2} |-> IF r = git1 THEN 2 ELSE 1]

\* The manifests are as planning takes them to be.
ASSUME ManifestsAsTaken == OneDirectoryPerName /\ OncePerManifest /\ KindsAgree
=============================================================================
