----------------------------- MODULE GitCheckout -----------------------------
(***************************************************************************)
(* How runs of forc pin a git dependency and check it out into the         *)
(* directory that all of the user's runs share                             *)
(* (forc-pkg/src/source/git/mod.rs, path_lock of forc-util).               *)
(*                                                                         *)
(* A source is a package name with its repository; no two share a          *)
(* repository.  A run pins one dependency and fetches it.  A checkout is   *)
(* made in steps under an advisory lock of its directory; the search for a *)
(* checkout to pin to takes no lock.  A run may be killed anywhere, and    *)
(* the operating system then releases its lock.                            *)
(***************************************************************************)
EXTENDS Naturals, FiniteSets

CONSTANTS
  Runs,         \* runs of forc
  NoRun,
  Sources,      \* package names with their repositories
  StartsWith,   \* for each source, those whose name starts with its name
  Mortal,       \* runs that may be killed
  MaxCommits    \* bound: commits in a repository

ASSUME RunsAssumption == NoRun \notin Runs /\ Mortal \subseteq Runs
ASSUME StartsWithAssumption == StartsWith \in [Sources -> SUBSET Sources]
ASSUME MaxCommitsAssumption == MaxCommits \in Nat \ {0}

\* Tags have the same names in all repositories, and so have branches.
References == {"branch", "tag", "default-branch"}

\* A commit hash tells the repository; the number is the commit's time.
Commits == Sources \X (1..MaxCommits)

\* commit_path: the directory of a source at a commit.
Directories == Sources \X Commits

\* The commit the tag names.
Tagged(s) == <<s, 1>>

VARIABLES
  head,         \* per source: the number of the branch's newest commit
  checkout,     \* per directory: "absent", "partial" or "full"
  index,        \* per directory: .forc_index, "none", "torn" or its reference
  writer,       \* per directory: the run with the write guard, or NoRun
  readers,      \* per directory: the runs with a read guard
  at,           \* per run: where it is
  dep,          \* per run: source and reference of its dependency, and offline
  commit,       \* per run: the commit it pinned
  spoiled       \* observer: the directories a checkout was broken off in

repos == <<head>>
dirs == <<checkout, index>>
locks == <<writer, readers>>
vars == <<repos, dirs, locks, at, dep, commit, spoiled>>

Deps == [source : Sources, reference : References, offline : BOOLEAN]

Init ==
  /\ head = [s \in Sources |-> 1]
  /\ checkout = [d \in Directories |-> "absent"]
  /\ index = [d \in Directories |-> "none"]
  /\ writer = [d \in Directories |-> NoRun]
  /\ readers = [d \in Directories |-> {}]
  /\ at = [r \in Runs |-> "pin"]
  /\ dep \in [Runs -> Deps]
  /\ commit = [r \in Runs |-> Tagged(dep[r].source)]
  /\ spoiled = {}

Goto(r, place) == at' = [at EXCEPT ![r] = place]

\* The directory the run fetches into.
Dir(r) == <<dep[r].source, commit[r]>>

\* The package gets a new commit on its branch.
Push(s) ==
  /\ head[s] < MaxCommits
  /\ head' = [head EXCEPT ![s] = @ + 1]
  /\ UNCHANGED <<dirs, locks, at, dep, commit, spoiled>>

-----------------------------------------------------------------------------
(* Source::pin.                                                            *)

\* with_search_checkouts looks into every directory whose name starts with the
\* name of the package.
Searched(r) == {d \in Directories : d[1] \in StartsWith[dep[r].source]}

\* The checkouts whose index has the reference.
Found(r) == {d \in Searched(r) : index[d] = dep[r].reference}

\* search_source_locally: of the branch's checkouts the newest one, of the tag's
\* whichever comes last.
Matches(r) ==
  CASE dep[r].reference = "branch" -> {d \in Found(r) : \A e \in Found(r) : e[2][2] <= d[2][2]}
    [] dep[r].reference = "tag" -> Found(r)
    [] OTHER -> {}

\* An index that does not parse ends the search with an error.
SearchFails(r) == \E d \in Searched(r) : index[d] = "torn"

\* Offline, and for a tag, a local checkout is looked for.
Searches(r) == dep[r].offline \/ dep[r].reference = "tag"

PinLocally(r) ==
  /\ at[r] = "pin" /\ Searches(r) /\ ~SearchFails(r)
  /\ \E d \in Matches(r) : commit' = [commit EXCEPT ![r] = d[2]]
  /\ Goto(r, "lock_write")
  /\ UNCHANGED <<repos, dirs, locks, dep, spoiled>>

\* pin: the repository is fetched into a directory of the run's own, and the
\* reference resolved.
PinRemotely(r) ==
  /\ at[r] = "pin" /\ ~dep[r].offline
  /\ Searches(r) => SearchFails(r) \/ Matches(r) = {}
  /\ LET s == dep[r].source
     IN  commit' = [commit EXCEPT ![r] =
                      IF dep[r].reference = "tag" THEN Tagged(s) ELSE <<s, head[s]>>]
  /\ Goto(r, "lock_write")
  /\ UNCHANGED <<repos, dirs, locks, dep, spoiled>>

-----------------------------------------------------------------------------
(* Fetch::fetch.                                                           *)

\* Mutant: a reader does not keep a writer out.
LockWriteOverReaders(r) ==
  /\ at[r] = "lock_write"
  /\ writer[Dir(r)] = NoRun
  /\ writer' = [writer EXCEPT ![Dir(r)] = r]
  /\ Goto(r, "exists")
  /\ UNCHANGED <<repos, dirs, readers, dep, commit, spoiled>>

LockWrite(r) ==
  /\ at[r] = "lock_write"
  /\ writer[Dir(r)] = NoRun /\ readers[Dir(r)] = {}
  /\ writer' = [writer EXCEPT ![Dir(r)] = r]
  /\ Goto(r, "exists")
  /\ UNCHANGED <<repos, dirs, readers, dep, commit, spoiled>>

\* The write guard is dropped at the end of its block.
DropGuard(r) ==
  /\ writer' = [writer EXCEPT ![Dir(r)] = NoRun]
  /\ Goto(r, "lock_read")
  /\ UNCHANGED readers

\* A directory that exists is taken for a checkout.
Exists(r) ==
  /\ at[r] = "exists" /\ checkout[Dir(r)] # "absent"
  /\ DropGuard(r)
  /\ UNCHANGED <<repos, dirs, dep, commit, spoiled>>

\* The repository is fetched, offline or not, and HEAD set to the commit, which
\* must be one of the repository's.
FetchRepo(r) ==
  /\ at[r] = "exists" /\ checkout[Dir(r)] = "absent"
  /\ commit[r][1] = dep[r].source
  /\ Goto(r, "create")
  /\ UNCHANGED <<repos, dirs, locks, dep, commit, spoiled>>

\* Mutant: the index is written before the checkout.
CreateDirIndexed(r) ==
  /\ at[r] = "create"
  /\ checkout' = [checkout EXCEPT ![Dir(r)] = "partial"]
  /\ index' = [index EXCEPT ![Dir(r)] = dep[r].reference]
  /\ Goto(r, "checkout")
  /\ UNCHANGED <<repos, locks, dep, commit, spoiled>>

\* Mutant: the write guard is held only while the directory is made.
CreateDirUnlocks(r) ==
  /\ at[r] = "create"
  /\ checkout' = [checkout EXCEPT ![Dir(r)] = "partial"]
  /\ writer' = [writer EXCEPT ![Dir(r)] = NoRun]
  /\ Goto(r, "checkout")
  /\ UNCHANGED <<repos, index, readers, dep, commit, spoiled>>

CreateDir(r) ==
  /\ at[r] = "create"
  /\ checkout' = [checkout EXCEPT ![Dir(r)] = "partial"]
  /\ Goto(r, "checkout")
  /\ UNCHANGED <<repos, index, locks, dep, commit, spoiled>>

\* checkout_head writes all the files.
CheckoutHead(r) ==
  /\ at[r] = "checkout"
  /\ checkout' = [checkout EXCEPT ![Dir(r)] = "full"]
  /\ Goto(r, "index")
  /\ UNCHANGED <<repos, index, locks, dep, commit, spoiled>>

\* fs::write of the index creates the file ...
CreateIndex(r) ==
  /\ at[r] = "index"
  /\ index' = [index EXCEPT ![Dir(r)] = "torn"]
  /\ Goto(r, "write_index")
  /\ UNCHANGED <<repos, checkout, locks, dep, commit, spoiled>>

\* ... and fills it.
WriteIndex(r) ==
  /\ at[r] = "write_index"
  /\ index' = [index EXCEPT ![Dir(r)] = dep[r].reference]
  /\ DropGuard(r)
  /\ UNCHANGED <<repos, checkout, dep, commit, spoiled>>

LockRead(r) ==
  /\ at[r] = "lock_read"
  /\ writer[Dir(r)] = NoRun
  /\ readers' = [readers EXCEPT ![Dir(r)] = @ \cup {r}]
  /\ Goto(r, "find")
  /\ UNCHANGED <<repos, dirs, writer, dep, commit, spoiled>>

\* find_within looks for the manifest.
FindManifest(r) ==
  /\ at[r] = "find"
  /\ readers' = [readers EXCEPT ![Dir(r)] = @ \ {r}]
  /\ Goto(r, "done")
  /\ UNCHANGED <<repos, dirs, writer, dep, commit, spoiled>>

-----------------------------------------------------------------------------
(* How a run ends early.                                                   *)

\* Mutant: the write guard outlives its run.
LeaveLocked(r) ==
  /\ Goto(r, "failed")
  /\ readers' = [d \in Directories |-> readers[d] \ {r}]
  /\ spoiled' = IF at[r] = "checkout" THEN spoiled \cup {Dir(r)} ELSE spoiled
  /\ UNCHANGED <<repos, dirs, writer, dep, commit>>

\* An error is returned, or the run is killed: its guards are dropped.
Leave(r) ==
  /\ Goto(r, "failed")
  /\ writer' = [d \in Directories |-> IF writer[d] = r THEN NoRun ELSE writer[d]]
  /\ readers' = [d \in Directories |-> readers[d] \ {r}]
  /\ spoiled' = IF at[r] = "checkout" THEN spoiled \cup {Dir(r)} ELSE spoiled
  /\ UNCHANGED <<repos, dirs, dep, commit>>

\* Offline with nothing found, or without an answer from the repository.
PinFails(r) ==
  /\ at[r] = "pin"
  /\ Searches(r) => SearchFails(r) \/ Matches(r) = {}
  /\ Leave(r)

\* path_lock cannot make the lock's file, or the lock cannot be taken.
LockFails(r) ==
  /\ at[r] \in {"lock_write", "lock_read"}
  /\ Leave(r)

\* The repository (where the commit may be missing), the directory, the files
\* or the index.
FetchFails(r) ==
  /\ \/ at[r] \in {"create", "checkout", "index", "write_index"}
     \/ at[r] = "exists" /\ checkout[Dir(r)] = "absent"
  /\ Leave(r)

\* A part of a checkout may be without the manifest.
FindFails(r) ==
  /\ at[r] = "find" /\ checkout[Dir(r)] # "full"
  /\ Leave(r)

Kill(r) ==
  /\ r \in Mortal /\ at[r] \notin {"done", "failed"}
  /\ Leave(r)

Step(r) ==
  \/ PinLocally(r) \/ PinRemotely(r) \/ PinFails(r)
  \/ LockWrite(r) \/ Exists(r) \/ FetchRepo(r) \/ CreateDir(r) \/ CheckoutHead(r)
  \/ CreateIndex(r) \/ WriteIndex(r) \/ LockRead(r) \/ FindManifest(r)
  \/ FetchFails(r) \/ FindFails(r)

Next ==
  \/ \E s \in Sources : Push(s)
  \/ \E r \in Runs : Step(r) \/ LockFails(r) \/ Kill(r)

Spec == Init /\ [][Next]_vars

\* Network operations end, well or badly, and a lock that stays free is granted.
\* That a run waiting for a lock gives up is not assumed.
Fairness == \A r \in Runs : WF_vars(Step(r))

FairSpec == Spec /\ Fairness

-----------------------------------------------------------------------------
(* Type invariant of the checkouts, the locks and the runs; a directory is *)
(* never locked for writing and for reading at the same time.              *)
TypeOK ==
  /\ head \in [Sources -> 1..MaxCommits]
  /\ checkout \in [Directories -> {"absent", "partial", "full"}]
  /\ index \in [Directories -> {"none", "torn"} \cup References]
  /\ writer \in [Directories -> Runs \cup {NoRun}]
  /\ readers \in [Directories -> SUBSET Runs]
  /\ \A d \in Directories : writer[d] = NoRun \/ readers[d] = {}
  /\ at \in [Runs -> {"pin", "lock_write", "exists", "create", "checkout", "index",
                      "write_index", "lock_read", "find", "done", "failed"}]
  /\ dep \in [Runs -> Deps]
  /\ commit \in [Runs -> Commits]
  /\ spoiled \subseteq Directories

(* The search for a checkout to pin to takes no lock and goes by the index *)
(* alone: whatever was broken off or killed, an index is found only in a   *)
(* complete checkout.                                                      *)
IndexMeansFull == \A d \in Directories : index[d] # "none" => checkout[d] = "full"

(* What a run reads the manifest from is a complete checkout, unless an    *)
(* earlier checkout of that commit failed or was killed half way.          *)
ReadsWhole == \A r \in Runs : at[r] = "find" => checkout[Dir(r)] = "full" \/ Dir(r) \in spoiled

(* Every run ends: locks are released whatever happens to their owners.    *)
RunsEnd == \A r \in Runs : <>(at[r] \in {"done", "failed"})
=============================================================================
