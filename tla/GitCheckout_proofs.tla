-------------------------- MODULE GitCheckout_proofs --------------------------
(***************************************************************************)
(* Proofs about GitCheckout, for every set of runs, of sources and of      *)
(* prefixes among their names.                                             *)
(***************************************************************************)
EXTENDS GitCheckout, TLAPS

\* The places at which a run has the write guard.
Writing == {"exists", "create", "checkout", "index", "write_index"}

Guarded == \A r \in Runs : at[r] \in Writing => writer[Dir(r)] = r

\* What the writer of a directory knows of it.
InStep ==
  \A r \in Runs :
    /\ at[r] = "create" => checkout[Dir(r)] = "absent"
    /\ at[r] = "checkout" => checkout[Dir(r)] = "partial"
    /\ at[r] \in {"index", "write_index"} => checkout[Dir(r)] = "full"

\* A part of a checkout is being completed or was given up.
PartialOwned ==
  \A d \in Directories :
    checkout[d] = "partial" => d \in spoiled \/ \E r \in Runs : at[r] = "checkout" /\ Dir(r) = d

Readable ==
  \A r \in Runs :
    at[r] \in {"lock_read", "find"} => checkout[Dir(r)] = "full" \/ Dir(r) \in spoiled

IInv == TypeOK /\ Guarded /\ InStep /\ PartialOwned /\ Readable /\ IndexMeansFull

(* The directory of a run is one of the directories.                       *)
LEMMA DirType == TypeOK => \A r \in Runs : Dir(r) \in Directories
  BY DEF TypeOK, Dir, Directories, Deps

(* A step that keeps the dependency and the commit keeps the directory.    *)
LEMMA DirKept == UNCHANGED <<dep, commit>> => \A r \in Runs : Dir(r)' = Dir(r)
  BY DEF Dir

(* All is well before any run starts.                                      *)
LEMMA InitIInv == Init => IInv
<1> SUFFICES ASSUME Init PROVE IInv
  OBVIOUS
<1>1. \A r \in Runs : commit[r] \in Commits
  BY MaxCommitsAssumption DEF Init, Tagged, Commits, Deps
<1>2. commit \in [Runs -> Commits]
  BY <1>1 DEF Init
<1>3. head \in [Sources -> 1..MaxCommits]
  BY MaxCommitsAssumption DEF Init
<1>4. TypeOK
  BY <1>2, <1>3 DEF Init, TypeOK
<1>5. Guarded /\ InStep /\ Readable
  BY DEF Init, Guarded, InStep, Readable, Writing
<1>6. PartialOwned /\ IndexMeansFull
  BY DEF Init, PartialOwned, IndexMeansFull
<1> QED
  BY <1>4, <1>5, <1>6 DEF IInv

(* New commits concern no directory.                                       *)
LEMMA PushIInv ==
  ASSUME IInv, NEW s \in Sources, Push(s)
  PROVE  IInv'
<1>1. head' \in [Sources -> 1..MaxCommits]
  BY MaxCommitsAssumption DEF IInv, TypeOK, Push
<1>2. UNCHANGED <<checkout, index, writer, readers, at, dep, commit, spoiled>>
  BY DEF Push, dirs, locks
<1>3. TypeOK'
  BY <1>1, <1>2 DEF IInv, TypeOK
<1> QED
  BY <1>2, <1>3
  DEF IInv, Guarded, InStep, PartialOwned, Readable, IndexMeansFull, Dir

(* A run that pins gets a commit and goes to lock its directory.           *)
LEMMA PinIInv ==
  ASSUME IInv, NEW r \in Runs, PinLocally(r) \/ PinRemotely(r)
  PROVE  IInv'
<1>1. /\ at[r] = "pin" /\ at' = [at EXCEPT ![r] = "lock_write"]
      /\ UNCHANGED <<head, checkout, index, writer, readers, dep, spoiled>>
  BY DEF PinLocally, PinRemotely, Goto, repos, dirs, locks
<1>2. PICK c \in Commits : commit' = [commit EXCEPT ![r] = c]
  <2>1. CASE PinLocally(r)
    <3>1. PICK d \in Matches(r) : commit' = [commit EXCEPT ![r] = d[2]]
      BY <2>1, Zenon DEF PinLocally
    <3>2. d \in Directories
      BY <3>1 DEF Matches, Found, Searched
    <3>3. d[2] \in Commits
      BY <3>2 DEF Directories
    <3> QED
      BY <3>1, <3>3, Zenon
  <2>2. CASE PinRemotely(r)
    <3>1. dep[r].source \in Sources
      BY DEF IInv, TypeOK, Deps
    <3>2. head[dep[r].source] \in 1..MaxCommits
      BY <3>1 DEF IInv, TypeOK
    <3>3. <<dep[r].source, head[dep[r].source]>> \in Commits /\ Tagged(dep[r].source) \in Commits
      BY <3>1, <3>2, MaxCommitsAssumption DEF Commits, Tagged
    <3> QED
      BY <2>2, <3>3, Zenon DEF PinRemotely
  <2> QED
    BY <2>1, <2>2
<1>3. TypeOK'
  BY <1>1, <1>2 DEF IInv, TypeOK
<1>4. \A q \in Runs : q # r => at'[q] = at[q] /\ Dir(q)' = Dir(q)
  BY <1>1, <1>2 DEF IInv, TypeOK, Dir
<1>5. at'[r] = "lock_write"
  BY <1>1 DEF IInv, TypeOK
<1>6. Guarded' /\ InStep' /\ Readable'
  BY <1>1, <1>4, <1>5 DEF IInv, Guarded, InStep, Readable, Writing
<1>7. PartialOwned'
  BY <1>1, <1>4 DEF IInv, PartialOwned
<1>8. IndexMeansFull'
  BY <1>1 DEF IInv, IndexMeansFull
<1> QED
  BY <1>3, <1>6, <1>7, <1>8 DEF IInv

(* The write guard is taken only when nobody has a guard.                  *)
LEMMA LockWriteIInv ==
  ASSUME IInv, NEW r \in Runs, LockWrite(r)
  PROVE  IInv'
<1>1. /\ at[r] = "lock_write" /\ at' = [at EXCEPT ![r] = "exists"]
      /\ writer[Dir(r)] = NoRun /\ readers[Dir(r)] = {}
      /\ writer' = [writer EXCEPT ![Dir(r)] = r]
      /\ UNCHANGED <<head, checkout, index, readers, dep, commit, spoiled>>
  BY DEF LockWrite, Goto, repos, dirs
<1>2. \A q \in Runs : Dir(q) \in Directories /\ Dir(q)' = Dir(q)
  BY <1>1, DirType, DirKept DEF IInv
<1>3. TypeOK'
  BY <1>1, <1>2 DEF IInv, TypeOK
<1>4. Guarded'
  BY <1>1, <1>2, RunsAssumption DEF IInv, TypeOK, Guarded, Writing
<1>5. InStep' /\ Readable'
  BY <1>1, <1>2 DEF IInv, TypeOK, InStep, Readable
<1>6. PartialOwned' /\ IndexMeansFull'
  BY <1>1, <1>2 DEF IInv, TypeOK, PartialOwned, IndexMeansFull
<1> QED
  BY <1>3, <1>4, <1>5, <1>6 DEF IInv

(* A directory that exists is complete or spoiled when nobody else can be  *)
(* at work on it.                                                          *)
LEMMA ExistsIInv ==
  ASSUME IInv, NEW r \in Runs, Exists(r)
  PROVE  IInv'
<1>1. /\ at[r] = "exists" /\ at' = [at EXCEPT ![r] = "lock_read"]
      /\ checkout[Dir(r)] # "absent"
      /\ writer' = [writer EXCEPT ![Dir(r)] = NoRun]
      /\ UNCHANGED <<head, checkout, index, readers, dep, commit, spoiled>>
  BY DEF Exists, DropGuard, Goto, repos, dirs
<1>2. \A q \in Runs : Dir(q) \in Directories /\ Dir(q)' = Dir(q)
  BY <1>1, DirType, DirKept DEF IInv
<1>3. TypeOK'
  BY <1>1, <1>2 DEF IInv, TypeOK
<1>4. writer[Dir(r)] = r
  BY <1>1 DEF IInv, Guarded, Writing
<1>5. \A q \in Runs : q # r /\ at[q] \in Writing => Dir(q) # Dir(r)
  BY <1>4 DEF IInv, Guarded
<1>6. Guarded'
  BY <1>1, <1>2, <1>5 DEF IInv, TypeOK, Guarded, Writing
<1>7. checkout[Dir(r)] = "full" \/ Dir(r) \in spoiled
  <2>1. checkout[Dir(r)] \in {"partial", "full"}
    BY <1>1, <1>2 DEF IInv, TypeOK
  <2>2. \A q \in Runs : at[q] = "checkout" => Dir(q) # Dir(r)
    BY <1>1, <1>5 DEF Writing
  <2> QED
    BY <1>2, <2>1, <2>2 DEF IInv, PartialOwned
<1>8. InStep' /\ Readable'
  BY <1>1, <1>2, <1>7 DEF IInv, TypeOK, InStep, Readable
<1>9. PartialOwned' /\ IndexMeansFull'
  BY <1>1, <1>2 DEF IInv, TypeOK, PartialOwned, IndexMeansFull
<1> QED
  BY <1>3, <1>6, <1>8, <1>9 DEF IInv

(* The repository is fetched into a directory no other run uses.           *)
LEMMA FetchRepoIInv ==
  ASSUME IInv, NEW r \in Runs, FetchRepo(r)
  PROVE  IInv'
<1>1. /\ at[r] = "exists" /\ at' = [at EXCEPT ![r] = "create"]
      /\ checkout[Dir(r)] = "absent"
      /\ UNCHANGED <<head, checkout, index, writer, readers, dep, commit, spoiled>>
  BY DEF FetchRepo, Goto, repos, dirs, locks
<1>2. \A q \in Runs : Dir(q)' = Dir(q)
  BY <1>1, DirKept
<1>3. TypeOK'
  BY <1>1 DEF IInv, TypeOK
<1>4. Guarded' /\ InStep' /\ Readable'
  BY <1>1, <1>2 DEF IInv, TypeOK, Guarded, InStep, Readable, Writing
<1>5. PartialOwned' /\ IndexMeansFull'
  BY <1>1, <1>2 DEF IInv, TypeOK, PartialOwned, IndexMeansFull
<1> QED
  BY <1>3, <1>4, <1>5 DEF IInv

(* The writer of a directory is the only run that counts on its state.     *)
LEMMA SoleWriter ==
  ASSUME IInv, NEW r \in Runs, at[r] \in Writing
  PROVE  \A q \in Runs : q # r /\ at[q] \in Writing => Dir(q) # Dir(r)
  BY DEF IInv, Guarded

(* The directory is made: no reader and no index had it.                   *)
LEMMA CreateDirIInv ==
  ASSUME IInv, NEW r \in Runs, CreateDir(r)
  PROVE  IInv'
<1>1. /\ at[r] = "create" /\ at' = [at EXCEPT ![r] = "checkout"]
      /\ checkout' = [checkout EXCEPT ![Dir(r)] = "partial"]
      /\ UNCHANGED <<head, index, writer, readers, dep, commit, spoiled>>
  BY DEF CreateDir, Goto, repos, locks
<1>2. \A q \in Runs : Dir(q) \in Directories /\ Dir(q)' = Dir(q)
  BY <1>1, DirType, DirKept DEF IInv
<1>3. TypeOK'
  BY <1>1, <1>2 DEF IInv, TypeOK
<1>4. \A q \in Runs : q # r /\ at[q] \in Writing => Dir(q) # Dir(r)
  BY <1>1, SoleWriter DEF Writing
<1>5. checkout[Dir(r)] = "absent"
  BY <1>1 DEF IInv, InStep
<1>6. Guarded'
  BY <1>1, <1>2 DEF IInv, TypeOK, Guarded, Writing
<1>7. InStep'
  BY <1>1, <1>2, <1>4 DEF IInv, TypeOK, InStep, Writing
<1>8. Readable'
  BY <1>1, <1>2, <1>5 DEF IInv, TypeOK, Readable
<1>9. PartialOwned'
  <2> SUFFICES ASSUME NEW d \in Directories, checkout'[d] = "partial"
               PROVE  d \in spoiled' \/ \E q \in Runs : at'[q] = "checkout" /\ Dir(q)' = d
    BY DEF PartialOwned
  <2>1. CASE d = Dir(r)
    BY <1>1, <1>2, <2>1 DEF IInv, TypeOK
  <2>2. CASE d # Dir(r)
    BY <1>1, <1>2, <2>2 DEF IInv, TypeOK, PartialOwned
  <2> QED
    BY <2>1, <2>2
<1>10. IndexMeansFull'
  BY <1>1, <1>2, <1>5 DEF IInv, TypeOK, IndexMeansFull
<1> QED
  BY <1>3, <1>6, <1>7, <1>8, <1>9, <1>10 DEF IInv

(* The checkout is complete.                                               *)
LEMMA CheckoutHeadIInv ==
  ASSUME IInv, NEW r \in Runs, CheckoutHead(r)
  PROVE  IInv'
<1>1. /\ at[r] = "checkout" /\ at' = [at EXCEPT ![r] = "index"]
      /\ checkout' = [checkout EXCEPT ![Dir(r)] = "full"]
      /\ UNCHANGED <<head, index, writer, readers, dep, commit, spoiled>>
  BY DEF CheckoutHead, Goto, repos, locks
<1>2. \A q \in Runs : Dir(q) \in Directories /\ Dir(q)' = Dir(q)
  BY <1>1, DirType, DirKept DEF IInv
<1>3. TypeOK'
  BY <1>1, <1>2 DEF IInv, TypeOK
<1>4. \A q \in Runs : q # r /\ at[q] \in Writing => Dir(q) # Dir(r)
  BY <1>1, SoleWriter DEF Writing
<1>5. Guarded'
  BY <1>1, <1>2 DEF IInv, TypeOK, Guarded, Writing
<1>6. InStep'
  BY <1>1, <1>2, <1>4 DEF IInv, TypeOK, InStep, Writing
<1>7. Readable'
  BY <1>1, <1>2 DEF IInv, TypeOK, Readable
<1>8. PartialOwned'
  BY <1>1, <1>2 DEF IInv, TypeOK, PartialOwned
<1>9. IndexMeansFull'
  BY <1>1, <1>2 DEF IInv, TypeOK, IndexMeansFull
<1> QED
  BY <1>3, <1>5, <1>6, <1>7, <1>8, <1>9 DEF IInv

(* The index is made and written in a complete checkout.                   *)
LEMMA IndexIInv ==
  ASSUME IInv, NEW r \in Runs, CreateIndex(r) \/ WriteIndex(r)
  PROVE  IInv'
<1>1. at[r] \in {"index", "write_index"} /\ at[r] \in Writing
  BY DEF CreateIndex, WriteIndex, Writing
<1>2. PICK i \in {"torn"} \cup References : index' = [index EXCEPT ![Dir(r)] = i]
  BY Zenon DEF CreateIndex, WriteIndex, IInv, TypeOK, Deps
<1>3. UNCHANGED <<head, checkout, readers, dep, commit, spoiled>>
  BY DEF CreateIndex, WriteIndex, DropGuard, repos, locks
<1>4. \A q \in Runs : Dir(q) \in Directories /\ Dir(q)' = Dir(q)
  BY <1>3, DirType, DirKept DEF IInv
<1>5. checkout[Dir(r)] = "full"
  BY <1>1 DEF IInv, InStep
<1>6. IndexMeansFull'
  BY <1>2, <1>3, <1>4, <1>5 DEF IInv, TypeOK, IndexMeansFull
<1>7. \A q \in Runs : q # r /\ at[q] \in Writing => Dir(q) # Dir(r)
  BY <1>1, SoleWriter
<1>8. index' \in [Directories -> {"none", "torn"} \cup References]
  BY <1>2, <1>4 DEF IInv, TypeOK
<1>9. CASE CreateIndex(r)
  <2>1. at' = [at EXCEPT ![r] = "write_index"] /\ UNCHANGED writer
    BY <1>9 DEF CreateIndex, Goto, locks
  <2>2. TypeOK'
    BY <1>3, <1>8, <2>1 DEF IInv, TypeOK
  <2>3. Guarded' /\ InStep' /\ Readable'
    BY <1>1, <1>3, <1>4, <1>5, <2>1 DEF IInv, TypeOK, Guarded, InStep, Readable, Writing
  <2>4. PartialOwned'
    BY <1>1, <1>3, <1>4, <2>1 DEF IInv, TypeOK, PartialOwned
  <2> QED
    BY <1>6, <2>2, <2>3, <2>4 DEF IInv
<1>10. CASE WriteIndex(r)
  <2>1. /\ at' = [at EXCEPT ![r] = "lock_read"]
        /\ writer' = [writer EXCEPT ![Dir(r)] = NoRun]
    BY <1>10 DEF WriteIndex, DropGuard, Goto
  <2>2. TypeOK'
    BY <1>3, <1>4, <1>8, <2>1 DEF IInv, TypeOK
  <2>3. Guarded'
    BY <1>3, <1>4, <1>7, <2>1 DEF IInv, TypeOK, Guarded, Writing
  <2>4. InStep' /\ Readable'
    BY <1>1, <1>3, <1>4, <1>5, <2>1 DEF IInv, TypeOK, InStep, Readable
  <2>5. PartialOwned'
    BY <1>1, <1>3, <1>4, <2>1 DEF IInv, TypeOK, PartialOwned
  <2> QED
    BY <1>6, <2>2, <2>3, <2>4, <2>5 DEF IInv
<1> QED
  BY <1>9, <1>10

(* Readers come when no writer is there, and change nothing.               *)
LEMMA ReadIInv ==
  ASSUME IInv, NEW r \in Runs, LockRead(r) \/ FindManifest(r)
  PROVE  IInv'
<1>1. UNCHANGED <<head, checkout, index, writer, dep, commit, spoiled>>
  BY DEF LockRead, FindManifest, repos, dirs
<1>2. \A q \in Runs : Dir(q) \in Directories /\ Dir(q)' = Dir(q)
  BY <1>1, DirType, DirKept DEF IInv
<1>3. PICK place \in {"find", "done"} :
        /\ at' = [at EXCEPT ![r] = place]
        /\ place = "find" => at[r] = "lock_read"
  BY DEF LockRead, FindManifest, Goto
<1>4. at[r] \in {"lock_read", "find"}
  BY DEF LockRead, FindManifest
<1>5. readers' \in [Directories -> SUBSET Runs]
  BY <1>2 DEF IInv, TypeOK, LockRead, FindManifest
<1>6. \A d \in Directories : writer'[d] = NoRun \/ readers'[d] = {}
  <2>1. CASE LockRead(r)
    BY <1>1, <1>2, <2>1 DEF IInv, TypeOK, LockRead
  <2>2. CASE FindManifest(r)
    BY <1>1, <1>2, <2>2 DEF IInv, TypeOK, FindManifest
  <2> QED
    BY <2>1, <2>2
<1>7. TypeOK'
  BY <1>1, <1>3, <1>5, <1>6 DEF IInv, TypeOK
<1>8. Guarded' /\ InStep' /\ Readable'
  BY <1>1, <1>2, <1>3 DEF IInv, TypeOK, Guarded, InStep, Readable, Writing
<1>9. PartialOwned' /\ IndexMeansFull'
  BY <1>1, <1>2, <1>3, <1>4 DEF IInv, TypeOK, PartialOwned, IndexMeansFull
<1> QED
  BY <1>7, <1>8, <1>9 DEF IInv

(* Wherever a run ends early, it leaves no guard behind, and the directory *)
(* it was filling counts as spoiled.                                       *)
LEMMA LeaveIInv ==
  ASSUME IInv, NEW r \in Runs, Leave(r)
  PROVE  IInv'
<1>1. /\ at' = [at EXCEPT ![r] = "failed"]
      /\ writer' = [d \in Directories |-> IF writer[d] = r THEN NoRun ELSE writer[d]]
      /\ readers' = [d \in Directories |-> readers[d] \ {r}]
      /\ spoiled' = IF at[r] = "checkout" THEN spoiled \cup {Dir(r)} ELSE spoiled
      /\ UNCHANGED <<head, checkout, index, dep, commit>>
  BY DEF Leave, Goto, repos, dirs
<1>2. \A q \in Runs : Dir(q) \in Directories /\ Dir(q)' = Dir(q)
  BY <1>1, DirType, DirKept DEF IInv
<1>3. spoiled \subseteq spoiled' /\ spoiled' \subseteq Directories
  BY <1>1, <1>2 DEF IInv, TypeOK
<1>4. TypeOK'
  BY <1>1, <1>3 DEF IInv, TypeOK
<1>5. Guarded'
  BY <1>1, <1>2 DEF IInv, TypeOK, Guarded, Writing
<1>6. InStep'
  BY <1>1, <1>2 DEF IInv, TypeOK, InStep
<1>7. Readable'
  BY <1>1, <1>2, <1>3 DEF IInv, TypeOK, Readable
<1>8. PartialOwned'
  <2> SUFFICES ASSUME NEW d \in Directories, checkout'[d] = "partial"
               PROVE  d \in spoiled' \/ \E q \in Runs : at'[q] = "checkout" /\ Dir(q)' = d
    BY DEF PartialOwned
  <2>1. CASE d \in spoiled
    BY <1>3, <2>1
  <2>2. CASE d \notin spoiled
    <3>1. PICK q \in Runs : at[q] = "checkout" /\ Dir(q) = d
      BY <1>1, <2>2 DEF IInv, PartialOwned
    <3>2. CASE q = r
      BY <1>1, <3>1, <3>2
    <3>3. CASE q # r
      BY <1>1, <1>2, <3>1, <3>3 DEF IInv, TypeOK
    <3> QED
      BY <3>2, <3>3
  <2> QED
    BY <2>1, <2>2
<1>9. IndexMeansFull'
  BY <1>1 DEF IInv, IndexMeansFull
<1> QED
  BY <1>4, <1>5, <1>6, <1>7, <1>8, <1>9 DEF IInv

(* Every step preserves the invariant.                                     *)
LEMMA NextIInv == IInv /\ [Next]_vars => IInv'
<1> SUFFICES ASSUME IInv, [Next]_vars PROVE IInv'
  OBVIOUS
<1>1. CASE \E s \in Sources : Push(s)
  BY <1>1, PushIInv
<1>2. ASSUME NEW r \in Runs, Step(r) PROVE IInv'
  <2>1. CASE PinLocally(r) \/ PinRemotely(r)
    BY <2>1, PinIInv
  <2>2. CASE LockWrite(r)
    BY <2>2, LockWriteIInv
  <2>3. CASE Exists(r)
    BY <2>3, ExistsIInv
  <2>4. CASE FetchRepo(r)
    BY <2>4, FetchRepoIInv
  <2>5. CASE CreateDir(r)
    BY <2>5, CreateDirIInv
  <2>6. CASE CheckoutHead(r)
    BY <2>6, CheckoutHeadIInv
  <2>7. CASE CreateIndex(r) \/ WriteIndex(r)
    BY <2>7, IndexIInv
  <2>8. CASE LockRead(r) \/ FindManifest(r)
    BY <2>8, ReadIInv
  <2>9. CASE PinFails(r) \/ FetchFails(r) \/ FindFails(r)
    BY <2>9, LeaveIInv DEF PinFails, FetchFails, FindFails
  <2> QED
    BY <1>2, <2>1, <2>2, <2>3, <2>4, <2>5, <2>6, <2>7, <2>8, <2>9 DEF Step
<1>3. ASSUME NEW r \in Runs, LockFails(r) \/ Kill(r) PROVE IInv'
  BY <1>3, LeaveIInv DEF LockFails, Kill
<1>4. CASE UNCHANGED vars
  BY <1>4
  DEF vars, repos, dirs, locks, IInv, TypeOK, Guarded, InStep, PartialOwned, Readable,
      IndexMeansFull, Dir
<1> QED
  BY <1>1, <1>2, <1>3, <1>4 DEF Next

(* The checkouts, indexes, locks and runs keep their types, and no         *)
(* directory is ever locked for writing and reading at once, for any       *)
(* number of runs, whichever of them are killed.                           *)
THEOREM TypeCorrect == Spec => []TypeOK
<1>1. IInv => TypeOK
  BY DEF IInv
<1> QED
  BY <1>1, InitIInv, NextIInv, PTL DEF Spec

(* search_source_locally finds an index only in a complete checkout, for   *)
(* any number of runs, whichever of them fail or are killed.               *)
THEOREM IndexedIsFull == Spec => []IndexMeansFull
<1>1. IInv => IndexMeansFull
  BY DEF IInv
<1> QED
  BY <1>1, InitIInv, NextIInv, PTL DEF Spec

(* Fetch::fetch reads the manifest from a complete checkout, unless a      *)
(* checkout of the same commit was broken off before.                      *)
THEOREM WholeIsRead == Spec => []ReadsWhole
<1>1. IInv => ReadsWhole
  BY DEF IInv, Readable, ReadsWhole
<1> QED
  BY <1>1, InitIInv, NextIInv, PTL DEF Spec
=============================================================================
