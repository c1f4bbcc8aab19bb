------------------------ MODULE PidFileLocking_proofs ------------------------
(***************************************************************************)
(* With one language server and any number of checking processes, the flag *)
(* of a file with unsaved changes is visible until the server removes it   *)
(* or dies.                                                                *)
(***************************************************************************)
EXTENDS PidFileLocking, TLAPS

\* Checkers only ever ask, and only servers' pids get into the file.
Asking ==
  /\ \A c \in Checkers : at[c] \in {"idle", "open", "active", "stale", "decide"}
                       /\ op[c] \in {"none", "is_locked"}
  /\ \A p \in Processes : at[p] = "active" => pid[p] \in Servers
  /\ file \in Servers \cup {Absent, Empty}

\* Whoever found the owner dead found every server dead.
StaleMeansDead(s) == \A p \in Processes : At(p, "stale") => s \notin alive

\* The server's handle stays the file until it has written its pid.
HandleKept(s) == At(s, "write") => s \in handle

\* A marked file has the server's pid, and the server is not in a call on it.
Marked(s) == s \in locks => file = s /\ at[s] = "idle" /\ s \in alive

Base == TypeOK /\ Asking

\* What holds of the only server.
One(s) == StaleMeansDead(s) /\ HandleKept(s) /\ Marked(s)

IInv(s) == Base /\ One(s)

-----------------------------------------------------------------------------
(* The types are right at the start.                                       *)
LEMMA InitBase == Init => Base
BY ProcessesAssumption DEF Init, Base, TypeOK, Asking, Processes

(* Every operation on the lock file keeps the types, and the checkers from *)
(* writing.                                                                *)
LEMMA NextBase == Base /\ [Next]_vars => Base'
<1> SUFFICES ASSUME Base, [Next]_vars PROVE Base'
  OBVIOUS
<1> USE ProcessesAssumption DEF Base, TypeOK, Asking, Processes, Goto, At
<1>1. ASSUME NEW p \in Processes, Call(p) PROVE Base'
  BY <1>1 DEF Call, MarkFileAsDirty, RemoveDirtyFlag, IsFileDirty, Begin
<1>2. ASSUME NEW p \in Processes, OpenLock(p) PROVE Base'
  BY <1>2 DEF OpenLock
<1>3. ASSUME NEW p \in Processes, IsPidActive(p) PROVE Base'
  BY <1>3 DEF IsPidActive
<1>4. ASSUME NEW p \in Processes, RemoveStale(p) PROVE Base'
  BY <1>4 DEF RemoveStale, Unlink
<1>5. ASSUME NEW p \in Processes, Decide(p) PROVE Base'
  BY <1>5 DEF Decide
<1>6. ASSUME NEW p \in Processes, RemoveFile(p) PROVE Base'
  BY <1>6 DEF RemoveFile, Unlink
<1>7. ASSUME NEW p \in Processes, CreateFile(p) PROVE Base'
  BY <1>7 DEF CreateFile
<1>8. ASSUME NEW p \in Processes, WritePid(p) PROVE Base'
  BY <1>8 DEF WritePid
<1>9. ASSUME NEW p \in Processes, Kill(p) PROVE Base'
  BY <1>9 DEF Kill
<1>10. CASE UNCHANGED vars
  BY <1>10 DEF vars
<1> QED BY <1>1, <1>2, <1>3, <1>4, <1>5, <1>6, <1>7, <1>8, <1>9, <1>10 DEF Next, Step

(* The lock file, the maps and the processes always have their types, for  *)
(* every set of servers and checkers.                                      *)
THEOREM TypeCorrect == Spec => []TypeOK
<1>1. Base => TypeOK
  BY DEF Base
<1> QED BY <1>1, InitBase, NextBase, PTL DEF Spec

-----------------------------------------------------------------------------
(* With one server, every operation keeps the flag visible.                *)
LEMMA NextIInv ==
  ASSUME NEW s, Servers = {s} PROVE IInv(s) /\ [Next]_vars => IInv(s)'
<1> SUFFICES ASSUME IInv(s), [Next]_vars PROVE IInv(s)'
  OBVIOUS
<1>0. Base'
  BY NextBase DEF IInv
<1>a. /\ at \in [Processes -> {"idle", "open", "active", "stale", "decide", "remove", "create", "write"}]
      /\ s \in Processes /\ pid \in [Processes -> Processes \cup {Absent}]
      /\ \A p \in Processes \ {s} : at[p] \in {"idle", "open", "active", "stale", "decide"}
  BY DEF IInv, Base, TypeOK, Asking, Processes
<1> USE DEF One, StaleMeansDead, HandleKept, Marked, Goto, At
<1>1. ASSUME NEW p \in Processes, Call(p) PROVE One(s)'
  <2>1. /\ At(p, "idle") /\ at' = [at EXCEPT ![p] = "open"]
        /\ UNCHANGED <<file, handle, alive, pid>>
        /\ locks' \subseteq locks /\ (p = s => s \notin locks')
    BY <1>1, ProcessesAssumption DEF IInv, Base, TypeOK, Call, MarkFileAsDirty, RemoveDirtyFlag, IsFileDirty, Begin
  <2> QED BY <2>1, <1>a DEF IInv
<1>2. ASSUME NEW p \in Processes, OpenLock(p) PROVE One(s)'
  BY <1>2, <1>a DEF IInv, OpenLock
<1>3. ASSUME NEW p \in Processes, IsPidActive(p) PROVE One(s)'
  BY <1>3, <1>a DEF IInv, Base, Asking, IsPidActive
<1>4. ASSUME NEW p \in Processes, RemoveStale(p) PROVE One(s)'
  BY <1>4, <1>a DEF IInv, RemoveStale, Unlink
<1>5. ASSUME NEW p \in Processes, Decide(p) PROVE One(s)'
  BY <1>5, <1>a DEF IInv, Decide
<1>6. ASSUME NEW p \in Processes, RemoveFile(p) PROVE One(s)'
  BY <1>6, <1>a DEF IInv, RemoveFile, Unlink
<1>7. ASSUME NEW p \in Processes, CreateFile(p) PROVE One(s)'
  BY <1>7, <1>a DEF IInv, CreateFile
<1>8. ASSUME NEW p \in Processes, WritePid(p) PROVE One(s)'
  BY <1>8, <1>a DEF IInv, WritePid
<1>9. ASSUME NEW p \in Processes, Kill(p) PROVE One(s)'
  BY <1>9, <1>a DEF IInv, Kill
<1>10. ASSUME UNCHANGED vars PROVE One(s)'
  <2>1. UNCHANGED <<file, handle, alive, locks, at>>
    BY <1>10 DEF vars
  <2> QED BY <2>1 DEF IInv
<1> HIDE DEF One
<1>11. One(s)'
  BY <1>1, <1>2, <1>3, <1>4, <1>5, <1>6, <1>7, <1>8, <1>9, <1>10 DEF Next, Step
<1> QED BY <1>0, <1>11 DEF IInv

(* With one server, the file it has marked as dirty has its pid in the     *)
(* lock file, however many processes check the flag at whatever moment.    *)
THEOREM DirtyAlwaysVisible ==
  ASSUME NEW s, Servers = {s} PROVE Spec => []DirtyVisible
<1>1. Init => IInv(s)
  BY InitBase DEF Init, IInv, One, StaleMeansDead, HandleKept, Marked, At, Processes
<1>2. IInv(s) /\ [Next]_vars => IInv(s)'
  BY NextIInv
<1>3. IInv(s) => DirtyVisible
  BY DEF IInv, Base, TypeOK, One, Marked, DirtyVisible
<1> QED BY <1>1, <1>2, <1>3, PTL DEF Spec
=============================================================================
