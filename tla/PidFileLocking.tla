--------------------------- MODULE PidFileLocking ----------------------------
(***************************************************************************)
(* The "dirty" flag of a file with unsaved changes: a lock file that holds *)
(* the pid of the language server that has the changes (PidFileLocking of  *)
(* forc-util, PidLockedFiles of sway-lsp).  forc-fmt and forc-migrate ask  *)
(* is_file_dirty before they rewrite the file.  The processes share one    *)
(* path and nothing else: every file operation is a step of its own.       *)
(***************************************************************************)
EXTENDS Naturals, FiniteSets

CONSTANTS
  Servers,    \* processes that mark and unmark the file
  Checkers,   \* processes that ask whether it is dirty
  Mortal,     \* processes that may be killed
  Absent,     \* there is no lock file
  Empty       \* the lock file was created and not written yet

Processes == Servers \cup Checkers

ASSUME ProcessesAssumption ==
  /\ Servers \cap Checkers = {} /\ Mortal \subseteq Processes
  /\ Absent \notin Processes \cup {Empty} /\ Empty \notin Processes

VARIABLES
  file,       \* the lock file: Absent, Empty or the pid in it
  handle,     \* the processes whose open handle is the file at the path
  alive,      \* the running processes
  locks,      \* the servers that have the file in their map of locks
  at,         \* per process: the next file operation
  op,         \* per process: the call it is in
  pid         \* per process: the pid it read, or Absent

vars == <<file, handle, alive, locks, at, op, pid>>

Init ==
  /\ file = Absent
  /\ handle = {}
  /\ alive = Processes
  /\ locks = {}
  /\ at = [p \in Processes |-> "idle"]
  /\ op = [p \in Processes |-> "none"]
  /\ pid = [p \in Processes |-> Absent]

Goto(p, place) == at' = [at EXCEPT ![p] = place]

At(p, place) == p \in alive /\ at[p] = place

Begin(p, call) ==
  /\ At(p, "idle")
  /\ op' = [op EXCEPT ![p] = call]
  /\ Goto(p, "open")
  /\ UNCHANGED <<file, handle, alive, pid>>

\* mark_file_as_dirty: nothing to do if the server has locked the file.
MarkFileAsDirty(s) == s \in Servers \ locks /\ Begin(s, "lock") /\ locks' = locks

\* remove_dirty_flag: the map forgets the lock before it is released.
RemoveDirtyFlag(s) == s \in locks /\ Begin(s, "release") /\ locks' = locks \ {s}

IsFileDirty(c) == c \in Checkers /\ Begin(c, "is_locked") /\ locks' = locks

\* Mutant: an empty file is taken for a pid.
OpenLockUnparsed(p) ==
  /\ At(p, "open")
  /\ pid' = [pid EXCEPT ![p] = file]
  /\ Goto(p, IF file = Absent THEN "decide" ELSE "active")
  /\ UNCHANGED <<file, handle, alive, locks, op>>

\* get_locker_pid reads the file; what does not parse is no pid ...
OpenLock(p) ==
  /\ At(p, "open")
  /\ pid' = [pid EXCEPT ![p] = IF file = Empty THEN Absent ELSE file]
  /\ Goto(p, IF file \in {Absent, Empty} THEN "decide" ELSE "active")
  /\ UNCHANGED <<file, handle, alive, locks, op>>

\* Mutant: ps lists nothing.
IsPidActiveNever(p) == At(p, "active") /\ Goto(p, "stale") /\ UNCHANGED <<file, handle, alive, locks, op, pid>>

\* Mutant: ps lists every process.
IsPidActiveAlways(p) == At(p, "active") /\ Goto(p, "decide") /\ UNCHANGED <<file, handle, alive, locks, op, pid>>

\* ... asks ps whether that process runs ...
IsPidActive(p) ==
  /\ At(p, "active")
  /\ Goto(p, IF pid[p] \in alive THEN "decide" ELSE "stale")
  /\ UNCHANGED <<file, handle, alive, locks, op, pid>>

\* Handles that were open when the path is removed are no longer the file.
Unlink == file' = Absent /\ handle' = {}

\* ... and removes the file if it does not.
RemoveStale(p) ==
  /\ At(p, "stale")
  /\ Unlink
  /\ pid' = [pid EXCEPT ![p] = Absent]
  /\ Goto(p, "decide")
  /\ UNCHANGED <<alive, locks, op>>

\* is_locked: some other process is the owner.
Locked(p) == pid[p] \notin {Absent, p}

\* is_locked returns; release fails if locked, and looks the pid up once more
\* for its error message.
Decide(p) ==
  /\ At(p, "decide")
  /\ \/ /\ op[p] \in {"is_locked", "report"}
        /\ Goto(p, "idle") /\ op' = op
     \/ /\ op[p] \in {"lock", "release"} /\ Locked(p)
        /\ Goto(p, "open") /\ op' = [op EXCEPT ![p] = "report"]
     \/ /\ op[p] \in {"lock", "release"} /\ ~Locked(p)
        /\ Goto(p, "remove") /\ op' = op
  /\ UNCHANGED <<file, handle, alive, locks, pid>>

\* release removes the file; lock goes on.
RemoveFile(p) ==
  /\ At(p, "remove")
  /\ Unlink
  /\ Goto(p, IF op[p] = "lock" THEN "create" ELSE "idle")
  /\ UNCHANGED <<alive, locks, op, pid>>

\* File::create truncates the file at the path or makes a new one.
CreateFile(p) ==
  /\ At(p, "create")
  /\ file' = Empty
  /\ handle' = handle \cup {p}
  /\ Goto(p, "write")
  /\ UNCHANGED <<alive, locks, op, pid>>

\* write_all goes to the handle's file; the map remembers the lock.
WritePid(p) ==
  /\ At(p, "write")
  /\ file' = IF p \in handle THEN p ELSE file
  /\ handle' = handle \ {p}
  /\ locks' = locks \cup {p}
  /\ Goto(p, "idle")
  /\ UNCHANGED <<alive, op, pid>>

\* A process is killed wherever it is.
Kill(p) ==
  /\ p \in alive \cap Mortal
  /\ alive' = alive \ {p}
  /\ locks' = locks \ {p}
  /\ handle' = handle \ {p}
  /\ UNCHANGED <<file, at, op, pid>>

Step(p) ==
  \/ OpenLock(p) \/ IsPidActive(p) \/ RemoveStale(p) \/ Decide(p)
  \/ RemoveFile(p) \/ CreateFile(p) \/ WritePid(p)

Call(p) == MarkFileAsDirty(p) \/ RemoveDirtyFlag(p) \/ IsFileDirty(p)

Next == \E p \in Processes : Call(p) \/ Step(p) \/ Kill(p)

\* A call that is running goes on; nobody has to call.
Fairness == \A p \in Processes : WF_vars(Step(p))

Spec == Init /\ [][Next]_vars
FairSpec == Spec /\ Fairness

-----------------------------------------------------------------------------
(* Type invariant of the lock file and the processes' places in a call;    *)
(* only a running server has a lock in its map.                            *)
TypeOK ==
  /\ file \in Processes \cup {Absent, Empty}
  /\ handle \subseteq Servers
  /\ alive \subseteq Processes
  /\ locks \subseteq Servers \cap alive
  /\ at \in [Processes ->
       {"idle", "open", "active", "stale", "decide", "remove", "create", "write"}]
  /\ op \in [Processes -> {"none", "lock", "release", "is_locked", "report"}]
  /\ pid \in [Processes -> Processes \cup {Absent}]

(* While a server has a file marked as dirty, the lock file says so: with  *)
(* one server, no check by forc-fmt or forc-migrate takes the flag away.   *)
DirtyVisible == \A s \in locks : file = s

(* "This struct will self-heal if the process that locked the file is no   *)
(* longer running": a check begun while the owner is dead removes its pid. *)
SelfHeals ==
  \A c \in Checkers \ Mortal, s \in Servers :
    (At(c, "open") /\ file = s /\ s \notin alive) ~> file # s
=============================================================================
