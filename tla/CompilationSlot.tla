--------------------------- MODULE CompilationSlot ---------------------------
(***************************************************************************)
(* What the language server's hand-over of compilation requests promises,  *)
(* with no flags, threads or channel: "we want to ensure that the          *)
(* compilation thread receives only the most recent value"                 *)
(* (sway-lsp/src/handlers/notification.rs).                                *)
(*                                                                         *)
(* Requests are numbered in the order the handlers submit them.  At most   *)
(* one waits; a newer one takes its place; the compiler takes whichever    *)
(* waits.  Only closing the server withdraws a waiting request.            *)
(***************************************************************************)
EXTENDS Naturals

VARIABLES
  latest,   \* the number of the newest request
  slot,     \* the waiting request, 0 when there is none
  taken,    \* the request the compiler took last, 0 before the first
  closed    \* the server was told to shut down

vars == <<latest, slot, taken, closed>>

Init ==
  /\ latest = 0
  /\ slot = 0
  /\ taken = 0
  /\ closed = FALSE

Submit ==
  /\ latest' = latest + 1
  /\ slot' = latest + 1
  /\ UNCHANGED <<taken, closed>>

Take ==
  /\ slot # 0
  /\ taken' = slot
  /\ slot' = 0
  /\ UNCHANGED <<latest, closed>>

Close ==
  /\ ~closed
  /\ closed' = TRUE
  /\ slot' = 0
  /\ UNCHANGED <<latest, taken>>

Next == Submit \/ Take \/ Close

\* The compiler comes back for the waiting request for as long as the server
\* is open.
Fairness == WF_vars(~closed /\ Take)

Spec == Init /\ [][Next]_vars

FairSpec == Spec /\ Fairness

=============================================================================
