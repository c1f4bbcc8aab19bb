--------------------------- MODULE LspCompilation ----------------------------
(***************************************************************************)
(* How the LSP handlers of sway-lsp hand compilation requests to the       *)
(* compilation thread, and how they wait for it.                           *)
(*                                                                         *)
(* The compilation thread (ServerState::spawn_compilation_thread) runs in  *)
(* parallel with the handlers.  The two sides share a channel of capacity  *)
(* one, the atomic flags is_compiling and retrigger_compilation, the state *)
(* of the last compilation and a tokio Notify.  Every atomic operation,    *)
(* channel operation or notification is a step of its own.                 *)
(*                                                                         *)
(* The handlers are futures of one tower-lsp task: only one runs at a time *)
(* and it gives way to another only where it awaits.  A blocking send in a *)
(* handler blocks them all.                                                *)
(*                                                                         *)
(* Requests are numbered in the order they enter the channel; what they    *)
(* carry, and what a compilation computes, is not modelled here.           *)
(***************************************************************************)
EXTENDS Naturals, FiniteSets, Sequences

CONSTANTS
  Handlers,     \* handlers tower-lsp runs at the same time
  Kinds,        \* what the client sends: a subset of AllKinds
  MaxRequests   \* bound: compilation requests sent in a behaviour

AllKinds == {"did_open", "did_change", "did_save", "request", "shutdown"}

ASSUME KindsAssumption == Kinds \subseteq AllKinds
ASSUME HandlersAssumption == "none" \notin Handlers
ASSUME MaxRequestsAssumption == MaxRequests \in Nat

VARIABLES
  channel,        \* cb_tx/cb_rx: crossbeam bounded(1) of request numbers or Terminate
  is_compiling,   \* AtomicBool
  retrigger_compilation, \* AtomicBool
  last_compilation_state,
  thread,         \* where the compilation thread is
  job,            \* the request it received last, 0 before the first
  handler,        \* per handler: what it handles, where it is, the request it sent
  running,        \* the handler the task is polling, or "none"
  sent,           \* the number of the last request put into the channel
  closed          \* shutdown was called: tower-lsp accepts nothing more

flags == <<is_compiling, retrigger_compilation, last_compilation_state>>
threadVars == <<thread, job>>
handlerVars == <<handler, running, sent, closed>>
vars == <<channel, flags, threadVars, handlerVars>>

Terminate == 0    \* TaskMessage::Terminate; requests are numbered from 1

\* Where a handler can be: "handling" is any await before it touches the
\* compilation state (finding the session, reading and writing files).
HandlerAt ==
  {"idle", "handling", "retrigger", "check_full", "drain", "send", "set_flag",
   "wait", "wait_state", "wait_empty", "park", "parked", "woken", "terminate"}

\* The handlers that go through send_new_compilation_request.
Senders == {"did_change", "did_save"}

ThreadAt ==
  {"recv", "prepare", "compile", "clear_compiling", "clear_retrigger",
   "check_empty", "notify", "terminated"}

Idle == [kind |-> "request", at |-> "idle", req |-> 0]

Init ==
  /\ channel = <<>>
  /\ is_compiling = FALSE
  /\ retrigger_compilation = FALSE
  /\ last_compilation_state = "Uninitialized"
  /\ thread = "recv"
  /\ job = 0
  /\ handler = [h \in Handlers |-> Idle]
  /\ running = "none"
  /\ sent = 0
  /\ closed = FALSE

-----------------------------------------------------------------------------
(* The compilation thread.                                                 *)

\* As recv would be if it left the message in the channel.
RecvContextPeek ==
  /\ thread = "recv"
  /\ channel # <<>> /\ Head(channel) # Terminate
  /\ job' = Head(channel)
  /\ thread' = "prepare"
  /\ UNCHANGED <<channel, flags, handlerVars>>

\* As recv would be if the thread could only go on while no handler runs.
RecvContextOnTask ==
  /\ thread = "recv" /\ running = "none"
  /\ channel # <<>> /\ Head(channel) # Terminate
  /\ job' = Head(channel)
  /\ channel' = Tail(channel)
  /\ thread' = "prepare"
  /\ UNCHANGED <<flags, handlerVars>>

\* rx.recv() returns a CompilationContext; the engines are cloned and garbage
\* collected before is_compiling is set.
RecvContext ==
  /\ thread = "recv"
  /\ channel # <<>> /\ Head(channel) # Terminate
  /\ job' = Head(channel)
  /\ channel' = Tail(channel)
  /\ thread' = "prepare"
  /\ UNCHANGED <<flags, handlerVars>>

RecvTerminate ==
  /\ thread = "recv"
  /\ channel # <<>> /\ Head(channel) = Terminate
  /\ channel' = Tail(channel)
  /\ thread' = "terminated"
  /\ UNCHANGED <<job, flags, handlerVars>>

StartCompiling ==
  /\ thread = "prepare"
  /\ is_compiling' = TRUE
  /\ thread' = "compile"
  /\ UNCHANGED <<channel, retrigger_compilation, last_compilation_state, job, handlerVars>>

\* parse_project runs to its end, well or badly, without having looked at the
\* flag at a moment when it was set.
Compiled ==
  /\ thread = "compile"
  /\ \E outcome \in {"Success", "Failed"} : last_compilation_state' = outcome
  /\ thread' = "clear_compiling"
  /\ UNCHANGED <<channel, is_compiling, retrigger_compilation, job, handlerVars>>

\* As an abort would be if it left the loop.
AbortedForGood ==
  /\ thread = "compile"
  /\ retrigger_compilation
  /\ last_compilation_state' = "Failed"
  /\ thread' = "terminated"
  /\ UNCHANGED <<channel, is_compiling, retrigger_compilation, job, handlerVars>>

\* A check_should_abort, or forc-pkg's check between two packages, finds the
\* flag set: parse_project returns an error.
Aborted ==
  /\ thread = "compile"
  /\ retrigger_compilation
  /\ last_compilation_state' = "Failed"
  /\ thread' = "clear_compiling"
  /\ UNCHANGED <<channel, is_compiling, retrigger_compilation, job, handlerVars>>

ClearCompiling ==
  /\ thread = "clear_compiling"
  /\ is_compiling' = FALSE
  /\ thread' = "clear_retrigger"
  /\ UNCHANGED <<channel, retrigger_compilation, last_compilation_state, job, handlerVars>>

ClearRetrigger ==
  /\ thread = "clear_retrigger"
  /\ retrigger_compilation' = FALSE
  /\ thread' = "check_empty"
  /\ UNCHANGED <<channel, is_compiling, last_compilation_state, job, handlerVars>>

\* As the check would be if it were rx.try_recv().is_err().
CheckEmptyByRecv ==
  /\ thread = "check_empty"
  /\ thread' = IF channel = <<>> THEN "notify" ELSE "recv"
  /\ channel' = <<>>
  /\ UNCHANGED <<flags, job, handlerVars>>

CheckEmpty ==
  /\ thread = "check_empty"
  /\ thread' = IF channel = <<>> THEN "notify" ELSE "recv"
  /\ UNCHANGED <<channel, flags, job, handlerVars>>

\* notify_waiters wakes the futures that exist and leaves nothing for later ones.
Notify ==
  /\ thread = "notify"
  /\ handler' = [h \in Handlers |->
                   IF handler[h].at = "parked" THEN [handler[h] EXCEPT !.at = "woken"]
                                               ELSE handler[h]]
  /\ thread' = "recv"
  /\ UNCHANGED <<channel, flags, job, running, sent, closed>>

Thread ==
  \/ RecvContext \/ RecvTerminate \/ StartCompiling \/ Compiled \/ Aborted
  \/ ClearCompiling \/ ClearRetrigger \/ CheckEmpty \/ Notify

-----------------------------------------------------------------------------
(* The task that polls the handlers.                                       *)

\* h goes on at `at` without giving way.
Continue(h, at) ==
  /\ handler' = [handler EXCEPT ![h].at = at]
  /\ running' = h

\* h awaits at `at`.
Await(h, at) ==
  /\ handler' = [handler EXCEPT ![h].at = at]
  /\ running' = "none"

\* h returns to the client.
Return(h) ==
  /\ handler' = [handler EXCEPT ![h] = Idle]
  /\ running' = "none"

\* The client's message reaches a handler.  After shutdown tower-lsp answers
\* every further message with an error.
Begin(h, kind) ==
  /\ running = "none" /\ ~closed
  /\ handler[h].at = "idle"
  /\ kind \in Senders \cup {"did_open"} => sent < MaxRequests
  /\ handler' = [handler EXCEPT ![h] = [kind |-> kind, at |-> "handling", req |-> 0]]
  /\ closed' = (kind = "shutdown")
  /\ UNCHANGED <<channel, flags, threadVars, running, sent>>

\* Finding the session or writing the document fails: the handler gives up.
GiveUp(h) ==
  /\ running = "none"
  /\ handler[h].at = "handling" /\ handler[h].kind \in Senders \cup {"did_open"}
  /\ Return(h)
  /\ UNCHANGED <<channel, flags, threadVars, sent, closed>>

-----------------------------------------------------------------------------
(* send_new_compilation_request, the tail of did_change and did_save.      *)

LoadIsCompiling(h) ==
  /\ running = "none"
  /\ handler[h].at = "handling" /\ handler[h].kind \in Senders
  /\ Continue(h, IF is_compiling THEN "retrigger" ELSE "check_full")
  /\ UNCHANGED <<channel, flags, threadVars, sent, closed>>

StoreRetrigger(h) ==
  /\ running = h /\ handler[h].at = "retrigger"
  /\ retrigger_compilation' = TRUE
  /\ Continue(h, IF handler[h].kind = "shutdown" THEN "terminate" ELSE "check_full")
  /\ UNCHANGED <<channel, is_compiling, last_compilation_state, threadVars, sent, closed>>

CheckFull(h) ==
  /\ running = h /\ handler[h].at = "check_full"
  /\ Continue(h, IF channel # <<>> THEN "drain" ELSE "send")
  /\ UNCHANGED <<channel, flags, threadVars, sent, closed>>

\* try_recv until it yields no CompilationContext.  No other handler can send
\* meanwhile, so the channel is empty afterwards; a Terminate goes as well.
Drain(h) ==
  /\ running = h /\ handler[h].at = "drain"
  /\ channel' = <<>>
  /\ Continue(h, "send")
  /\ UNCHANGED <<flags, threadVars, sent, closed>>

\* cb_tx.send blocks the task while the channel is full.
Push ==
  /\ channel = <<>>
  /\ channel' = <<sent + 1>>
  /\ sent' = sent + 1

SendChange(h) ==
  /\ running = h /\ handler[h].at = "send" /\ handler[h].kind = "did_change"
  /\ Push
  /\ Return(h)
  /\ UNCHANGED <<flags, threadVars, closed>>

\* did_save and did_open go on to wait for the compilation; did_open first
\* sets is_compiling itself.
SendAndWait(h) ==
  /\ running = h /\ handler[h].at = "send" /\ handler[h].kind # "did_change"
  /\ Push
  /\ handler' = [handler EXCEPT
        ![h].req = sent + 1,
        ![h].at = IF handler[h].kind = "did_open" THEN "set_flag" ELSE "wait"]
  /\ UNCHANGED <<flags, threadVars, running, closed>>

-----------------------------------------------------------------------------
(* did_open.                                                               *)

\* The session has no tokens yet: ask for a compilation.
OpenFirst(h) ==
  /\ running = "none"
  /\ handler[h].at = "handling" /\ handler[h].kind = "did_open"
  /\ Continue(h, "send")
  /\ UNCHANGED <<channel, flags, threadVars, sent, closed>>

\* It has: only a compilation can have put them there.
OpenCompiled(h) ==
  /\ running = "none"
  /\ handler[h].at = "handling" /\ handler[h].kind = "did_open"
  /\ job # 0
  /\ Return(h)
  /\ UNCHANGED <<channel, flags, threadVars, sent, closed>>

StoreIsCompiling(h) ==
  /\ running = h /\ handler[h].at = "set_flag"
  /\ is_compiling' = TRUE
  /\ Continue(h, "wait")
  /\ UNCHANGED <<channel, retrigger_compilation, last_compilation_state, threadVars, sent, closed>>

-----------------------------------------------------------------------------
(* wait_for_parsing, in did_open, in did_save and at the start of the      *)
(* requests that need a compiled program.                                  *)

WaitLoad(h) ==
  /\ \/ running = h /\ handler[h].at = "wait"
     \/ running = "none" /\ handler[h].at = "woken"
     \/ running = "none" /\ handler[h].at = "handling" /\ handler[h].kind = "request"
  /\ Continue(h, IF is_compiling THEN "park" ELSE "wait_state")
  /\ UNCHANGED <<channel, flags, threadVars, sent, closed>>

WaitReadState(h) ==
  /\ running = h /\ handler[h].at = "wait_state"
  /\ Continue(h, IF last_compilation_state = "Uninitialized" THEN "park" ELSE "wait_empty")
  /\ UNCHANGED <<channel, flags, threadVars, sent, closed>>

WaitPending(h) ==
  /\ running = h /\ handler[h].at = "wait_empty"
  /\ channel # <<>>
  /\ Continue(h, "park")
  /\ UNCHANGED <<channel, flags, threadVars, sent, closed>>

\* As leaving the loop would be without the look at the channel.
WaitOverUnchecked(h) ==
  /\ running = h /\ handler[h].at = "wait_empty"
  /\ Return(h)
  /\ UNCHANGED <<channel, flags, threadVars, sent, closed>>

\* The loop is left: the handler publishes or answers and returns.
WaitOver(h) ==
  /\ running = h /\ handler[h].at = "wait_empty"
  /\ channel = <<>>
  /\ Return(h)
  /\ UNCHANGED <<channel, flags, threadVars, sent, closed>>

\* finished_compilation.notified() is created and awaited.
Park(h) ==
  /\ running = h /\ handler[h].at = "park"
  /\ Await(h, "parked")
  /\ UNCHANGED <<channel, flags, threadVars, sent, closed>>

-----------------------------------------------------------------------------
(* shutdown_server.                                                        *)

\* As shutdown_server would be without the drain.
ShutdownNoDrain(h) ==
  /\ running = "none"
  /\ handler[h].at = "handling" /\ handler[h].kind = "shutdown"
  /\ Continue(h, "retrigger")
  /\ UNCHANGED <<channel, flags, threadVars, sent, closed>>

ShutdownDrain(h) ==
  /\ running = "none"
  /\ handler[h].at = "handling" /\ handler[h].kind = "shutdown"
  /\ channel' = <<>>
  /\ Continue(h, "retrigger")
  /\ UNCHANGED <<flags, threadVars, sent, closed>>

SendTerminate(h) ==
  /\ running = h /\ handler[h].at = "terminate"
  /\ channel = <<>>
  /\ channel' = <<Terminate>>
  /\ Return(h)
  /\ UNCHANGED <<flags, threadVars, sent, closed>>

-----------------------------------------------------------------------------
\* A step of a handler the client has already called.
Poll(h) ==
  \/ GiveUp(h)
  \/ LoadIsCompiling(h) \/ StoreRetrigger(h) \/ CheckFull(h) \/ Drain(h)
  \/ SendChange(h) \/ SendAndWait(h)
  \/ OpenFirst(h) \/ OpenCompiled(h) \/ StoreIsCompiling(h)
  \/ WaitLoad(h) \/ WaitReadState(h) \/ WaitPending(h) \/ WaitOver(h) \/ Park(h)
  \/ ShutdownDrain(h) \/ SendTerminate(h)

Next ==
  \/ Thread
  \/ \E h \in Handlers : (\E kind \in Kinds : Begin(h, kind)) \/ Poll(h)

\* The operating system runs the compilation thread, parse_project returns,
\* and the task polls every handler that is ready again and again.  Nothing
\* makes the client send another message.
Fairness ==
  /\ WF_vars(Thread)
  /\ \A h \in Handlers : SF_vars(Poll(h))

Spec == Init /\ [][Next]_vars

FairSpec == Spec /\ Fairness

-----------------------------------------------------------------------------
(* Type invariant of the shared state, the thread and the handlers.        *)
TypeOK ==
  /\ channel \in {<<>>} \cup {<<n>> : n \in 0..sent}
  /\ is_compiling \in BOOLEAN
  /\ retrigger_compilation \in BOOLEAN
  /\ last_compilation_state \in {"Uninitialized", "Success", "Failed"}
  /\ thread \in ThreadAt
  /\ job \in 0..sent
  /\ handler \in [Handlers -> [kind : AllKinds, at : HandlerAt, req : 0..sent]]
  /\ running \in Handlers \cup {"none"}
  /\ sent \in Nat
  /\ closed \in BOOLEAN

\* A handler of send_new_compilation_request that has emptied the channel and
\* not yet put its own request into it.
Replacing(h) == handler[h].at = "send" /\ handler[h].kind \in Senders

\* shutdown_server has emptied the channel.
Withdrawn ==
  closed /\ \A h \in Handlers : ~(handler[h].at = "handling" /\ handler[h].kind = "shutdown")

(* Coalescing never loses the newest request: until the server shuts down, *)
(* the last request put into the channel is still there, or is the one the *)
(* thread received last, or the handler that just took it out is about to  *)
(* put a newer one in its place.                                           *)
NewestKept ==
  Withdrawn \/ job = sent \/ channel = <<sent>> \/ \E h \in Handlers : Replacing(h)

(* The thread never receives a request older than one it received before,  *)
(* nor the same one twice, however drains, blocked sends and receives      *)
(* interleave.                                                             *)
JobsInOrder ==
  [][thread = "recv" /\ thread' = "prepare" => job' > job /\ job' = sent]_vars

(* When did_save or did_open leaves wait_for_parsing, the thread has       *)
(* received its request or a newer one, unless the server is shutting      *)
(* down: the answer is never computed before the request was even seen.    *)
TakenBeforeReturn ==
  [][\A h \in Handlers :
       handler[h].req # 0 /\ handler'[h].at = "idle"
         => job >= handler[h].req \/ closed]_vars

(* Every request put into the channel is eventually received, it or a      *)
(* newer one, unless the server shuts down.                                *)
Delivered ==
  \A n \in 1..(MaxRequests + Cardinality(Handlers)) : sent >= n ~> job >= n \/ closed

(* No handler blocks the task for ever in a send: the channel is always    *)
(* emptied by the thread, which waits for no handler, unless the thread    *)
(* has terminated.                                                         *)
SendCompletes ==
  \A h \in Handlers : handler[h].at = "send" ~> handler[h].at # "send" \/ thread = "terminated"

\* The hand-over as CompilationSlot has it.  A request counts as submitted
\* once nothing can get in its way: did_change and did_save when they have
\* found or made the channel empty, did_open when its send succeeds.
Submitting == \E h \in Handlers : Replacing(h)

Latest == IF Submitting THEN sent + 1 ELSE sent

Pending ==
  IF Submitting THEN sent + 1
  ELSE IF channel = <<>> \/ channel = <<Terminate>> THEN 0 ELSE Head(channel)

Slot == INSTANCE CompilationSlot WITH
  latest <- Latest, slot <- Pending, taken <- job, closed <- Withdrawn

(* The flags, the drain and the bounded channel implement the one-place    *)
(* mailbox in which the newest request wins, with its fairness.            *)
ImplementsSlot == Slot!FairSpec

(* The safety part of it: every step of a handler or of the thread         *)
(* submits, takes or withdraws a request as the mailbox allows, or leaves  *)
(* the mailbox alone.                                                      *)
ImplementsSlotSafety == Slot!Spec

(* "Waits asynchronously for the `is_compiling` flag to become false": a   *)
(* handler that waits for a notification is woken.                         *)
WaitersWoken ==
  \A h \in Handlers : handler[h].at = "parked" ~> handler[h].at # "parked"
=============================================================================
