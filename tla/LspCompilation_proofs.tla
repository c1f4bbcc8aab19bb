------------------------ MODULE LspCompilation_proofs ------------------------
(***************************************************************************)
(* What LspCompilation guarantees for any number of handlers, any workload *)
(* and any number of requests.                                             *)
(***************************************************************************)
EXTENDS LspCompilation, TLAPS

\* Where a handler is only while the task runs it.
Segment ==
  {"retrigger", "check_full", "drain", "send", "set_flag", "wait", "wait_state",
   "wait_empty", "park", "terminate"}

\* Where a handler is after it has sent its request.
Waiting == {"set_flag", "wait", "wait_state", "wait_empty", "park", "parked", "woken"}

\* What holds of each handler: the task runs at most one of them, the channel
\* stays empty while one replaces the pending request, and only handlers of
\* the right kind get to each place.
HandlerOK(h) ==
  /\ handler[h].at \in Segment => running = h
  /\ handler[h].at \in {"check_full", "drain"} => handler[h].kind \in Senders
  /\ handler[h].at = "retrigger" => handler[h].kind \in Senders \cup {"shutdown"}
  /\ Replacing(h) => channel = <<>>
  /\ handler[h].req # 0 => handler[h].at \in Waiting
  /\ handler[h].kind = "shutdown" => closed

HandlersOK == \A h \in Handlers : HandlerOK(h)

OneShutdown ==
  \A g, h \in Handlers : handler[g].kind = "shutdown" /\ handler[h].kind = "shutdown" => g = h

\* A pending request is the newest and was not received.
PendingIsNewest ==
  \A n \in 1..sent : channel = <<n>> => n = sent /\ job < sent

IInv == TypeOK /\ HandlersOK /\ OneShutdown /\ PendingIsNewest /\ NewestKept

-----------------------------------------------------------------------------
(* Initially the inductive invariant holds: nothing was sent, nobody runs. *)
LEMMA InitIInv == Init => IInv
<1> SUFFICES ASSUME Init PROVE IInv
  OBVIOUS
<1> USE DEF Init, Idle, Terminate
<1>1. TypeOK
  <2>1. handler \in [Handlers -> [kind : AllKinds, at : HandlerAt, req : 0..sent]]
    BY DEF HandlerAt, AllKinds
  <2>2. channel \in {<<>>} \cup {<<n>> : n \in 0..sent}
    OBVIOUS
  <2>3. thread \in ThreadAt /\ job \in 0..sent
    BY DEF ThreadAt
  <2> QED  BY <2>1, <2>2, <2>3, Zenon DEF TypeOK
<1>2. HandlersOK
  BY DEF HandlersOK, HandlerOK, Segment, Replacing, Waiting
<1>3. OneShutdown /\ PendingIsNewest /\ NewestKept
  BY DEF OneShutdown, PendingIsNewest, NewestKept
<1> QED  BY <1>1, <1>2, <1>3 DEF IInv

(* The thread's steps between receiving a request and notifying touch only *)
(* the flags.                                                              *)
LEMMA FlagStepIInv ==
  ASSUME IInv, UNCHANGED <<channel, job, handlerVars>>,
         flags' \in BOOLEAN \X BOOLEAN \X {"Uninitialized", "Success", "Failed"},
         thread' \in ThreadAt
  PROVE  IInv'
<1>1. TypeOK'
  BY DEF IInv, TypeOK, flags, handlerVars
<1>2. HandlersOK'
  BY DEF IInv, HandlersOK, HandlerOK, Replacing, handlerVars
<1>3. OneShutdown'
  BY DEF IInv, OneShutdown, handlerVars
<1>4. PendingIsNewest'
  BY DEF IInv, PendingIsNewest, handlerVars
<1>5. NewestKept'
  BY DEF IInv, NewestKept, Withdrawn, Replacing, handlerVars
<1> QED  BY <1>1, <1>2, <1>3, <1>4, <1>5 DEF IInv

\* Handler h moves on to a, and no more than a flag changes.
Moves(h, a) ==
  /\ a \in HandlerAt \ {"handling"}
  /\ handler' = [handler EXCEPT ![h].at = a]
  /\ running \in {"none", h} /\ running' \in {"none", h}
  /\ a \in Segment => running' = h
  /\ a \in {"check_full", "drain"} => handler[h].kind \in Senders
  /\ a = "retrigger" => handler[h].kind \in Senders \cup {"shutdown"}
  /\ a = "send" /\ handler[h].kind \in Senders => channel = <<>>
  /\ handler[h].req # 0 => a \in Waiting
  /\ handler[h].at # "send"
  /\ handler[h].at = "handling" => handler[h].kind # "shutdown"
  /\ UNCHANGED <<channel, threadVars, sent, closed>>
  /\ flags' \in BOOLEAN \X BOOLEAN \X {"Uninitialized", "Success", "Failed"}

(* A handler that only moves on, or gives way, keeps the invariant.        *)
LEMMA MoveIInv ==
  ASSUME IInv, NEW h \in Handlers, NEW a, Moves(h, a)
  PROVE  IInv'
<1> USE DEF Moves
<1>0. TypeOK
  BY DEF IInv
<1>1. TypeOK'
  BY <1>0 DEF TypeOK, flags, threadVars
<1>2. /\ handler'[h].at = a /\ handler'[h].kind = handler[h].kind /\ handler'[h].req = handler[h].req
      /\ \A g \in Handlers \ {h} : handler'[g] = handler[g]
  BY <1>0 DEF TypeOK
<1>3. HandlersOK'
  <2> SUFFICES ASSUME NEW g \in Handlers PROVE HandlerOK(g)'
    BY DEF HandlersOK
  <2>1. HandlerOK(g) /\ HandlerOK(h)
    BY DEF IInv, HandlersOK
  <2>2. CASE g = h
    BY <1>2, <2>1, <2>2 DEF HandlerOK, Replacing
  <2>3. CASE g # h
    <3>1. handler[g].at \notin Segment
      BY <2>1, <2>3, HandlersAssumption DEF HandlerOK
    <3> QED  BY <1>2, <2>1, <2>3, <3>1 DEF HandlerOK, Replacing, Segment
  <2> QED  BY <2>2, <2>3
<1>4. OneShutdown'
  BY <1>2 DEF IInv, OneShutdown
<1>5. PendingIsNewest'
  BY DEF IInv, PendingIsNewest, threadVars
<1>6. NewestKept'
  <2>1. CASE Withdrawn
    BY <1>2, <2>1 DEF Withdrawn, NewestKept
  <2>2. CASE job = sent \/ channel = <<sent>>
    BY <2>2 DEF NewestKept, threadVars
  <2>3. ASSUME NEW g \in Handlers, Replacing(g) PROVE FALSE
    BY <2>3, HandlersAssumption DEF IInv, HandlersOK, HandlerOK, Segment, Replacing
  <2> QED  BY <2>1, <2>2, <2>3 DEF IInv, NewestKept
<1> QED  BY <1>1, <1>3, <1>4, <1>5, <1>6 DEF IInv

(* A handler that returns to the client keeps the invariant.               *)
LEMMA ReturnIInv ==
  ASSUME IInv, NEW h \in Handlers, Return(h),
         running \in {"none", h},
         handler[h].at # "send",
         handler[h].at = "handling" => handler[h].kind # "shutdown",
         UNCHANGED <<channel, flags, threadVars, sent, closed>>
  PROVE  IInv'
<1>0. TypeOK
  BY DEF IInv
<1>1. TypeOK'
  BY <1>0 DEF TypeOK, flags, threadVars, Return, Idle, AllKinds, HandlerAt
<1>2. /\ handler'[h] = Idle
      /\ \A g \in Handlers \ {h} : handler'[g] = handler[g]
  BY <1>0 DEF TypeOK, Return
<1>3. HandlersOK'
  <2> SUFFICES ASSUME NEW g \in Handlers PROVE HandlerOK(g)'
    BY DEF HandlersOK
  <2>1. HandlerOK(g)
    BY DEF IInv, HandlersOK
  <2>2. CASE g = h
    BY <1>2, <2>2 DEF HandlerOK, Replacing, Idle, Segment
  <2>3. CASE g # h
    <3>1. handler[g].at \notin Segment
      BY <2>1, <2>3, HandlersAssumption DEF HandlerOK
    <3> QED  BY <1>2, <2>1, <2>3, <3>1 DEF HandlerOK, Replacing, Segment
  <2> QED  BY <2>2, <2>3
<1>4. OneShutdown'
  BY <1>2 DEF IInv, OneShutdown, Idle
<1>5. PendingIsNewest'
  BY DEF IInv, PendingIsNewest, threadVars
<1>6. NewestKept'
  <2>1. CASE Withdrawn
    BY <1>2, <2>1 DEF Withdrawn, NewestKept, Idle
  <2>2. CASE job = sent \/ channel = <<sent>>
    BY <2>2 DEF NewestKept, threadVars
  <2>3. ASSUME NEW g \in Handlers, Replacing(g) PROVE FALSE
    BY <2>3, HandlersAssumption DEF IInv, HandlersOK, HandlerOK, Segment, Replacing
  <2> QED  BY <2>1, <2>2, <2>3 DEF IInv, NewestKept
<1> QED  BY <1>1, <1>3, <1>4, <1>5, <1>6 DEF IInv

(* The channel empties while handler h runs and goes on to a: replacing    *)
(* the pending request, or shutting down.                                  *)
LEMMA DrainIInv ==
  ASSUME IInv, NEW h \in Handlers, Drain(h) \/ ShutdownDrain(h)
  PROVE  IInv'
<1>0. TypeOK /\ HandlerOK(h)
  BY DEF IInv, HandlersOK
<1>1. PICK a \in {"send", "retrigger"} :
        /\ handler' = [handler EXCEPT ![h].at = a]
        /\ a = "send" => handler[h].at = "drain" /\ handler[h].kind \in Senders
        /\ a = "retrigger" => handler[h].at = "handling" /\ handler[h].kind = "shutdown"
  BY <1>0 DEF Drain, ShutdownDrain, Continue, HandlerOK
<1>2. /\ channel' = <<>> /\ running \in {"none", h} /\ running' = h
      /\ UNCHANGED <<flags, threadVars, sent, closed>>
  BY DEF Drain, ShutdownDrain, Continue
<1>3. /\ handler'[h].at = a /\ handler'[h].kind = handler[h].kind /\ handler'[h].req = handler[h].req
      /\ \A g \in Handlers \ {h} : handler'[g] = handler[g]
  BY <1>0, <1>1 DEF TypeOK
<1>4. TypeOK'
  BY <1>0, <1>1, <1>2 DEF TypeOK, flags, threadVars, HandlerAt
<1>5. HandlersOK'
  <2> SUFFICES ASSUME NEW g \in Handlers PROVE HandlerOK(g)'
    BY DEF HandlersOK
  <2>1. HandlerOK(g)
    BY DEF IInv, HandlersOK
  <2>2. CASE g = h
    <3>1. handler[h].req = 0
      BY <1>0, <1>1 DEF HandlerOK, Waiting
    <3> QED  BY <1>0, <1>1, <1>2, <1>3, <2>2, <3>1 DEF HandlerOK, Replacing
  <2>3. CASE g # h
    <3>1. handler[g].at \notin Segment
      BY <1>2, <2>1, <2>3, HandlersAssumption DEF HandlerOK
    <3> QED  BY <1>2, <1>3, <2>1, <2>3, <3>1 DEF HandlerOK, Replacing, Segment
  <2> QED  BY <2>2, <2>3
<1>6. OneShutdown'
  BY <1>3 DEF IInv, OneShutdown
<1>7. PendingIsNewest'
  BY <1>2 DEF PendingIsNewest
<1>8. NewestKept'
  <2>1. CASE a = "send"
    BY <1>1, <1>3, <2>1 DEF NewestKept, Replacing
  <2>2. CASE a = "retrigger"
    <3>1. closed'
      BY <1>0, <1>1, <1>2, <2>2 DEF HandlerOK
    <3>2. \A g \in Handlers : ~(handler'[g].at = "handling" /\ handler'[g].kind = "shutdown")
      BY <1>1, <1>3, <2>2 DEF IInv, OneShutdown
    <3> QED  BY <3>1, <3>2 DEF NewestKept, Withdrawn
  <2> QED  BY <2>1, <2>2
<1> QED  BY <1>4, <1>5, <1>6, <1>7, <1>8 DEF IInv

(* A successful send puts the newest request, or Terminate, into the empty *)
(* channel.                                                                *)
LEMMA SendIInv ==
  ASSUME IInv, NEW h \in Handlers, SendChange(h) \/ SendAndWait(h) \/ SendTerminate(h)
  PROVE  IInv'
<1>0. TypeOK /\ HandlerOK(h)
  BY DEF IInv, HandlersOK
<1>1. /\ running = h /\ handler[h].at \in {"send", "terminate"}
      /\ channel = <<>> /\ running' \in {"none", h}
      /\ UNCHANGED <<flags, threadVars, closed>>
  BY DEF SendChange, SendAndWait, SendTerminate, Push, Return
<1>2. \/ channel' = <<sent + 1>> /\ sent' = sent + 1
      \/ channel' = <<0>> /\ sent' = sent
  BY DEF SendChange, SendAndWait, SendTerminate, Push, Terminate
<1>3. \A g \in Handlers \ {h} : handler'[g] = handler[g]
  BY <1>0 DEF TypeOK, SendChange, SendAndWait, SendTerminate, Return
<1>4. \/ handler'[h] = Idle
      \/ /\ \E a \in {"set_flag", "wait"} :
              handler'[h] = [kind |-> handler[h].kind, at |-> a, req |-> sent + 1]
         /\ running' = h /\ sent' = sent + 1
  BY <1>0 DEF TypeOK, SendChange, SendAndWait, SendTerminate, Return, Push
<1>5. DOMAIN handler' = Handlers /\ handler' = [g \in Handlers |-> handler'[g]]
  BY <1>0 DEF TypeOK, SendChange, SendAndWait, SendTerminate, Return
<1>6. TypeOK'
  <2>1. sent' \in Nat /\ sent <= sent'
    BY <1>0, <1>2 DEF TypeOK
  <2>2. handler'[h] \in [kind : AllKinds, at : HandlerAt, req : 0..sent']
    <3>1. handler[h].kind \in AllKinds
      BY <1>0 DEF TypeOK
    <3> QED  BY <1>0, <1>4, <2>1, <3>1 DEF TypeOK, Idle, AllKinds, HandlerAt
  <2>3. \A g \in Handlers : handler'[g] \in [kind : AllKinds, at : HandlerAt, req : 0..sent']
    BY <1>0, <1>3, <2>1, <2>2 DEF TypeOK
  <2>4. handler' \in [Handlers -> [kind : AllKinds, at : HandlerAt, req : 0..sent']]
    BY <1>5, <2>3
  <2>5. channel' \in {<<>>} \cup {<<n>> : n \in 0..sent'}
    BY <1>0, <1>2, <2>1 DEF TypeOK
  <2> QED  BY <1>0, <1>1, <2>1, <2>4, <2>5 DEF TypeOK, flags, threadVars
<1>7. HandlersOK'
  <2> SUFFICES ASSUME NEW g \in Handlers PROVE HandlerOK(g)'
    BY DEF HandlersOK
  <2>1. HandlerOK(g)
    BY DEF IInv, HandlersOK
  <2>2. CASE g = h
    <3>1. CASE handler'[h] = Idle
      BY <2>2, <3>1 DEF HandlerOK, Replacing, Idle, Segment
    <3>2. CASE handler'[h] # Idle
      <4>1. handler'[h].kind = handler[h].kind
        BY <1>0, <1>4, <3>2 DEF TypeOK
      <4> QED  BY <1>0, <1>1, <1>4, <2>2, <3>2, <4>1 DEF HandlerOK, Replacing, Waiting
    <3> QED  BY <3>1, <3>2
  <2>3. CASE g # h
    <3>1. handler[g].at \notin Segment
      BY <1>1, <2>1, <2>3, HandlersAssumption DEF HandlerOK
    <3> QED  BY <1>1, <1>3, <2>1, <2>3, <3>1 DEF HandlerOK, Replacing, Segment
  <2> QED  BY <2>2, <2>3
<1>8. OneShutdown'
  <2>1. handler'[h].kind = "shutdown" => handler[h].kind = "shutdown"
    BY <1>0, <1>4 DEF TypeOK, Idle
  <2> QED  BY <1>3, <2>1 DEF IInv, OneShutdown
<1>9. PendingIsNewest'
  BY <1>0, <1>1, <1>2 DEF PendingIsNewest, TypeOK, threadVars
<1>10. NewestKept'
  <2>1. CASE sent' = sent + 1
    BY <1>0, <1>2, <2>1 DEF NewestKept, TypeOK
  <2>2. CASE sent' = sent /\ handler[h].at = "terminate"
    <3>1. handler'[h] = Idle
      BY <1>0, <1>4, <2>2 DEF TypeOK
    <3>2. CASE Withdrawn
      BY <1>1, <1>3, <3>1, <3>2 DEF NewestKept, Withdrawn, Idle
    <3>3. CASE job = sent
      BY <1>1, <2>2, <3>3 DEF NewestKept, threadVars
    <3>4. ~\E g \in Handlers : Replacing(g)
      BY <1>1, <2>2, HandlersAssumption DEF IInv, HandlersOK, HandlerOK, Segment, Replacing
    <3> QED  BY <1>1, <3>2, <3>3, <3>4 DEF IInv, NewestKept
  <2>3. sent' = sent => handler[h].at = "terminate"
    BY <1>0 DEF TypeOK, SendChange, SendAndWait, SendTerminate, Push
  <2> QED  BY <1>2, <2>1, <2>2, <2>3
<1> QED  BY <1>6, <1>7, <1>8, <1>9, <1>10 DEF IInv

(* Receiving takes the one message out; a received request is the newest.  *)
LEMMA RecvIInv ==
  ASSUME IInv, RecvContext \/ RecvTerminate
  PROVE  IInv'
<1>0. TypeOK
  BY DEF IInv
<1>1. channel' = <<>> /\ UNCHANGED <<flags, handlerVars>> /\ thread' \in ThreadAt
  <2>1. channel # <<>> /\ channel' = Tail(channel)
    BY DEF RecvContext, RecvTerminate
  <2>2. PICK n \in 0..sent : channel = <<n>>
    BY <1>0, <2>1 DEF TypeOK
  <2>3. UNCHANGED <<flags, handlerVars>> /\ thread' \in {"prepare", "terminated"}
    BY DEF RecvContext, RecvTerminate
  <2> QED  BY <2>1, <2>2, <2>3 DEF ThreadAt
<1>2. \/ job' = sent
      \/ job' = job /\ channel = <<0>>
  <2>1. CASE RecvContext
    <3>1. PICK n \in 0..sent : channel = <<n>>
      BY <1>0, <2>1 DEF TypeOK, RecvContext
    <3>2. job' = n /\ n # 0
      BY <2>1, <3>1 DEF RecvContext, Terminate
    <3> QED  BY <1>0, <3>1, <3>2 DEF IInv, TypeOK, PendingIsNewest
  <2>2. CASE RecvTerminate
    BY <1>0, <2>2 DEF TypeOK, RecvTerminate, Terminate
  <2> QED  BY <2>1, <2>2
<1>3. TypeOK'
  BY <1>0, <1>1, <1>2 DEF TypeOK, flags, handlerVars
<1>4. HandlersOK'
  BY <1>1 DEF IInv, HandlersOK, HandlerOK, Replacing, handlerVars
<1>5. OneShutdown'
  BY <1>1 DEF IInv, OneShutdown, handlerVars
<1>6. PendingIsNewest'
  BY <1>1 DEF PendingIsNewest
<1>7. NewestKept'
  <2>1. CASE job' = sent
    BY <1>1, <2>1 DEF NewestKept, handlerVars
  <2>2. CASE job' = job /\ channel = <<0>>
    <3>1. channel = <<sent>> => job = sent
      BY <1>0, <2>2 DEF TypeOK
    <3> QED  BY <1>1, <2>2, <3>1 DEF IInv, NewestKept, Withdrawn, Replacing, handlerVars
  <2> QED  BY <1>2, <2>1, <2>2
<1> QED  BY <1>3, <1>4, <1>5, <1>6, <1>7 DEF IInv

(* notify_waiters changes nothing but where the parked handlers are.       *)
LEMMA NotifyFacts ==
  ASSUME TypeOK, Notify
  PROVE  \A g \in Handlers :
           /\ handler'[g] \in [kind : AllKinds, at : HandlerAt, req : 0..sent]
           /\ handler'[g].kind = handler[g].kind /\ handler'[g].req = handler[g].req
           /\ \/ handler'[g].at = handler[g].at
              \/ handler[g].at = "parked" /\ handler'[g].at = "woken"
<1> TAKE g \in Handlers
<1>1. handler[g] \in [kind : AllKinds, at : HandlerAt, req : 0..sent]
  BY DEF TypeOK
<1>2. handler'[g] = IF handler[g].at = "parked" THEN [handler[g] EXCEPT !.at = "woken"]
                                                ELSE handler[g]
  BY DEF Notify
<1> QED  BY <1>1, <1>2 DEF HandlerAt

(* notify_waiters moves only handlers that wait for it.                    *)
LEMMA NotifyIInv ==
  ASSUME IInv, Notify
  PROVE  IInv'
<1>0. TypeOK
  BY DEF IInv
<1>1. /\ thread' = "recv"
      /\ UNCHANGED <<channel, flags, job, running, sent, closed>>
  BY DEF Notify
<1>2. \A g \in Handlers :
        /\ handler'[g] \in [kind : AllKinds, at : HandlerAt, req : 0..sent]
        /\ handler'[g].kind = handler[g].kind /\ handler'[g].req = handler[g].req
        /\ \/ handler'[g].at = handler[g].at
           \/ handler[g].at = "parked" /\ handler'[g].at = "woken"
  BY <1>0, NotifyFacts
<1>3. TypeOK'
  <2>1. handler' \in [Handlers -> [kind : AllKinds, at : HandlerAt, req : 0..sent]]
    BY <1>2 DEF Notify
  <2> QED  BY <1>0, <1>1, <2>1 DEF TypeOK, flags, ThreadAt
<1>4. HandlersOK'
  <2> SUFFICES ASSUME NEW g \in Handlers PROVE HandlerOK(g)'
    BY DEF HandlersOK
  <2>1. HandlerOK(g)
    BY DEF IInv, HandlersOK
  <2> QED  BY <1>1, <1>2, <2>1 DEF HandlerOK, Replacing, Segment, Waiting
<1>5. OneShutdown'
  BY <1>2 DEF IInv, OneShutdown
<1>6. PendingIsNewest'
  BY <1>1 DEF IInv, PendingIsNewest
<1>7. NewestKept'
  <2>1. Withdrawn => Withdrawn'
    BY <1>1, <1>2 DEF Withdrawn
  <2>2. \A g \in Handlers : Replacing(g) => Replacing(g)'
    BY <1>2 DEF Replacing
  <2> QED  BY <1>1, <2>1, <2>2 DEF IInv, NewestKept
<1> QED  BY <1>3, <1>4, <1>5, <1>6, <1>7 DEF IInv

(* A new message finds an idle handler, and none after shutdown.           *)
LEMMA BeginIInv ==
  ASSUME IInv, NEW h \in Handlers, NEW kind \in Kinds, Begin(h, kind)
  PROVE  IInv'
<1>0. TypeOK
  BY DEF IInv
<1>1. /\ running = "none" /\ ~closed /\ handler[h].at = "idle"
      /\ closed' = (kind = "shutdown")
      /\ UNCHANGED <<channel, flags, threadVars, running, sent>>
  BY DEF Begin
<1>2. /\ handler'[h] = [kind |-> kind, at |-> "handling", req |-> 0]
      /\ \A g \in Handlers \ {h} : handler'[g] = handler[g]
  BY <1>0 DEF TypeOK, Begin
<1>3. \A g \in Handlers : handler[g].kind # "shutdown"
  BY <1>1 DEF IInv, HandlersOK, HandlerOK
<1>4. TypeOK'
  <2>1. handler' \in [Handlers -> [kind : AllKinds, at : HandlerAt, req : 0..sent]]
    BY <1>0, KindsAssumption DEF TypeOK, Begin, HandlerAt
  <2> QED  BY <1>0, <1>1, <2>1 DEF TypeOK, flags, threadVars
<1>5. HandlersOK'
  <2> SUFFICES ASSUME NEW g \in Handlers PROVE HandlerOK(g)'
    BY DEF HandlersOK
  <2>1. HandlerOK(g)
    BY DEF IInv, HandlersOK
  <2>2. CASE g = h
    <3>1. handler'[h].at = "handling" /\ handler'[h].kind = kind /\ handler'[h].req = 0
      BY <1>2
    <3>2. kind = "shutdown" => closed'
      BY <1>1, Zenon
    <3> QED  BY <2>2, <3>1, <3>2 DEF HandlerOK, Replacing, Segment
  <2>3. CASE g # h
    BY <1>1, <1>2, <1>3, <2>1, <2>3 DEF HandlerOK, Replacing
  <2> QED  BY <2>2, <2>3
<1>6. OneShutdown'
  BY <1>2, <1>3 DEF OneShutdown
<1>7. PendingIsNewest'
  BY <1>1 DEF IInv, PendingIsNewest, threadVars
<1>8. NewestKept'
  <2>1. ~Withdrawn /\ \A g \in Handlers : ~Replacing(g)
    BY <1>1, HandlersAssumption DEF IInv, HandlersOK, HandlerOK, Segment, Replacing, Withdrawn
  <2> QED  BY <1>1, <2>1 DEF IInv, NewestKept, threadVars
<1> QED  BY <1>4, <1>5, <1>6, <1>7, <1>8 DEF IInv

\* Handler h returns to the client, and nothing else changes.
Returns(h) ==
  /\ Return(h)
  /\ running \in {"none", h}
  /\ handler[h].at # "send"
  /\ handler[h].at = "handling" => handler[h].kind # "shutdown"
  /\ UNCHANGED <<channel, flags, threadVars, sent, closed>>

(* A step of a handler moves it on, ends it, empties the channel or sends. *)
LEMMA PollCases ==
  ASSUME IInv, NEW h \in Handlers, Poll(h)
  PROVE  \/ \E a : Moves(h, a)
         \/ Returns(h)
         \/ Drain(h) \/ ShutdownDrain(h)
         \/ SendChange(h) \/ SendAndWait(h) \/ SendTerminate(h)
<1>0. TypeOK
  BY DEF IInv
<1>k. /\ handler[h].at \in {"check_full", "drain"} => handler[h].kind \in Senders
      /\ handler[h].at = "retrigger" => handler[h].kind \in Senders \cup {"shutdown"}
  BY DEF IInv, HandlersOK, HandlerOK
<1>f. flags \in BOOLEAN \X BOOLEAN \X {"Uninitialized", "Success", "Failed"}
  BY <1>0 DEF TypeOK, flags
<1>r. handler[h].req # 0 => handler[h].at \in Waiting
  BY DEF IInv, HandlersOK, HandlerOK
<1>1. CASE GiveUp(h)
  BY <1>1 DEF Returns, GiveUp, Return, Senders
<1>2. CASE LoadIsCompiling(h)
  <2> DEFINE a == IF is_compiling THEN "retrigger" ELSE "check_full"
  <2>1. Moves(h, a)
    BY <1>0, <1>f, <1>r, <1>2 DEF Moves, LoadIsCompiling, Continue, HandlerAt, Segment, Waiting, Senders
  <2> QED  BY <2>1
<1>3. CASE StoreRetrigger(h)
  <2> DEFINE a == IF handler[h].kind = "shutdown" THEN "terminate" ELSE "check_full"
  <2>1. Moves(h, a)
    BY <1>0, <1>f, <1>r, <1>k, <1>3, Zenon DEF Moves, StoreRetrigger, Continue, HandlerAt, Segment, Waiting, Senders, flags
  <2> QED  BY <2>1
<1>4. CASE CheckFull(h)
  <2> DEFINE a == IF channel # <<>> THEN "drain" ELSE "send"
  <2>1. Moves(h, a)
    BY <1>0, <1>f, <1>r, <1>k, <1>4 DEF Moves, CheckFull, Continue, HandlerAt, Segment, Waiting, Senders
  <2> QED  BY <2>1
<1>7. CASE OpenFirst(h)
  <2> DEFINE a == "send"
  <2>1. Moves(h, a)
    BY <1>0, <1>f, <1>r, <1>7 DEF Moves, OpenFirst, Continue, HandlerAt, Segment, Waiting, Senders
  <2> QED  BY <2>1
<1>8. CASE OpenCompiled(h)
  BY <1>8 DEF Returns, OpenCompiled, Return
<1>9. CASE StoreIsCompiling(h)
  <2> DEFINE a == "wait"
  <2>1. Moves(h, a)
    BY <1>0, <1>f, <1>r, <1>9, Zenon DEF Moves, StoreIsCompiling, Continue, HandlerAt, Segment, Waiting, Senders, flags
  <2> QED  BY <2>1
<1>10. CASE WaitLoad(h)
  <2> DEFINE a == IF is_compiling THEN "park" ELSE "wait_state"
  <2>1. Moves(h, a)
    BY <1>0, <1>f, <1>r, <1>10 DEF Moves, WaitLoad, Continue, HandlerAt, Segment, Waiting, Senders
  <2> QED  BY <2>1
<1>11. CASE WaitReadState(h)
  <2> DEFINE a == IF last_compilation_state = "Uninitialized" THEN "park" ELSE "wait_empty"
  <2>1. Moves(h, a)
    BY <1>0, <1>f, <1>r, <1>11 DEF Moves, WaitReadState, Continue, HandlerAt, Segment, Waiting, Senders
  <2> QED  BY <2>1
<1>12. CASE WaitPending(h)
  <2> DEFINE a == "park"
  <2>1. Moves(h, a)
    BY <1>0, <1>f, <1>r, <1>12 DEF Moves, WaitPending, Continue, HandlerAt, Segment, Waiting, Senders
  <2> QED  BY <2>1
<1>13. CASE WaitOver(h)
  BY <1>13 DEF Returns, WaitOver, Return
<1>14. CASE Park(h)
  <2> DEFINE a == "parked"
  <2>1. Moves(h, a)
    BY <1>0, <1>f, <1>r, <1>14 DEF Moves, Park, Await, HandlerAt, Segment, Waiting, Senders
  <2> QED  BY <2>1
<1> QED
  BY <1>1, <1>2, <1>3, <1>4, <1>7, <1>8, <1>9, <1>10, <1>11, <1>12,
     <1>13, <1>14 DEF Poll

(* Every step of a handler keeps the invariant.                            *)
LEMMA PollIInv ==
  ASSUME IInv, NEW h \in Handlers, Poll(h)
  PROVE  IInv'
BY PollCases, MoveIInv, ReturnIInv, DrainIInv, SendIInv DEF Returns

(* Every step, and every stuttering step, keeps the inductive invariant.   *)
LEMMA NextIInv == IInv /\ [Next]_vars => IInv'
<1> SUFFICES ASSUME IInv, [Next]_vars PROVE IInv'
  OBVIOUS
<1>0. TypeOK
  BY DEF IInv
<1>1. CASE RecvContext \/ RecvTerminate
  BY <1>1, RecvIInv
<1>2. CASE StartCompiling \/ Compiled \/ Aborted \/ ClearCompiling \/ ClearRetrigger \/ CheckEmpty
  <2>1. UNCHANGED <<channel, job, handlerVars>> /\ thread' \in ThreadAt
    BY <1>2 DEF StartCompiling, Compiled, Aborted, ClearCompiling, ClearRetrigger, CheckEmpty, ThreadAt
  <2>2. flags' \in BOOLEAN \X BOOLEAN \X {"Uninitialized", "Success", "Failed"}
    BY <1>0, <1>2, Zenon DEF TypeOK, flags, StartCompiling, Compiled, Aborted, ClearCompiling,
                      ClearRetrigger, CheckEmpty
  <2> QED  BY <2>1, <2>2, FlagStepIInv
<1>3. CASE Notify
  BY <1>3, NotifyIInv
<1>4. ASSUME NEW h \in Handlers, NEW kind \in Kinds, Begin(h, kind) PROVE IInv'
  BY <1>4, BeginIInv
<1>5. ASSUME NEW h \in Handlers, Poll(h) PROVE IInv'
  BY <1>5, PollIInv
<1>6. CASE UNCHANGED vars
  <2>1. UNCHANGED <<channel, job, handlerVars>> /\ thread' \in ThreadAt
    BY <1>0, <1>6 DEF vars, threadVars, TypeOK
  <2>2. flags' \in BOOLEAN \X BOOLEAN \X {"Uninitialized", "Success", "Failed"}
    BY <1>0, <1>6 DEF vars, TypeOK, flags
  <2> QED  BY <2>1, <2>2, FlagStepIInv
<1> QED  BY <1>1, <1>2, <1>3, <1>4, <1>5, <1>6 DEF Next, Thread

(* The inductive invariant holds in every reachable state.                 *)
THEOREM Invariance == Spec => []IInv
<1> QED  BY InitIInv, NextIInv, PTL DEF Spec

(* The shared state, the thread and the handlers keep their types; in      *)
(* particular the channel never holds more than one message.               *)
THEOREM TypeCorrect == Spec => []TypeOK
<1>1. IInv => TypeOK
  BY DEF IInv
<1> QED  BY <1>1, Invariance, PTL

(* Coalescing never loses the newest request, with any number of handlers. *)
THEOREM NewestAlwaysKept == Spec => []NewestKept
<1>1. IInv => NewestKept
  BY DEF IInv
<1> QED  BY <1>1, Invariance, PTL

(* The compilation thread receives requests in the order they were sent,   *)
(* each at most once, and only the newest.                                 *)
THEOREM JobsAlwaysInOrder == Spec => JobsInOrder
<1>1. ASSUME IInv, [Next]_vars, thread = "recv", thread' = "prepare"
      PROVE  job' > job /\ job' = sent
  <2>0. TypeOK /\ PendingIsNewest
    BY <1>1 DEF IInv
  <2>1. RecvContext
    <3>1. ~UNCHANGED thread
      BY <1>1
    <3>2. \A h \in Handlers : ~Poll(h)
      BY <3>1 DEF Poll, threadVars, GiveUp, LoadIsCompiling, StoreRetrigger, CheckFull, Drain,
         SendChange, SendAndWait, OpenFirst, OpenCompiled, StoreIsCompiling, WaitLoad,
         WaitReadState, WaitPending, WaitOver, Park, ShutdownDrain, SendTerminate
    <3>3. \A h \in Handlers, kind \in Kinds : ~Begin(h, kind)
      BY <3>1 DEF Begin, threadVars
    <3>4. Thread
      BY <1>1, <3>1, <3>2, <3>3 DEF Next, vars, threadVars
    <3> QED  BY <1>1, <3>4 DEF Thread, RecvTerminate, StartCompiling, Compiled, Aborted,
                    ClearCompiling, ClearRetrigger, CheckEmpty, Notify
  <2>2. PICK n \in 0..sent : channel = <<n>>
    BY <2>0, <2>1 DEF TypeOK, RecvContext
  <2>3. job' = n /\ n # 0
    BY <2>1, <2>2 DEF RecvContext, Terminate
  <2> QED  BY <2>0, <2>2, <2>3 DEF TypeOK, PendingIsNewest
<1>2. IInv /\ [Next]_vars => [thread = "recv" /\ thread' = "prepare" => job' > job /\ job' = sent]_vars
  BY <1>1
<1> QED  BY <1>2, Invariance, PTL DEF Spec, JobsInOrder

(* did_save and did_open never leave wait_for_parsing before the thread    *)
(* has received their request or a newer one, unless the server shuts      *)
(* down.                                                                   *)
THEOREM AlwaysTakenBeforeReturn == Spec => TakenBeforeReturn
<1>1. ASSUME IInv, [Next]_vars, NEW h \in Handlers, handler[h].req # 0, handler'[h].at = "idle"
      PROVE  job >= handler[h].req \/ closed
  <2>0. TypeOK /\ HandlersOK /\ NewestKept
    BY <1>1 DEF IInv
  <2>1. handler[h].at \in Waiting
    BY <1>1, <2>0 DEF HandlersOK, HandlerOK
  <2>2. handler'[h] # handler[h]
    BY <1>1, <2>1 DEF Waiting
  <2>3. ~Thread
    <3>1. ~UNCHANGED handler
      BY <2>2
    <3>2. ~Notify
      <4>1. Notify => handler'[h].at \in {handler[h].at, "woken"}
        BY <2>0 DEF TypeOK, Notify
      <4> QED  BY <1>1, <2>1, <4>1 DEF Waiting
    <3> QED  BY <3>1, <3>2 DEF Thread, handlerVars, RecvContext, RecvTerminate, StartCompiling,
                    Compiled, Aborted, ClearCompiling, ClearRetrigger, CheckEmpty
  <2>4. ASSUME NEW g \in Handlers, NEW kind \in Kinds, Begin(g, kind) PROVE FALSE
    BY <2>0, <2>1, <2>2, <2>4 DEF TypeOK, Begin, Waiting
  <2>5. ASSUME NEW g \in Handlers, Poll(g) PROVE g = h
    BY <2>0, <2>2, <2>5 DEF TypeOK, Poll, Return, Continue, Await, GiveUp, LoadIsCompiling,
       StoreRetrigger, CheckFull, Drain, SendChange, SendAndWait, OpenFirst, OpenCompiled,
       StoreIsCompiling, WaitLoad, WaitReadState, WaitPending, WaitOver, Park, ShutdownDrain,
       SendTerminate
  <2>6. Poll(h)
    BY <1>1, <2>2, <2>3, <2>4, <2>5 DEF Next, vars, handlerVars
  <2>7. WaitOver(h)
    BY <1>1, <2>0, <2>1, <2>6 DEF TypeOK, Waiting, Poll, Return, Continue, Await, GiveUp,
       LoadIsCompiling, StoreRetrigger, CheckFull, Drain, SendChange, SendAndWait, OpenFirst,
       OpenCompiled, StoreIsCompiling, WaitLoad, WaitReadState, WaitPending, Park,
       ShutdownDrain, SendTerminate
  <2>8. \A g \in Handlers : ~Replacing(g)
    BY <2>0, <2>7, HandlersAssumption DEF WaitOver, HandlersOK, HandlerOK, Segment, Replacing
  <2>9. Withdrawn \/ job = sent
    BY <2>0, <2>7, <2>8 DEF NewestKept, WaitOver
  <2> QED  BY <2>0, <2>9 DEF Withdrawn, TypeOK
<1>2. IInv /\ [Next]_vars =>
        [\A h \in Handlers : handler[h].req # 0 /\ handler'[h].at = "idle"
           => job >= handler[h].req \/ closed]_vars
  BY <1>1
<1> QED  BY <1>2, Invariance, PTL DEF Spec, TakenBeforeReturn

-----------------------------------------------------------------------------
(* LspCompilation implements CompilationSlot.                              *)

(* A step that leaves what the mailbox sees alone is a stuttering step.    *)
LEMMA SlotStutter ==
  ASSUME sent' = sent, job' = job, channel' = channel,
         Submitting' <=> Submitting, Withdrawn' <=> Withdrawn
  PROVE  UNCHANGED Slot!vars
BY DEF Slot!vars, Latest, Pending, Submitting, Withdrawn

(* While the task runs h, or nobody, no other handler replaces a request.  *)
LEMMA NobodyElse ==
  ASSUME IInv, NEW h \in Handlers, running \in {"none", h}
  PROVE  \A g \in Handlers \ {h} : handler[g].at \notin Segment /\ ~Replacing(g)
BY HandlersAssumption DEF IInv, HandlersOK, HandlerOK, Segment, Replacing

(* Receiving a request takes it; receiving Terminate is invisible.         *)
LEMMA RecvSlot ==
  ASSUME IInv, RecvContext \/ RecvTerminate
  PROVE  [Slot!Next]_(Slot!vars)
<1>0. TypeOK
  BY DEF IInv
<1>1. channel # <<>> /\ channel' = Tail(channel) /\ UNCHANGED handlerVars
  BY DEF RecvContext, RecvTerminate
<1>2. PICK n \in 0..sent : channel = <<n>>
  BY <1>0, <1>1 DEF TypeOK
<1>3. ~Submitting /\ ~Submitting' /\ (Withdrawn' <=> Withdrawn)
  BY <1>1 DEF IInv, HandlersOK, HandlerOK, Submitting, Replacing, Withdrawn, handlerVars
<1>4. Latest' = Latest /\ Pending' = 0
  BY <1>1, <1>2, <1>3 DEF Latest, Pending, handlerVars
<1>5. CASE RecvContext
  <2>1. n # 0 /\ job' = n
    BY <1>2, <1>5 DEF RecvContext, Terminate
  <2>2. Pending = n
    BY <1>2, <1>3, <2>1 DEF Pending, Terminate
  <2> QED  BY <1>3, <1>4, <2>1, <2>2 DEF Slot!Next, Slot!Take, Withdrawn
<1>6. CASE RecvTerminate
  <2>1. n = 0 /\ job' = job
    BY <1>2, <1>6 DEF RecvTerminate, Terminate
  <2>2. Pending = 0
    BY <1>2, <1>3, <2>1 DEF Pending, Terminate
  <2> QED  BY <1>3, <1>4, <2>1, <2>2 DEF Slot!vars, Withdrawn
<1> QED  BY <1>5, <1>6

(* A handler that moves on is invisible, except that did_change and        *)
(* did_save submit their request when they reach the send.                 *)
LEMMA MoveSlot ==
  ASSUME IInv, NEW h \in Handlers, NEW a, Moves(h, a)
  PROVE  [Slot!Next]_(Slot!vars)
<1>0. TypeOK /\ ~Replacing(h)
  BY DEF IInv, Moves, Replacing
<1>1. /\ handler'[h].at = a /\ handler'[h].kind = handler[h].kind
      /\ \A g \in Handlers \ {h} : handler'[g] = handler[g]
  BY <1>0 DEF TypeOK, Moves
<1>2. UNCHANGED <<channel, sent, job, closed>>
  BY DEF Moves, threadVars
<1>3. \A g \in Handlers \ {h} : ~Replacing(g) /\ ~Replacing(g)'
  BY <1>1, NobodyElse DEF Moves, Replacing
<1>4. Withdrawn' <=> Withdrawn
  BY <1>1, <1>2 DEF Withdrawn, Moves
<1>5. ~Submitting /\ (Submitting' <=> Replacing(h)')
  BY <1>0, <1>3 DEF Submitting
<1>6. CASE ~Replacing(h)'
  BY <1>2, <1>4, <1>5, <1>6, SlotStutter
<1>7. CASE Replacing(h)'
  <2>1. Latest' = Latest + 1 /\ Pending' = Latest + 1
    BY <1>2, <1>5, <1>7 DEF Latest, Pending
  <2> QED  BY <1>2, <1>4, <2>1 DEF Slot!Next, Slot!Submit, Withdrawn
<1> QED  BY <1>6, <1>7

(* Returning to the client is invisible.                                   *)
LEMMA ReturnSlot ==
  ASSUME IInv, NEW h \in Handlers, Returns(h)
  PROVE  UNCHANGED Slot!vars
<1> USE DEF Returns
<1>0. TypeOK
  BY DEF IInv
<1>1. handler'[h] = Idle /\ \A g \in Handlers \ {h} : handler'[g] = handler[g]
  BY <1>0 DEF TypeOK, Return
<1>2. Withdrawn' <=> Withdrawn
  BY <1>1 DEF Withdrawn, Idle
<1>3. Submitting' <=> Submitting
  BY <1>1 DEF Submitting, Replacing, Idle
<1> QED  BY <1>2, <1>3, SlotStutter DEF threadVars

(* Draining submits the request that takes the place of the drained one;   *)
(* the drain of shutdown_server closes the mailbox.                        *)
LEMMA DrainSlot ==
  ASSUME IInv, NEW h \in Handlers, Drain(h) \/ ShutdownDrain(h)
  PROVE  Slot!Next
<1>0. TypeOK
  BY DEF IInv
<1>1. /\ channel' = <<>> /\ running \in {"none", h} /\ ~Replacing(h)
      /\ UNCHANGED <<sent, job, closed>>
  BY DEF Drain, ShutdownDrain, threadVars, Replacing
<1>2. /\ handler'[h].kind = handler[h].kind
      /\ \A g \in Handlers \ {h} : handler'[g] = handler[g]
  BY <1>0 DEF TypeOK, Drain, ShutdownDrain, Continue
<1>3. \A g \in Handlers \ {h} : ~Replacing(g) /\ ~Replacing(g)'
  BY <1>1, <1>2, NobodyElse DEF Replacing
<1>4. ~Submitting /\ (Submitting' <=> Replacing(h)')
  BY <1>1, <1>3 DEF Submitting
<1>5. CASE Drain(h)
  <2>1. handler[h].at = "drain" /\ handler'[h].at = "send"
    BY <1>0, <1>5 DEF TypeOK, Drain, Continue
  <2>2. Replacing(h)'
    BY <1>2, <2>1 DEF Replacing, IInv, HandlersOK, HandlerOK
  <2>3. Withdrawn' <=> Withdrawn
    BY <1>1, <1>2, <2>1 DEF Withdrawn
  <2>4. Latest' = Latest + 1 /\ Pending' = Latest + 1
    BY <1>1, <1>4, <2>2 DEF Latest, Pending
  <2> QED  BY <1>1, <2>3, <2>4 DEF Slot!Next, Slot!Submit, Withdrawn
<1>6. CASE ShutdownDrain(h)
  <2>1. /\ handler[h].at = "handling" /\ handler[h].kind = "shutdown"
        /\ handler'[h].at = "retrigger"
    BY <1>0, <1>6 DEF TypeOK, ShutdownDrain, Continue
  <2>2. ~Submitting'
    BY <1>4, <2>1 DEF Replacing
  <2>3. Latest' = Latest /\ Pending' = 0
    BY <1>1, <1>4, <2>2 DEF Latest, Pending
  <2>4. ~Withdrawn
    BY <2>1 DEF Withdrawn
  <2>5. closed
    BY <2>1 DEF IInv, HandlersOK, HandlerOK
  <2>6. Withdrawn'
    BY <1>1, <1>2, <2>1, <2>5 DEF Withdrawn, IInv, OneShutdown
  <2>7. Withdrawn' = TRUE
    BY <2>6 DEF Withdrawn
  <2> QED  BY <1>1, <2>3, <2>4, <2>7 DEF Slot!Next, Slot!Close
<1> QED  BY <1>5, <1>6

(* The send of did_change or did_save is invisible, they submitted before; *)
(* the send of did_open submits; Terminate is invisible.                   *)
LEMMA SendSlot ==
  ASSUME IInv, NEW h \in Handlers, SendChange(h) \/ SendAndWait(h) \/ SendTerminate(h)
  PROVE  [Slot!Next]_(Slot!vars)
<1>0. TypeOK
  BY DEF IInv
<1>1. /\ running = h /\ handler[h].at \in {"send", "terminate"}
      /\ channel = <<>> /\ UNCHANGED <<job, closed>>
  BY DEF SendChange, SendAndWait, SendTerminate, Push, threadVars
<1>2. /\ handler'[h].at \in {"idle", "set_flag", "wait"}
      /\ \A g \in Handlers \ {h} : handler'[g] = handler[g]
  BY <1>0 DEF TypeOK, SendChange, SendAndWait, SendTerminate, Return, Idle
<1>3. \A g \in Handlers \ {h} : ~Replacing(g) /\ ~Replacing(g)'
  BY <1>1, <1>2, NobodyElse DEF Replacing
<1>4. ~Submitting' /\ (Submitting <=> Replacing(h))
  BY <1>2, <1>3 DEF Submitting, Replacing
<1>5. Withdrawn' <=> Withdrawn
  BY <1>1, <1>2 DEF Withdrawn
<1>6. CASE SendTerminate(h)
  <2>1. ~Submitting /\ channel' = <<Terminate>> /\ sent' = sent
    BY <1>4, <1>6 DEF SendTerminate, Replacing
  <2>2. Latest' = Latest /\ Pending' = Pending
    BY <1>1, <1>4, <2>1 DEF Latest, Pending
  <2> QED  BY <1>1, <1>5, <2>2 DEF Slot!vars, Withdrawn
<1>7. CASE SendChange(h) \/ SendAndWait(h)
  <2>1. channel' = <<sent + 1>> /\ sent' = sent + 1
    BY <1>7 DEF SendChange, SendAndWait, Push
  <2>2. channel' # <<>> /\ channel' # <<Terminate>> /\ Head(channel') = sent + 1
    BY <1>0, <2>1 DEF Terminate, TypeOK
  <2>3. Latest' = sent + 1 /\ Pending' = sent + 1
    BY <1>4, <2>1, <2>2 DEF Latest, Pending
  <2>4. CASE Submitting
    <3>1. Latest = sent + 1 /\ Pending = sent + 1
      BY <2>4 DEF Latest, Pending
    <3> QED  BY <1>1, <1>5, <2>3, <3>1 DEF Slot!vars, Withdrawn
  <2>5. CASE ~Submitting
    <3>1. Latest = sent
      BY <2>5 DEF Latest
    <3> QED  BY <1>1, <1>5, <2>3, <3>1 DEF Slot!Next, Slot!Submit, Withdrawn
  <2> QED  BY <2>4, <2>5
<1> QED  BY <1>6, <1>7

(* Every step is a step of the mailbox or invisible to it.                 *)
LEMMA NextSlot == IInv /\ [Next]_vars => [Slot!Next]_(Slot!vars)
<1> SUFFICES ASSUME IInv, [Next]_vars PROVE [Slot!Next]_(Slot!vars)
  OBVIOUS
<1>0. TypeOK
  BY DEF IInv
<1>1. CASE RecvContext \/ RecvTerminate
  BY <1>1, RecvSlot
<1>2. CASE StartCompiling \/ Compiled \/ Aborted \/ ClearCompiling \/ ClearRetrigger \/ CheckEmpty
           \/ UNCHANGED vars
  <2>1. UNCHANGED <<channel, job, handlerVars>>
    BY <1>2 DEF StartCompiling, Compiled, Aborted, ClearCompiling, ClearRetrigger, CheckEmpty,
                vars, threadVars
  <2>2. (Submitting' <=> Submitting) /\ (Withdrawn' <=> Withdrawn)
    BY <2>1 DEF Submitting, Replacing, Withdrawn, handlerVars
  <2> QED  BY <2>1, <2>2, SlotStutter DEF handlerVars
<1>3. CASE Notify
  <2>1. UNCHANGED <<channel, job, sent, closed>>
    BY <1>3 DEF Notify
  <2>2. \A g \in Handlers :
          /\ handler'[g].kind = handler[g].kind
          /\ \/ handler'[g].at = handler[g].at
             \/ handler[g].at = "parked" /\ handler'[g].at = "woken"
    BY <1>0, <1>3, NotifyFacts
  <2>3. (Submitting' <=> Submitting) /\ (Withdrawn' <=> Withdrawn)
    BY <2>1, <2>2 DEF Submitting, Replacing, Withdrawn
  <2> QED  BY <2>1, <2>3, SlotStutter
<1>4. ASSUME NEW h \in Handlers, NEW kind \in Kinds, Begin(h, kind)
      PROVE  [Slot!Next]_(Slot!vars)
  <2>1. /\ UNCHANGED <<channel, job, sent>> /\ ~closed /\ handler[h].at = "idle"
        /\ closed' = (kind = "shutdown")
    BY <1>4 DEF Begin, threadVars
  <2>2. /\ handler'[h] = [kind |-> kind, at |-> "handling", req |-> 0]
        /\ \A g \in Handlers \ {h} : handler'[g] = handler[g]
    BY <1>0, <1>4 DEF TypeOK, Begin
  <2>3. ~Withdrawn /\ ~Withdrawn'
    <3>1. handler'[h].at = "handling" /\ handler'[h].kind = kind
      BY <2>2
    <3>2. CASE kind = "shutdown"
      BY <2>1, <3>1, <3>2 DEF Withdrawn
    <3>3. CASE kind # "shutdown"
      BY <2>1, <3>3, Zenon DEF Withdrawn
    <3> QED  BY <3>2, <3>3
  <2>4. Submitting' <=> Submitting
    BY <2>1, <2>2 DEF Submitting, Replacing
  <2> QED  BY <2>1, <2>3, <2>4, SlotStutter
<1>5. ASSUME NEW h \in Handlers, Poll(h) PROVE [Slot!Next]_(Slot!vars)
  BY <1>5, PollCases, MoveSlot, ReturnSlot, DrainSlot, SendSlot
<1> QED  BY <1>1, <1>2, <1>3, <1>4, <1>5 DEF Next, Thread

(* The protocol of flags, drain and bounded channel implements the         *)
(* one-place mailbox in which the newest request wins.                     *)
THEOREM ImplementsMailbox == Spec => ImplementsSlotSafety
<1>1. Init => Slot!Init
  BY DEF Init, Slot!Init, Latest, Pending, Submitting, Replacing, Withdrawn, Idle
<1> QED  BY <1>1, NextSlot, Invariance, PTL DEF Spec, ImplementsSlotSafety, Slot!Spec
=============================================================================
