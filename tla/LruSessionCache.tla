--------------------------- MODULE LruSessionCache ---------------------------
(***************************************************************************)
(* The language server's cache of project sessions (LruSessionCache,       *)
(* sway-lsp/src/server_state.rs) together with the only code that fills    *)
(* it, ServerState::url_to_session.                                        *)
(*                                                                         *)
(* Every LSP handler starts by turning a document url into the session of  *)
(* its project.  Handlers run interleaved on one async task: what lies     *)
(* between two awaits is one step, and url_to_session awaits once, in      *)
(* session.init(), between the lookup that missed and the insert.          *)
(*                                                                         *)
(* A project is its manifest directory (a member of Paths): the manifest   *)
(* cache that maps a url to it never forgets and is left out.              *)
(***************************************************************************)
EXTENDS Naturals, FiniteSets, SequencesExt

CONSTANTS
  Paths,        \* manifest directories
  Handlers,     \* concurrently running LSP handlers
  Sessions,     \* Session objects; one that nobody refers to is free again
  Capacity      \* DEFAULT_SESSION_CACHE_CAPACITY

ASSUME CapacityAssumption == Capacity \in Nat \ {0}
ASSUME PathsAssumption == IsFiniteSet(Paths)

VARIABLES
  sessions,     \* DashMap<PathBuf, Arc<Session>>: path -> session
  usage_order,  \* VecDeque<PathBuf>, most recent at the front
  call,         \* per handler: where its url_to_session call is
  recency       \* observer: the paths by their last lookup, most recent first

vars == <<sessions, usage_order, call, recency>>

Calls ==
  [at : {"idle"}] \cup
  [at : {"init", "holds"}, path : Paths, session : Sessions]

Idle == [at |-> "idle"]

Init ==
  /\ sessions = <<>>
  /\ usage_order = <<>>
  /\ call = [h \in Handlers |-> Idle]
  /\ recency = <<>>

-----------------------------------------------------------------------------
(* The cache's operations, on a map and an order.                          *)

\* As the check would be with the comparison off by one.
IsFullOffByOne(map) == Cardinality(DOMAIN map) > Capacity

IsFull(map) == Cardinality(DOMAIN map) >= Capacity

MoveToFront(order, p) == <<p>> \o RemoveFirst(order, p)

\* As get would be if it forgot that a hit must be found again: the order
\* keeps the old entry beside the new one.
GetOrderTwice(map, order, p) == IF IsFull(map) THEN <<p>> \o order ELSE order

\* As get would be if it never touched the order.
GetOrderNever(map, order, p) == order

\* get: a hit is moved to the front only when the cache is at capacity.
GetOrder(map, order, p) ==
  IF IsFull(map) THEN MoveToFront(order, p) ELSE order

\* The map and the order after evict_least_used.
EvictLeastUsed(map, order) ==
  IF order = <<>>
  THEN [map |-> map, order |-> order]
  ELSE [map |-> Restrict(map, DOMAIN map \ {Last(order)}), order |-> Front(order)]

Put(map, p, s) == [q \in DOMAIN map \cup {p} |-> IF q = p THEN s ELSE map[q]]

\* insert: overwrite and touch, or make room and add.
Insert(map, order, p, s) ==
  IF p \in DOMAIN map
  THEN [map |-> Put(map, p, s), order |-> MoveToFront(order, p)]
  ELSE LET room == IF IsFull(map)
                   THEN EvictLeastUsed(map, order)
                   ELSE [map |-> map, order |-> order]
       IN  [map |-> Put(room.map, p, s), order |-> <<p>> \o room.order]

-----------------------------------------------------------------------------
(* url_to_session.                                                         *)

\* The sessions the cache or a handler holds an Arc of.
Live ==
  {sessions[p] : p \in DOMAIN sessions} \cup
  {call[h].session : h \in {g \in Handlers : call[g] # Idle}}

\* The session is cached: return it.
SessionCached(h, p) ==
  /\ call[h] = Idle
  /\ p \in DOMAIN sessions
  /\ usage_order' = GetOrder(sessions, usage_order, p)
  /\ call' = [call EXCEPT ![h] = [at |-> "holds", path |-> p, session |-> sessions[p]]]
  /\ recency' = MoveToFront(recency, p)
  /\ UNCHANGED sessions

\* It is not: create one and await its init().
SessionMissing(h, p) ==
  /\ call[h] = Idle
  /\ p \notin DOMAIN sessions
  /\ \E s \in Sessions \ Live :
       call' = [call EXCEPT ![h] = [at |-> "init", path |-> p, session |-> s]]
  /\ UNCHANGED <<sessions, usage_order, recency>>

\* init() returned an error: the handler gives up, the session is dropped.
InitFails(h) ==
  /\ call[h].at = "init"
  /\ call' = [call EXCEPT ![h] = Idle]
  /\ UNCHANGED <<sessions, usage_order, recency>>

\* init() is done: put the new session in the cache and go on with it.
InitDone(h) ==
  /\ call[h].at = "init"
  /\ LET p == call[h].path
         after == Insert(sessions, usage_order, p, call[h].session)
     IN  /\ sessions' = after.map
         /\ usage_order' = after.order
         /\ recency' = MoveToFront(recency, p)
  /\ call' = [call EXCEPT ![h].at = "holds"]

\* The handler returns and drops its reference to the session.
HandlerDone(h) ==
  /\ call[h].at = "holds"
  /\ call' = [call EXCEPT ![h] = Idle]
  /\ UNCHANGED <<sessions, usage_order, recency>>

Next ==
  \E h \in Handlers :
    \/ \E p \in Paths : SessionCached(h, p) \/ SessionMissing(h, p)
    \/ InitFails(h)
    \/ InitDone(h)
    \/ HandlerDone(h)

Spec == Init /\ [][Next]_vars

-----------------------------------------------------------------------------
(* Type invariant of the cache and of the running url_to_session calls;    *)
(* the order's length is the cache's size, which Capacity bounds.          *)
TypeOK ==
  /\ DOMAIN sessions \subseteq Paths
  /\ sessions \in [DOMAIN sessions -> Sessions]
  /\ usage_order \in Seq(Paths)
  /\ Len(usage_order) <= Capacity
  /\ call \in [Handlers -> Calls]
  /\ recency \in Seq(Paths)

(* The two structures that insert, get and evict_least_used update one     *)
(* after the other agree: the usage order lists every cached path exactly  *)
(* once and no other, whatever lookups and inserts of different handlers   *)
(* interleave; so eviction always finds its victim in the map.             *)
OrderMatchesMap ==
  /\ IsInjective(usage_order)
  /\ ToSet(usage_order) = DOMAIN sessions

(* An insert that makes room never drops the project used last, provided   *)
(* there is room for two: get may leave the order alone below capacity,    *)
(* but by the time anything is evicted the latest lookup is at the front.  *)
LastUsedSurvives ==
  [][Capacity > 1 /\ recency # <<>> => recency[1] \in DOMAIN sessions']_vars
=============================================================================
