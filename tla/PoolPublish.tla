---------------------------- MODULE PoolPublish ----------------------------
(***************************************************************************)
(* Publishing and idle eviction in the relay pool:                         *)
(*   src/lib/relays/relay-pool.ts, relay-publish-waiters.ts,               *)
(*   relay-pool-idle.ts, relay-pool-health.ts                              *)
(*                                                                         *)
(* The client of a relay (module RelayClient) is reduced to what these     *)
(* parts see of it: its connection, the EVENT frames in its send queue and *)
(* those it sent on the connection.  A call of publish is made per relay.  *)
(***************************************************************************)
EXTENDS Integers, FiniteSets

CONSTANTS Relays, Events,
          MaxSubs,   \* bound: subscriptions open at a time on one relay
          MaxFrames  \* bound: EVENT frames of one event queued on one client

VARIABLES
  connections,   \* the entry in clients: "none", or its connection state
  retry,         \* the client has a reconnect timer
  queue,         \* queue[r][e]: EVENT frames of e in the send queue of r
  frames,        \* frames[r][e]: frames of e sent on the connection of r
                 \* since it opened or e was last published
  openedOnce,    \* relays in the recorder's openedOnce
  waiters,       \* waiters[r]: events with a publish waiter on r
  pendingEvents, \* pendingPublishEvents
  active,        \* active[r]: the idle tracker's count
  idleTimer,     \* relays with an idle timer
  subs,          \* subs[r]: open subscriptions that include r
  acks,          \* external: acks[r], OK messages on their way from r
  poolClosed     \* the pool was closed; nothing new is asked of it

clientVars == <<connections, retry, queue, frames, openedOnce, acks>>
idle       == <<active, idleTimer>>
poolVars   == <<clientVars, waiters, pendingEvents, idle, subs, poolClosed>>

PoolInit == /\ connections = [r \in Relays |-> "none"]
            /\ retry = {}
            /\ queue = [r \in Relays |-> [e \in Events |-> 0]]
            /\ frames = [r \in Relays |-> [e \in Events |-> 0]]
            /\ openedOnce = {}
            /\ waiters = [r \in Relays |-> {}]
            /\ pendingEvents = {}
            /\ active = [r \in Relays |-> 0]
            /\ idleTimer = {}
            /\ subs = [r \in Relays |-> 0]
            /\ acks = [r \in Relays |-> {}]
            /\ poolClosed = FALSE

----------------------------------------------------------------------------
(* The idle tracker *)

\* idle.begin
BeginWork(r) == /\ idleTimer' = idleTimer \ {r}
                /\ active' = [active EXCEPT ![r] = @ + 1]

\* idle.end: the last work that ends starts the timer, if there is a client.
EndWork(r) == /\ active' = [active EXCEPT ![r] = IF @ = 0 THEN 0 ELSE @ - 1]
              /\ idleTimer' = IF active'[r] = 0 /\ connections[r] # "none"
                              THEN idleTimer \cup {r} ELSE idleTimer

\* The idle timer fires: without work the client is closed and deleted.
IdleFires(r) ==
  /\ r \in idleTimer
  /\ idleTimer' = idleTimer \ {r}
  /\ IF active[r] > 0 \/ connections[r] = "none"
     THEN UNCHANGED clientVars
     ELSE /\ connections' = [connections EXCEPT ![r] = "none"]
          /\ retry' = retry \ {r}
          /\ queue' = [queue EXCEPT ![r] = [e \in Events |-> 0]]
          /\ frames' = [frames EXCEPT ![r] = [e \in Events |-> 0]]
          /\ acks' = [acks EXCEPT ![r] = {}]
          /\ UNCHANGED openedOnce
  /\ UNCHANGED <<waiters, pendingEvents, active, subs, poolClosed>>

----------------------------------------------------------------------------
(* Calls *)

\* connect(): a client that is new or down starts a connection.
Connects(r) ==
  /\ connections' = [connections EXCEPT ![r] = IF @ \in {"none", "down"} THEN "connecting" ELSE @]
  /\ retry' = retry \ {r}

\* publishOne for an event without a waiter; with one the caller shares its
\* promise and nothing changes.
Publish(r, e) ==
  /\ ~poolClosed /\ e \notin waiters[r] /\ queue[r][e] < MaxFrames
  /\ waiters' = [waiters EXCEPT ![r] = @ \cup {e}]
  /\ pendingEvents' = pendingEvents \cup {e}
  /\ BeginWork(r)
  /\ Connects(r)
  /\ IF connections[r] = "open"
     THEN frames' = [frames EXCEPT ![r][e] = 1] /\ UNCHANGED queue
     ELSE queue' = [queue EXCEPT ![r][e] = @ + 1] /\ UNCHANGED frames
  /\ UNCHANGED <<openedOnce, acks, subs, poolClosed>>

\* subscribe, seen at one of its relays
Subscribe(r) ==
  /\ ~poolClosed /\ subs[r] < MaxSubs
  /\ subs' = [subs EXCEPT ![r] = @ + 1]
  /\ BeginWork(r)
  /\ Connects(r)
  /\ UNCHANGED <<queue, frames, openedOnce, acks, waiters, pendingEvents, poolClosed>>

\* The cleanup that subscribe returned, at one of its relays.
Unsubscribe(r) ==
  /\ subs[r] > 0
  /\ subs' = [subs EXCEPT ![r] = @ - 1]
  /\ EndWork(r)
  /\ UNCHANGED <<clientVars, waiters, pendingEvents, poolClosed>>

\* close(): settleAll, and everything is cleared.
ClosePool ==
  /\ ~poolClosed
  /\ poolClosed' = TRUE
  /\ waiters' = [r \in Relays |-> {}] /\ pendingEvents' = {}
  /\ active' = [r \in Relays |-> 0] /\ idleTimer' = {}
  /\ connections' = [r \in Relays |-> "none"] /\ retry' = {}
  /\ queue' = [r \in Relays |-> [e \in Events |-> 0]]
  /\ frames' = [r \in Relays |-> [e \in Events |-> 0]]
  /\ acks' = [r \in Relays |-> {}]
  /\ UNCHANGED <<openedOnce, subs>>

----------------------------------------------------------------------------
(* Settling *)

SettleTwice(r, e) ==
  /\ waiters' = [waiters EXCEPT ![r] = @ \ {e}]
  /\ pendingEvents' = IF \E x \in Relays : e \in waiters'[x]
                      THEN pendingEvents ELSE pendingEvents \ {e}
  /\ EndWork(r)

\* resolvePublish: the first settlement removes the waiter and ends its
\* work, a later one finds none; the event goes with its last waiter.
Settle(r, e) ==
  IF e \notin waiters[r] THEN UNCHANGED <<waiters, pendingEvents, idle>>
  ELSE /\ waiters' = [waiters EXCEPT ![r] = @ \ {e}]
       /\ pendingEvents' = IF \E x \in Relays : e \in waiters'[x]
                           THEN pendingEvents ELSE pendingEvents \ {e}
       /\ EndWork(r)

\* The timer of a waiter fires; remove() clears it with the waiter.
PublishTimeout(r, e) ==
  /\ e \in waiters[r]
  /\ Settle(r, e)
  /\ UNCHANGED <<clientVars, subs, poolClosed>>

\* handleMessage of an OK
ReceiveOk(r, e) ==
  /\ e \in acks[r] /\ connections[r] = "open"
  /\ acks' = [acks EXCEPT ![r] = @ \ {e}]
  /\ Settle(r, e)
  /\ UNCHANGED <<connections, retry, queue, frames, openedOnce, subs, poolClosed>>

\* External: the relay answers an EVENT it received.
Acknowledge(r, e) ==
  /\ connections[r] = "open" /\ frames[r][e] > 0
  /\ acks' = [acks EXCEPT ![r] = @ \cup {e}]
  /\ UNCHANGED <<connections, retry, queue, frames, openedOnce, waiters, pendingEvents, idle,
                 subs, poolClosed>>

----------------------------------------------------------------------------
(* The connection *)

\* onopen: the state change makes the recorder resend every pending event of
\* a relay that was open before, and the send queue is drained.
Opens(r) ==
  /\ connections[r] = "connecting"
  /\ connections' = [connections EXCEPT ![r] = "open"]
  /\ openedOnce' = openedOnce \cup {r}
  /\ frames' = [frames EXCEPT ![r] = [e \in Events |->
       IF r \in openedOnce /\ e \in waiters[r] THEN queue[r][e] + 1 ELSE queue[r][e]]]
  /\ queue' = [queue EXCEPT ![r] = [e \in Events |-> 0]]
  /\ UNCHANGED <<retry, acks, waiters, pendingEvents, idle, subs, poolClosed>>

\* The connection or the attempt ends; scheduleReconnect sets a timer while
\* frames are queued or subscriptions are to be restored.
Drops(r) ==
  /\ connections[r] \in {"connecting", "open"}
  /\ connections' = [connections EXCEPT ![r] = "down"]
  /\ retry' = IF subs[r] > 0 \/ \E e \in Events : queue[r][e] > 0 THEN retry \cup {r} ELSE retry
  /\ frames' = [frames EXCEPT ![r] = [e \in Events |-> 0]]
  /\ acks' = [acks EXCEPT ![r] = {}]
  /\ UNCHANGED <<queue, openedOnce, waiters, pendingEvents, idle, subs, poolClosed>>

Reconnect(r) ==
  /\ r \in retry /\ connections[r] = "down"
  /\ Connects(r)
  /\ UNCHANGED <<queue, frames, openedOnce, acks, waiters, pendingEvents, idle, subs, poolClosed>>

PoolNext == \/ \E r \in Relays :
                 \/ Subscribe(r) \/ Unsubscribe(r) \/ IdleFires(r)
                 \/ Opens(r) \/ Drops(r) \/ Reconnect(r)
                 \/ \E e \in Events : \/ Publish(r, e) \/ PublishTimeout(r, e)
                                      \/ ReceiveOk(r, e) \/ Acknowledge(r, e)
            \/ ClosePool

PoolSpec == PoolInit /\ [][PoolNext]_poolVars

----------------------------------------------------------------------------
(* Properties *)

\* Every variable has its type.
PoolTypes == /\ connections \in [Relays -> {"none", "connecting", "open", "down"}]
             /\ retry \subseteq Relays /\ openedOnce \subseteq Relays
             /\ queue \in [Relays -> [Events -> 0..MaxFrames]]
             /\ frames \in [Relays -> [Events -> 0..(MaxFrames + 1)]]
             /\ waiters \in [Relays -> SUBSET Events]
             /\ pendingEvents \subseteq Events
             /\ active \in [Relays -> Nat]
             /\ idleTimer \subseteq Relays
             /\ subs \in [Relays -> 0..MaxSubs]
             /\ acks \in [Relays -> SUBSET Events]
             /\ poolClosed \in BOOLEAN

\* The idle tracker counts the open subscriptions and publish waiters of a
\* relay, however OK, timeout, a late OK and cleanup race to end them, and
\* eviction never takes the client of a relay with work.
ActiveCountsWork ==
  ~poolClosed => \A r \in Relays :
    /\ active[r] = subs[r] + Cardinality(waiters[r])
    /\ active[r] > 0 => connections[r] # "none"
=============================================================================
