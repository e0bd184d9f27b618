---------------------------- MODULE RelayClient ----------------------------
(***************************************************************************)
(* The client of one relay: src/lib/relays/relay-client.ts with its        *)
(* relay-req-scheduler.ts and relay-send-queue.ts.                         *)
(*                                                                         *)
(* The client is one object of the event loop; a task of the loop is an    *)
(* action.  setState notifies the pool's listeners in the middle of a      *)
(* handler, and a listener may end a paged read, which calls back into     *)
(* closeSubscription; between the error and the close event of a socket    *)
(* promise continuations run, which may call anything.  pc says where a    *)
(* handler is suspended that way.                                          *)
(*                                                                         *)
(* An id is a subscription id; a frame REQ or CLOSE is its id.  Sending    *)
(* reaches the relay at once, its answers take time.  The name of a socket *)
(* is used again once none of its events can happen any more.              *)
(***************************************************************************)
EXTENDS Integers, Sequences, FiniteSets

CONSTANTS Ids,        \* subscription ids in use
          Live,       \* those with strategy 'forward'; the rest are paged reads
          Oversized,  \* those whose REQ exceeds the message limit of the relay
          Sockets,    \* names for WebSocket objects
          None,
          MaxActive,  \* the relay's max_subscriptions, unlimited if >= |Ids|
          MaxPending, \* maxPendingRelayReqs
          Kinds       \* the answers of the relay: "eose", "reason", "empty"

ASSUME ClientAssumption == None \notin Sockets /\ MaxPending \in Nat \ {0}

VARIABLES
  state,          \* RelayConnectionState
  socket,         \* the variable socket: a name or None
  socks,          \* what each WebSocket object is at
  attached,       \* the sockets whose handlers are set
  armed,          \* connect timers that will fire, by socket
  connectTimer,   \* the timer the variable connectTimer holds
  reconnectTimer, \* a reconnect timer is set
  opened,         \* openCount > 0
  finallyClosed,
  queue,          \* REQ frames in the send queue
  active,         \* reqs.activeIds
  pending,        \* the pending REQs of the scheduler
  known,          \* ids with filters and options (filtersBySub, optionsBySub)
  expired,        \* paged ids whose deadlineBySub has passed
  eose,           \* eoseBySub
  closedBy,       \* closedBySub, the reason told apart only as empty or not
  closeSent,      \* closeSentBySub
  pc,             \* where the running handler is suspended
  wanted,         \* ids the pool subscribed and has not closed
  remote,         \* external: subscriptions the relay has open on a socket
  answers         \* external: EOSE and CLOSED messages on their way

net   == <<state, socket, socks, attached, armed, connectTimer, reconnectTimer>>
table == <<known, expired, eose, closedBy, closeSent>>
relay == <<remote, answers>>
clientVars ==
    <<net, opened, finallyClosed, queue, active, pending, table, pc, wanted, relay>>

States   == {"idle", "connecting", "open", "closed", "error"}
Statuses == {"unused", "connecting", "open", "closing", "failed"}
Reasons  == {"no", "reason", "empty"}

ClientInit ==
    /\ state = "idle" /\ socket = None
    /\ socks = [s \in Sockets |-> "unused"]
    /\ attached = {} /\ armed = {}
    /\ connectTimer = None /\ reconnectTimer = FALSE
    /\ opened = FALSE /\ finallyClosed = FALSE
    /\ queue = {} /\ active = {} /\ pending = <<>>
    /\ known = {} /\ expired = {} /\ eose = {} /\ closeSent = {}
    /\ closedBy = [i \in Ids |-> "no"]
    /\ pc = "none" /\ wanted = {}
    /\ remote = [s \in Sockets |-> {}]
    /\ answers = {}

----------------------------------------------------------------------------
(* The scheduler *)

Waiting == {pending[k] : k \in DOMAIN pending}

\* release(): start pending REQs, oldest first, while there is room.  An
\* oversized REQ is popped, refused and gives its place back at once.
Fill(act, pend) ==
  LET room    == MaxActive - Cardinality(act)
      fits(k) == {pend[j] : j \in 1..k} \ Oversized
      full(k) == Cardinality(fits(k)) >= room
      k       == CHOOSE n \in 0..Len(pend) :
                   /\ full(n) \/ n = Len(pend)
                   /\ \A m \in 0..(n - 1) : ~full(m)
  IN  [active  |-> act \cup fits(k),
       pending |-> SubSeq(pend, k + 1, Len(pend)),
       started |-> fits(k)]

DropAt(q, j) == SubSeq(q, 1, j - 1) \o SubSeq(q, j + 1, Len(q))
\* pending.filter(item => item.id !== id): an id is pending at most once.
Without(q, i) == IF \E j \in DOMAIN q : q[j] = i
                 THEN DropAt(q, CHOOSE j \in DOMAIN q : q[j] = i) ELSE q

\* pending.push, after making room at the cap: the first paged REQ goes, or
\* the first REQ when all are critical.
Enqueue(q, i) ==
  LET paged == {j \in DOMAIN q : q[j] \notin Live}
      j == IF paged = {} THEN 1 ELSE CHOOSE x \in paged : \A y \in paged : x <= y
  IN  Append(IF Len(q) >= MaxPending THEN DropAt(q, j) ELSE q, i)

----------------------------------------------------------------------------
(* The connection *)

Connected == socket # None /\ state # "closed"  \* connect() returns early
CanSend   == socket # None /\ socks[socket] = "open" /\ state = "open"

\* The name of a socket that is gone, with no timer left of it.
Free(s) == socks[s] = "unused" /\ s \notin armed

\* connect() past its early returns.
Connect(s) ==
  /\ Free(s)
  /\ state' = "connecting"
  /\ socket' = s
  /\ socks' = [socks EXCEPT ![s] = "connecting"]
  /\ attached' = attached \cup {s}
  /\ armed' = armed \cup {s}
  /\ connectTimer' = s
  /\ reconnectTimer' = FALSE

\* startSubscription for ids, which connects when there is no socket, then
\* the CLOSE frames of gone, which are sent on an open socket only.
Launch(ids, gone) ==
  /\ \/ (ids = {} \/ Connected) /\ UNCHANGED net
     \/ ids # {} /\ ~Connected /\ \E s \in Sockets : Connect(s)
  /\ IF CanSend
     THEN /\ remote' = [remote EXCEPT ![socket] = (@ \cup ids) \ gone]
          /\ UNCHANGED queue
     ELSE /\ queue' = queue \cup ids
          /\ UNCHANGED remote

\* The tables after REQs start and one subscription is forgotten.
Tables(started, forgotten) ==
  /\ known' = (known \ forgotten) \cup started
  /\ expired' = expired \ (started \cup forgotten)
  /\ eose' = eose \ (started \cup forgotten)
  /\ closedBy' = [i \in Ids |-> IF i \in started \cup forgotten THEN "no" ELSE closedBy[i]]
  /\ closeSent' = closeSent \ forgotten

Restorable(i) == i \in Live \/ i \notin expired

ReconnectForQueuesOnly == ~finallyClosed /\ (queue # {} \/ pending # <<>>)

\* shouldReconnect: something is queued, pending or worth restoring.
ShouldReconnect == /\ ~finallyClosed
                   /\ \/ queue # {} \/ pending # <<>>
                      \/ \E i \in active : Restorable(i)

\* CLOSE was sent already, or the relay closed first; '' counts as no reason.
WasClosed(i) == closedBy[i] = "reason" \/ i \in closeSent

----------------------------------------------------------------------------
(* Calls of the pool *)

Subscribe(i) ==
  /\ ~finallyClosed /\ pc \in {"none", "microtasks"} /\ i \notin wanted
  /\ wanted' = wanted \cup {i}
  /\ LET act == active \ {i}
         r   == IF i \in Oversized THEN Fill(act, pending)
                ELSE [active |-> act \cup {i}, pending |-> pending, started |-> {i}]
     IN  IF Cardinality(act) < MaxActive
         THEN /\ active' = r.active /\ pending' = r.pending
              /\ Launch(r.started, {})
              /\ Tables(r.started, {})
         ELSE /\ active' = act
              /\ pending' = Enqueue(Without(pending, i), i)
              /\ UNCHANGED <<net, queue, remote, table>>
  /\ UNCHANGED <<opened, finallyClosed, pc, answers>>

\* closeSubscription.  Inside a handler it is the listener of a paged read
\* that ends because of the state just set.
CloseSubscription(i) ==
  /\ ~finallyClosed /\ i \in wanted
  /\ pc \in {"none", "microtasks"} \/ i \notin Live
  /\ wanted' = wanted \ {i}
  /\ LET r == Fill(active \ {i}, Without(pending, i))
     IN  /\ active' = r.active /\ pending' = r.pending
         /\ Launch(r.started, IF WasClosed(i) THEN {} ELSE {i})
         /\ Tables(r.started, {i})
  /\ UNCHANGED <<opened, finallyClosed, pc, answers>>

\* clearConnectTimer and clearReconnectTimer
StopTimers == /\ armed' = armed \ {connectTimer}
              /\ connectTimer' = None /\ reconnectTimer' = FALSE

\* close(), on idle eviction or when the pool closes: the current socket is
\* detached, and closed if it is open; everything is cleared.
CloseClient ==
  /\ ~finallyClosed /\ pc \in {"none", "microtasks"}
  /\ finallyClosed' = TRUE
  /\ state' = "closed" /\ socket' = None
  /\ socks' = [s \in Sockets |-> IF s = socket THEN "unused" ELSE socks[s]]
  /\ remote' = [s \in Sockets |-> IF s = socket THEN {} ELSE remote[s]]
  /\ answers' = {m \in answers : m.socket # socket}
  /\ attached' = attached \ {socket}
  /\ StopTimers
  /\ queue' = {} /\ active' = {} /\ pending' = <<>> /\ wanted' = {}
  /\ Tables({}, Ids)
  /\ UNCHANGED <<opened, pc>>

----------------------------------------------------------------------------
(* Timers *)

\* timeoutConnect
ConnectTimeout(s) ==
  /\ pc = "none" /\ s \in armed
  /\ armed' = armed \ {s}
  /\ IF state # "connecting"
     THEN UNCHANGED <<state, socket, socks, attached, pc, relay>>
     ELSE /\ state' = "closed" /\ socket' = None
          /\ socks' = [t \in Sockets |-> IF t = socket THEN "unused" ELSE socks[t]]
          /\ attached' = attached \ {socket}
          /\ pc' = "closing"
          /\ UNCHANGED relay
  /\ UNCHANGED <<connectTimer, reconnectTimer, opened, finallyClosed, queue, active,
                 pending, table, wanted>>

\* The timer of scheduleReconnect: forget the socket and connect.
Reconnect ==
  /\ pc = "none" /\ reconnectTimer
  /\ \E s \in Sockets : Connect(s)
  /\ UNCHANGED <<opened, finallyClosed, queue, active, pending, table, pc, wanted, relay>>

\* The deadline of a paged subscription passes.
Expire(i) ==
  /\ pc = "none" /\ i \in known \ (Live \cup expired)
  /\ expired' = expired \cup {i}
  /\ UNCHANGED <<net, opened, finallyClosed, queue, active, pending, known, eose,
                 closedBy, closeSent, pc, wanted, relay>>

----------------------------------------------------------------------------
(* Events of the sockets *)

ClearConnectTimer == armed' = armed \ {connectTimer} /\ connectTimer' = None

\* onopen of the socket in use: on a reopening every restorable subscription
\* is sent again and the others give their place to pending ones; then the
\* send queue is drained.
Opens(s) ==
  /\ pc = "none" /\ s = socket /\ s \in attached /\ socks[s] = "connecting"
  /\ state' = "open" /\ opened' = TRUE
  /\ socks' = [socks EXCEPT ![s] = "open"]
  /\ ClearConnectTimer
  /\ IF opened
     THEN LET r == Fill({i \in active : Restorable(i)}, pending)
          IN  /\ active' = r.active /\ pending' = r.pending
              /\ Tables(r.started, {})
              /\ remote' = [remote EXCEPT ![s] = r.active \cup queue]
     ELSE /\ remote' = [remote EXCEPT ![s] = queue]
          /\ UNCHANGED <<active, pending, table>>
  /\ queue' = {}
  /\ UNCHANGED <<socket, attached, reconnectTimer, finallyClosed, pc, wanted, answers>>

\* onopen of a socket the variable socket no longer refers to: the state and
\* the timers are those of the client, the frames go to the socket in use.
StrayOpens(s) ==
  /\ pc = "none" /\ s # socket /\ s \in attached /\ socks[s] = "connecting"
  /\ opened' = TRUE
  /\ LET r == IF opened THEN Fill({i \in active : Restorable(i)}, pending)
              ELSE [active |-> active, pending |-> pending, started |-> {}]
         again == IF opened THEN r.active ELSE {}
         here  == socket # None /\ socks[socket] = "open"
     IN  /\ active' = r.active /\ pending' = r.pending
         /\ Tables(r.started, {})
         /\ remote' = IF here THEN [remote EXCEPT ![socket] = @ \cup again \cup queue]
                      ELSE remote
         /\ queue' = IF here THEN {} ELSE queue \cup again
         /\ IF socket # None \/ again = {}
            THEN /\ state' = "open"
                 /\ socks' = [socks EXCEPT ![s] = "open"]
                 /\ ClearConnectTimer
                 /\ UNCHANGED <<socket, attached, reconnectTimer>>
            ELSE \E t \in Sockets :
                   /\ Free(t)
                   /\ state' = "connecting" /\ socket' = t
                   /\ socks' = [socks EXCEPT ![s] = "open", ![t] = "connecting"]
                   /\ attached' = attached \cup {t}
                   /\ armed' = (armed \ {connectTimer}) \cup {t}
                   /\ connectTimer' = t /\ reconnectTimer' = FALSE
  /\ UNCHANGED <<finallyClosed, pc, wanted, answers>>

\* The browser has begun to close an open socket; its close event is to come.
StartsClosing(s) ==
  /\ pc = "none" /\ socks[s] = "open"
  /\ socks' = [socks EXCEPT ![s] = "closing"]
  /\ remote' = [remote EXCEPT ![s] = {}]
  /\ UNCHANGED <<state, socket, attached, armed, connectTimer, reconnectTimer, opened,
                 finallyClosed, queue, active, pending, table, pc, wanted, answers>>

\* The relay is gone: nothing of socket s is open there, nothing will come.
Lost(s) == /\ remote' = [remote EXCEPT ![s] = {}]
           /\ answers' = {m \in answers : m.socket # s}

\* onclose, up to setState('closed') and the listeners it notifies.
Closes(s) ==
  /\ s \in attached
  /\ \/ pc = "none" /\ socks[s] \in {"open", "closing"}
     \/ pc = "microtasks" /\ socks[s] = "failed"
  /\ state' = "closed" /\ socket' = None
  /\ socks' = [socks EXCEPT ![s] = "unused"]
  /\ attached' = attached \ {s}
  /\ ClearConnectTimer
  /\ Lost(s)
  /\ pc' = "closing"
  /\ UNCHANGED <<reconnectTimer, opened, finallyClosed, queue, active, pending, table, wanted>>

\* scheduleReconnect, the end of onclose and timeoutConnect.
AfterClosed ==
  /\ pc = "closing"
  /\ reconnectTimer' = (reconnectTimer \/ ShouldReconnect)
  /\ pc' = "none"
  /\ UNCHANGED <<state, socket, socks, attached, armed, connectTimer, opened, finallyClosed,
                 queue, active, pending, table, wanted, relay>>

\* onerror, up to setState('error') and the listeners it notifies.
Fails(s) ==
  /\ pc = "none" /\ s \in attached /\ socks[s] \in {"connecting", "open", "closing"}
  /\ state' = "error"
  /\ socks' = [socks EXCEPT ![s] = "failed"]
  /\ ClearConnectTimer
  /\ Lost(s)
  /\ pc' = "erroring"
  /\ UNCHANGED <<socket, attached, reconnectTimer, opened, finallyClosed, queue, active,
                 pending, table, wanted>>

\* The end of onerror; the close event of the same task is to come.
AfterError ==
  /\ pc = "erroring"
  /\ socket' = None
  /\ reconnectTimer' = (reconnectTimer \/ ShouldReconnect)
  /\ pc' = "microtasks"
  /\ UNCHANGED <<state, socks, attached, armed, connectTimer, opened, finallyClosed,
                 queue, active, pending, table, wanted, relay>>

----------------------------------------------------------------------------
(* Messages *)

\* External: the relay answers a subscription: EOSE, unless the client has
\* it, or CLOSED with or without a reason.
Answer(s, i, kind) ==
  /\ pc = "none" /\ socks[s] = "open" /\ i \in remote[s]
  /\ ~ \E m \in answers : m.socket = s /\ m.id = i
  /\ kind = "eose" => i \notin eose
  /\ answers' = answers \cup {[socket |-> s, id |-> i, kind |-> kind]}
  /\ remote' = IF kind = "eose" THEN remote ELSE [remote EXCEPT ![s] = @ \ {i}]
  /\ UNCHANGED <<net, opened, finallyClosed, queue, active, pending, table, pc, wanted>>

\* handleEoseMessage: a paged subscription is closed at once and gives its
\* place to a pending one; an unknown id counts as 'forward'.
ReceiveEose(m) ==
  /\ pc = "none" /\ m.kind = "eose" /\ m.socket \in attached
  /\ answers' = answers \ {m}
  /\ IF m.id \in known \ Live
     THEN LET r == Fill(active \ {m.id}, pending)
          IN  /\ active' = r.active /\ pending' = r.pending
              /\ Launch(r.started, {m.id})
              /\ known' = known \cup r.started
              /\ expired' = expired \ r.started
              /\ eose' = (eose \cup {m.id}) \ r.started
              /\ closedBy' = [i \in Ids |-> IF i \in r.started THEN "no" ELSE closedBy[i]]
              /\ closeSent' = closeSent \cup {m.id}
     ELSE /\ eose' = eose \cup {m.id}
          /\ UNCHANGED <<net, queue, active, pending, known, expired, closedBy, closeSent, remote>>
  /\ UNCHANGED <<opened, finallyClosed, pc, wanted>>

\* handleClosedMessage
ReceiveClosed(m) ==
  /\ pc = "none" /\ m.kind # "eose" /\ m.socket \in attached
  /\ answers' = answers \ {m}
  /\ LET r == Fill(active \ {m.id}, pending)
     IN  /\ active' = r.active /\ pending' = r.pending
         /\ Launch(r.started, {})
         /\ known' = known \cup r.started
         /\ expired' = expired \ r.started
         /\ eose' = eose \ r.started
         /\ closedBy' = [i \in Ids |-> IF i \in r.started THEN "no"
                                       ELSE IF i = m.id THEN m.kind ELSE closedBy[i]]
  /\ UNCHANGED <<closeSent, opened, finallyClosed, pc, wanted>>

ClientNext ==
    \/ \E i \in Ids : Subscribe(i) \/ CloseSubscription(i) \/ Expire(i)
    \/ CloseClient \/ Reconnect \/ AfterClosed \/ AfterError
    \/ \E s \in Sockets : \/ ConnectTimeout(s) \/ Opens(s) \/ StrayOpens(s)
                          \/ StartsClosing(s) \/ Closes(s) \/ Fails(s)
                          \/ \E i \in Ids, k \in Kinds : Answer(s, i, k)
    \/ \E m \in answers : ReceiveEose(m) \/ ReceiveClosed(m)

\* Handlers run to their end, timers fire, messages arrive, a socket that is going reports its
\* end, and a relay that is tried again and again accepts some connection.
ClientFairness ==
    /\ WF_clientVars(AfterClosed) /\ WF_clientVars(AfterError) /\ WF_clientVars(Reconnect)
    /\ WF_clientVars(\E m \in answers : ReceiveEose(m) \/ ReceiveClosed(m))
    /\ \A s \in Sockets :
          /\ WF_clientVars(ConnectTimeout(s)) /\ SF_clientVars(Opens(s))
          /\ WF_clientVars(socks[s] # "open" /\ Closes(s))

ClientSpec == ClientInit /\ [][ClientNext]_clientVars /\ ClientFairness

----------------------------------------------------------------------------
(* Properties *)

\* Every variable has its type.
ClientTypes ==
  /\ state \in States /\ socket \in Sockets \cup {None}
  /\ socks \in [Sockets -> Statuses]
  /\ attached = {s \in Sockets : socks[s] # "unused"}
  /\ armed \subseteq Sockets /\ connectTimer \in Sockets \cup {None}
  /\ reconnectTimer \in BOOLEAN /\ opened \in BOOLEAN /\ finallyClosed \in BOOLEAN
  /\ queue \subseteq Ids /\ active \subseteq Ids /\ Waiting \subseteq Ids
  /\ known \subseteq Ids /\ expired \subseteq Ids /\ eose \subseteq Ids
  /\ closedBy \in [Ids -> Reasons] /\ closeSent \subseteq Ids
  /\ pc \in {"none", "closing", "erroring", "microtasks"}
  /\ wanted \subseteq Ids
  /\ remote \in [Sockets -> SUBSET Ids]
  /\ answers \subseteq [socket : Sockets, id : Ids, kind : Kinds]

\* No active subscription is stranded: it is open at the relay, or the relay
\* just closed it, or its socket is connecting or about to report its end,
\* or a reconnect timer is set.
ActiveIsServed ==
  pc = "none" => \A i \in active :
    \/ ~Restorable(i)
    \/ reconnectTimer
    \/ socket # None /\ socks[socket] \in {"connecting", "closing", "failed"}
    \/ CanSend /\ (i \in remote[socket] \/ \E m \in answers : m.socket = socket /\ m.id = i)
=============================================================================
