---------------------------- MODULE RelayEffects ----------------------------
(***************************************************************************)
(* One relay connection of the Rust crates: the pure client reducer        *)
(* (crates/lkjstr-relays/src/client, send_queue.rs), the runner that turns *)
(* its effects into actions of an owner generation and drops those of a    *)
(* replaced or closed one (crates/lkjstr-web/src/relay_host), and the      *)
(* browser's socket and timers.  A driver performs each action at once; a  *)
(* socket or timer it replaces is detached (socket.rs:74-131, timer.rs).   *)
(***************************************************************************)
EXTENDS Naturals, Sequences, FiniteSets, FiniteSetsExt

CONSTANTS MaxGens,     \* bound on the registrations of the owner id
          MaxFrames,   \* bound on the frames each client is asked to send
          MaxQueue,    \* max_relay_queued_messages
          Subs,        \* subscription ids, as numbers: maps are ordered by key
          MaxRecords   \* max_relay_message_records

Gens     == 1..MaxGens
Timers   == {"deadline", "reconnect"}
MaxDelay == 5          \* from the fifth attempt on the delay is constant

VARIABLES
    slot,     \* the runner's OwnerSlot of the id: generation and closed
    clients,  \* RelayClientState of each generation
    asked,    \* frames each client was asked to send
    sent,     \* frames handed to the sockets of each generation
    socket,   \* none, connecting, open, or broken: its error was reported
    timers    \* timers that are armed

effectVars == <<slot, clients, asked, sent, socket, timers>>

NewClient == [conn |-> "idle", queue |-> <<>>, attempts |-> 0, final |-> FALSE,
              eose |-> {}, closed |-> {}]

EffectsInit ==
    /\ slot = [gen |-> 0, closed |-> FALSE]
    /\ clients = [g \in Gens |-> NewClient]
    /\ asked = [g \in Gens |-> 0] /\ sent = [g \in Gens |-> <<>>]
    /\ socket = [g \in Gens |-> "none"] /\ timers = [g \in Gens |-> {}]

\* active_slot
Active(g) == slot = [gen |-> g, closed |-> FALSE]

-----------------------------------------------------------------------------
(* What a reduction gives: the client's new state and its effects.         *)

Step(c) == [client |-> c, clear |-> {}, arm |-> {}, socket |-> "keep",
            send |-> <<>>, drop |-> FALSE]

StartConnect(c) ==
    [Step([c EXCEPT !.conn = "connecting"]) EXCEPT
        !.clear = {"reconnect"}, !.arm = {"deadline"}, !.socket = "open"]

ReconnectDelay(attempts) == Min({attempts, MaxDelay})

\* Mutant: a client counts its failures and is left alone afterwards.
ScheduleWithinLimit(s) ==
    IF s.client.queue = <<>> \/ s.client.attempts = MaxDelay THEN s
    ELSE [s EXCEPT !.arm = @ \cup {"reconnect"},
                   !.client.attempts = ReconnectDelay(@ + 1)]

ScheduleReconnectIfNeeded(s) ==
    IF s.client.queue = <<>> THEN s
    ELSE [s EXCEPT !.arm = @ \cup {"reconnect"},
                   !.client.attempts = ReconnectDelay(@ + 1)]

ConnectRequested(c) ==
    IF c.final \/ c.conn \in {"connecting", "open"} THEN Step(c) ELSE StartConnect(c)

SocketOpened(c) ==
    [Step([c EXCEPT !.conn = "open", !.attempts = 0, !.queue = <<>>]) EXCEPT
        !.clear = Timers, !.send = c.queue]

SocketError(c) ==
    ScheduleReconnectIfNeeded(
        [Step([c EXCEPT !.conn = "error"]) EXCEPT !.clear = {"deadline"}])

SocketClosed(c) ==
    ScheduleReconnectIfNeeded(
        [Step([c EXCEPT !.conn = "closed"]) EXCEPT !.clear = {"deadline"}])

SendRequested(c, f) ==
    CASE c.final                    -> Step(c)
      [] ~c.final /\ c.conn = "open" -> [Step(c) EXCEPT !.send = <<f>>]
      [] ~c.final /\ c.conn # "open" ->
            IF Len(c.queue) >= MaxQueue THEN Step(c)
            ELSE LET d == [c EXCEPT !.queue = Append(@, f)] IN
                 IF c.conn = "connecting" THEN Step(d) ELSE StartConnect(d)

ReconnectTimerElapsed(c) ==
    IF c.final \/ c.queue = <<>> THEN [Step(c) EXCEPT !.clear = {"reconnect"}]
    ELSE StartConnect(c)

ConnectDeadlineElapsed(c) ==
    IF c.conn # "connecting" \/ c.final THEN Step(c)
    ELSE ScheduleReconnectIfNeeded(
            [Step([c EXCEPT !.conn = "error"]) EXCEPT
                !.clear = {"deadline"}, !.socket = "close"])

FinalClose(c) ==
    IF c.final THEN Step(c)
    ELSE [Step([c EXCEPT !.final = TRUE, !.conn = "closed", !.attempts = 0,
                         !.queue = <<>>]) EXCEPT
            !.clear = Timers, !.socket = "close", !.drop = TRUE]

\* prune_map drops the smallest key of a full map, known or not, before it
\* inserts; the set of EOSEs is not bounded.
Pruned(S) == IF Cardinality(S) < MaxRecords THEN S ELSE S \ {Min(S)}
RecordEose(c, s)   == Step([c EXCEPT !.eose = @ \cup {s}])
RecordClosed(c, s) == Step([c EXCEPT !.closed = Pruned(@) \cup {s}])

-----------------------------------------------------------------------------
\* apply_effects: the client of g has been reduced to s.client; its effects
\* become actions only while g is the active generation.
ApplyEffects(g, s) ==
    /\ clients' = [clients EXCEPT ![g] = s.client]
    /\ IF Active(g)
       THEN /\ timers' = [timers EXCEPT ![g] = (@ \ s.clear) \cup s.arm]
            /\ socket' = [socket EXCEPT ![g] = CASE s.socket = "open"  -> "connecting"
                                                 [] s.socket = "close" -> "none"
                                                 [] s.socket = "keep"  -> @]
            /\ sent' = [sent EXCEPT ![g] = @ \o s.send]
            /\ slot' = [slot EXCEPT !.closed = s.drop]
       ELSE UNCHANGED <<timers, socket, sent, slot>>

\* map_host_event: what the browser reports of an inactive generation is
\* dropped.  The socket and
\* the armed timers are given as the browser left them.
Report(g, s, sockets, armed) ==
    IF Active(g)
    THEN /\ clients' = [clients EXCEPT ![g] = s.client]
         /\ timers' = [timers EXCEPT ![g] = (armed \ s.clear) \cup s.arm]
         /\ socket' = [socket EXCEPT ![g] = CASE s.socket = "open"  -> "connecting"
                                              [] s.socket = "close" -> "none"
                                              [] s.socket = "keep"  -> sockets]
         /\ sent' = [sent EXCEPT ![g] = @ \o s.send]
         /\ UNCHANGED <<slot, asked>>
    ELSE /\ socket' = [socket EXCEPT ![g] = sockets]
         /\ timers' = [timers EXCEPT ![g] = armed]
         /\ UNCHANGED <<clients, sent, slot, asked>>

RegisterOwner ==
    /\ slot.gen < MaxGens
    /\ slot' = [gen |-> slot.gen + 1, closed |-> FALSE]
    /\ UNCHANGED <<clients, asked, sent, socket, timers>>

Registered(g) == g \in Gens /\ g <= slot.gen

Connect(g) == Registered(g) /\ ApplyEffects(g, ConnectRequested(clients[g])) /\ UNCHANGED asked

Send(g) ==
    /\ Registered(g) /\ asked[g] < MaxFrames
    /\ asked' = [asked EXCEPT ![g] = @ + 1]
    /\ ApplyEffects(g, SendRequested(clients[g], asked[g] + 1))

Close(g) == Registered(g) /\ ApplyEffects(g, FinalClose(clients[g])) /\ UNCHANGED asked

SocketOpens(g) ==
    /\ socket[g] = "connecting"
    /\ Report(g, SocketOpened(clients[g]), "open", timers[g])

\* An error event, always followed by a close event.
SocketBreaks(g) ==
    /\ socket[g] \in {"connecting", "open"}
    /\ Report(g, SocketError(clients[g]), "broken", timers[g])

\* A message that is not text is reported as an error; the socket stays open.
NonText(g) ==
    /\ socket[g] = "open"
    /\ Report(g, SocketError(clients[g]), "open", timers[g])

SocketCloses(g) ==
    /\ socket[g] \in {"open", "broken"}
    /\ Report(g, SocketClosed(clients[g]), "none", timers[g])

\* Of EOSE and CLOSED the client keeps a record; OK, NOTICE and AUTH have
\* records of the same kind, and events are only passed on.
Message(g) ==
    /\ socket[g] = "open"
    /\ \E s \in Subs, r \in {"eose", "closed"} :
          Report(g, IF r = "eose" THEN RecordEose(clients[g], s)
                    ELSE RecordClosed(clients[g], s), "open", timers[g])

TimerFires(g, k) ==
    /\ k \in timers[g]
    /\ Report(g, IF k = "deadline" THEN ConnectDeadlineElapsed(clients[g])
                 ELSE ReconnectTimerElapsed(clients[g]), socket[g], timers[g] \ {k})

-----------------------------------------------------------------------------
EffectsNext ==
    \/ RegisterOwner
    \/ \E g \in Gens : \/ Connect(g) \/ Send(g) \/ Close(g)
                       \/ SocketOpens(g) \/ SocketBreaks(g) \/ NonText(g)
                       \/ SocketCloses(g) \/ Message(g)
                       \/ \E k \in Timers : TimerFires(g, k)

EffectsSpec == EffectsInit /\ [][EffectsNext]_effectVars

-----------------------------------------------------------------------------
\* A frame in the queue of a live client is never stranded: a connection
\* attempt with a deadline is under way, or a reconnect is due, whatever the
\* socket's error, its close, the deadline and new frames do in between
\* (reducer.rs:82-153, transition.rs:36-56).
NoStrandedFrames ==
    \A g \in Gens : Active(g) /\ clients[g].queue # <<>> =>
        \/ clients[g].conn = "connecting" /\ "deadline" \in timers[g]
        \/ "reconnect" \in timers[g]
=============================================================================
