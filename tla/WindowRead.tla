----------------------------- MODULE WindowRead -----------------------------
(***************************************************************************)
(* One relay read of a feed surface, from start_read to its end            *)
(* (crates/lkjstr-web/src/*_relay_read.rs with their tails).  The eight    *)
(* windowed surfaces and the follow-list read of Home drive the reducer of *)
(* ProgressiveRead with one socket per relay, one timer, and a callback    *)
(* that delivers each view; their handlers are copies of each other, and   *)
(* differ in what they do with a late event and in how they publish.       *)
(*                                                                         *)
(* A handler is one step: the browser runs it to its end.  Relays answer,  *)
(* repeat themselves, fail or stay silent as they like.                    *)
(***************************************************************************)
EXTENDS FeedViews

CONSTANTS Kinds,          \* the kinds of read to consider
          WindowMax,      \* WINDOW_MAX: events that end a read
          PageSize,       \* events that fill a page of Search
          MaxPublishes    \* bound on the views a Custom Request publishes

AllKinds == {"home", "global", "notifications", "thread", "search", "profile",
             "author", "custom", "follow"}

ASSUME KindsAssumption == Kinds \subseteq AllKinds
ASSUME WindowAssumption == /\ WindowMax \in Nat \ {0}
                           /\ PageSize \in Nat
                           /\ MaxPublishes \in Nat

VARIABLES
    kind,        \* the surface of the read
    cached,      \* what the cache left in its window
    begun,       \* start_read has run
    done,        \* HomeRelayRead.done
    released,    \* the lease of the request was released
    read,        \* state: the progressive read
    loaded,      \* a follow list was published (latest is some)
    socket,      \* sockets: one per relay, with its readiness
    timer,       \* timeout is armed
    loads,       \* views of Custom Request that wait for row geometry
    generation,  \* publish_generation
    shown,       \* the last view delivered
    eosed        \* relays that really sent EOSE (no state of the program)

vars == <<kind, cached, begun, done, released, read, loaded, socket, timer,
          loads, generation, shown, eosed>>

(* "orphan": a socket that was still connecting when the read let go of    *)
(* it; close() detaches its callbacks and does not close it.               *)
SocketStates == {"none", "connecting", "open", "failing", "closed", "orphan"}

Attached == {"connecting", "open", "failing"}

ReadView(k, s, c) ==
    CASE k = "home"          -> HomeReadView(s, c)
      [] k = "global"        -> GlobalReadView(s, c)
      [] k = "notifications" -> NotificationsReadView(s, c)
      [] k = "thread"        -> ThreadReadView(s, c)
      [] k = "search"        -> SearchReadView(s, c, PageSize)
      [] k = "profile"       -> ProfileReadView(s, c)
      [] k = "author"        -> AuthorReadView(s, c)
      [] k = "custom"        -> CustomReadView(s, c)
      [] k = "follow"        -> FollowView(FinalFollowState(s))

(* The local view a surface shows before its read begins.                  *)
StartView(k, c) ==
    CASE k = "home"          -> HomeView("Pending", CacheWindow(c))
      [] k = "global"        -> GlobalView("Pending", CacheWindow(c))
      [] k = "notifications" -> NotificationsView("Pending", CacheWindow(c))
      [] k = "thread"        -> ThreadView("Pending", CacheWindow(c))
      [] k = "search"        -> SearchView("Pending", CacheWindow(c))
      [] k = "profile"       -> ProfileView("Pending", CacheWindow(c))
      [] k = "author"        -> AuthorView("Pending", CacheWindow(c))
      [] k = "custom"        -> CustomView("RelayProgressive", CacheWindow(c))
      [] k = "follow"        -> FollowView("Loading")

Init ==
    /\ kind \in Kinds /\ cached \in CachedRows
    /\ begun = FALSE /\ done = FALSE /\ released = FALSE /\ loaded = FALSE
    /\ read = InitialProgressiveRead
    /\ socket = [r \in Relays |-> "none"] /\ timer = FALSE
    /\ loads = {} /\ generation = 0
    /\ shown = StartView(kind, cached)
    /\ eosed = {}

-----------------------------------------------------------------------------
(* Delivering a view and ending the read. *)

(* Mutant: a view is delivered whether or not its request was released.    *)
DeliverAlways(view) == shown' = view

(* RunRequest::complete: a released request delivers nothing.              *)
Deliver(view) == shown' = IF released THEN shown ELSE view

(* publish: Custom Request first awaits the geometry of its rows, every    *)
(* other surface delivers at once; the follow read publishes its end only  *)
(* if it published no list (publish_final).                                *)
Publish(s) ==
    IF kind = "custom"
    THEN /\ generation' = generation + 1
         /\ loads' = loads \cup {[generation |-> generation + 1,
                                  view |-> ReadView(kind, s, cached)]}
         /\ UNCHANGED shown
    ELSE /\ IF kind = "follow" /\ loaded THEN UNCHANGED shown
            ELSE Deliver(ReadView(kind, s, cached))
         /\ UNCHANGED <<loads, generation>>

(* Mutant: the sockets are closed and the timer stays armed.               *)
CloseAllButTimer(sockets) ==
    /\ socket' = [r \in Relays |->
                    IF sockets[r] \in {"open", "failing"} THEN "closed"
                    ELSE IF sockets[r] = "connecting" THEN "orphan"
                    ELSE sockets[r]]
    /\ UNCHANGED timer

(* close_all: the timer is cleared, an open socket is sent CLOSE and       *)
(* closed, and the callbacks of every socket are detached.                 *)
CloseAll(sockets) ==
    /\ timer' = FALSE
    /\ socket' = [r \in Relays |->
                    IF sockets[r] \in {"open", "failing"} THEN "closed"
                    ELSE IF sockets[r] = "connecting" THEN "orphan"
                    ELSE sockets[r]]

Settle(s, sockets) ==
    /\ done' = TRUE
    /\ read' = s
    /\ Publish(s)
    /\ CloseAll(sockets)

GoOn(s, sockets) ==
    /\ read' = s /\ socket' = sockets
    /\ UNCHANGED <<done, timer, loads, generation, shown>>

(* finish_relay: the first end of a relay counts; the last relay to end    *)
(* ends the read.                                                          *)
FinishRelay(r, end, sockets) ==
    LET s == RelayStatus(read, r, end)
    IN  IF done \/ RelayDone(read, r) THEN GoOn(read, sockets)
        ELSE IF AllRelaysDone(s) THEN Settle(Finalize(s), sockets)
        ELSE GoOn(s, sockets)

-----------------------------------------------------------------------------
(* Mutant: the timer is not armed.                                         *)
StartWithoutTimer(bad) ==
    LET failed == [read EXCEPT !.relays = [r \in Relays |->
                     IF r \in bad THEN "Error" ELSE "Pending"]]
        sockets == [r \in Relays |-> IF r \in bad THEN "none" ELSE "connecting"]
    IN  /\ ~begun /\ ~released
        /\ begun' = TRUE
        /\ IF AllRelaysDone(failed)
           THEN Settle(Finalize(WithStatus(failed)), sockets)
           ELSE GoOn(WithStatus(failed), sockets)
        /\ UNCHANGED <<kind, cached, released, loaded, eosed>>

(* start_read arms the timer and connects every relay; `bad` are the       *)
(* relays whose connect fails at once.                                     *)
Start(bad) ==
    LET failed == [read EXCEPT !.relays = [r \in Relays |->
                     IF r \in bad THEN "Error" ELSE "Pending"]]
        sockets == [r \in Relays |-> IF r \in bad THEN "none" ELSE "connecting"]
    IN  /\ ~begun /\ ~released
        /\ begun' = TRUE
        /\ IF AllRelaysDone(failed)
           THEN Settle(Finalize(WithStatus(failed)), sockets)
           ELSE /\ timer' = TRUE
                /\ read' = WithStatus(failed) /\ socket' = sockets
                /\ UNCHANGED <<done, loads, generation, shown>>
        /\ UNCHANGED <<kind, cached, released, loaded, eosed>>

(* opened: the relay is connected and asked; a frame that cannot be sent   *)
(* any more is the end of the relay.                                       *)
Opened(r) ==
    /\ socket[r] = "connecting"
    /\ \/ GoOn(RelayStatus(read, r, "Connected"), [socket EXCEPT ![r] = "open"])
       \/ LET s == RelayStatus(RelayStatus(read, r, "Connected"), r, "Error")
              sockets == [socket EXCEPT ![r] = "failing"]
          IN  IF AllRelaysDone(s) THEN Settle(Finalize(s), sockets)
              ELSE GoOn(s, sockets)
    /\ UNCHANGED eosed

Answers == {"Eose", "Closed", "Auth", "Error"}

(* message: EOSE, CLOSED, AUTH and a frame that does not parse.            *)
Message(r, end) ==
    /\ socket[r] = "open"
    /\ eosed' = IF end = "Eose" THEN eosed \cup {r} ELSE eosed
    /\ FinishRelay(r, end, socket)

(* The error and the close of a socket; a close follows an error.          *)
SocketError(r) ==
    /\ socket[r] \in {"connecting", "open"}
    /\ FinishRelay(r, "Error", [socket EXCEPT ![r] = "failing"])
    /\ UNCHANGED eosed

SocketClosed(r) ==
    /\ socket[r] \in Attached
    /\ FinishRelay(r, "Closed", [socket EXCEPT ![r] = "closed"])
    /\ UNCHANGED eosed

Ends(r) ==
    \/ Opened(r)
    \/ \E end \in Answers : Message(r, end)
    \/ SocketError(r)
    \/ SocketClosed(r)

(* event: a new event or one another relay sent before; an event makes its *)
(* relay Reading, also a relay that had ended.                             *)
TakeEvent(r, new) ==
    LET s == RelayStatus(RelayEvents(read, r, new), r, "Reading")
    IN  /\ socket[r] = "open"
        /\ new \/ read.events > 0
        /\ generation < MaxPublishes
        /\ IF s.events >= WindowMax
           THEN Settle(FinalizeAll(s, "EventLimit"), socket)
           ELSE /\ read' = s /\ Publish(s)
                /\ UNCHANGED <<done, socket, timer>>
        /\ UNCHANGED eosed

Same == UNCHANGED <<kind, cached, begun, released>>

Event(r) == \E new \in BOOLEAN : TakeEvent(r, new) /\ UNCHANGED loaded

(* The handlers of each surface.  Home alone refuses an event of a relay   *)
(* that has ended.                                                         *)
HomeEvent(r) == ~RelayDone(read, r) /\ Event(r)

HomeRead(r) ==
    kind = "home" /\ Same /\ (HomeEvent(r) \/ (Ends(r) /\ UNCHANGED loaded))

GlobalRead(r) ==
    kind = "global" /\ Same /\ (Event(r) \/ (Ends(r) /\ UNCHANGED loaded))

NotificationsRead(r) ==
    kind = "notifications" /\ Same /\ (Event(r) \/ (Ends(r) /\ UNCHANGED loaded))

ThreadRead(r) ==
    kind = "thread" /\ Same /\ (Event(r) \/ (Ends(r) /\ UNCHANGED loaded))

SearchRead(r) ==
    kind = "search" /\ Same /\ (Event(r) \/ (Ends(r) /\ UNCHANGED loaded))

ProfileRead(r) ==
    kind = "profile" /\ Same /\ (Event(r) \/ (Ends(r) /\ UNCHANGED loaded))

AuthorRead(r) ==
    kind = "author" /\ Same /\ (Event(r) \/ (Ends(r) /\ UNCHANGED loaded))

CustomRead(r) ==
    kind = "custom" /\ Same /\ (Event(r) \/ (Ends(r) /\ UNCHANGED loaded))

(* The first follow list is delivered and starts the notes read, which     *)
(* takes the slot of the owner and so cancels this read in the same        *)
(* callback (publish_loaded, start_notes, RelayReadSlot::replace).         *)
FollowEvent(r) ==
    /\ socket[r] = "open"
    /\ loaded' = TRUE
    /\ Deliver(FollowView("Loaded"))
    /\ done' = TRUE
    /\ read' = CancelRead(RelayStatus([read EXCEPT !.gave = {r}], r, "Reading"))
    /\ CloseAll(socket)
    /\ UNCHANGED <<loads, generation, eosed>>

FollowRead(r) ==
    kind = "follow" /\ Same /\ (FollowEvent(r) \/ (Ends(r) /\ UNCHANGED loaded))

Timeout ==
    /\ timer
    /\ Settle(TimeoutRead(read), socket)
    /\ UNCHANGED <<kind, cached, begun, released, loaded, eosed>>

(* The release of the lease cancels the read of its slot; Custom Request   *)
(* moves its generation so that a view under way is not delivered.         *)
Cancel ==
    /\ ~released
    /\ released' = TRUE
    /\ IF begun /\ ~done
       THEN /\ done' = TRUE
            /\ read' = CancelRead(read)
            /\ CloseAll(socket)
            /\ generation' = IF kind = "custom" THEN generation + 1 ELSE generation
       ELSE UNCHANGED <<done, read, timer, socket, generation>>
    /\ UNCHANGED <<kind, cached, begun, loaded, loads, shown, eosed>>

(* The geometry of a Custom Request view arrives, in any order; only the   *)
(* latest view is delivered.                                               *)
GeometryLoaded(l) ==
    /\ l \in loads
    /\ loads' = loads \ {l}
    /\ IF l.generation = generation THEN Deliver(l.view) ELSE UNCHANGED shown
    /\ UNCHANGED <<kind, cached, begun, done, released, read, loaded, socket,
                   timer, generation, eosed>>

ReadStep(r) ==
    \/ HomeRead(r) \/ GlobalRead(r) \/ NotificationsRead(r) \/ ThreadRead(r)
    \/ SearchRead(r) \/ ProfileRead(r) \/ AuthorRead(r) \/ CustomRead(r)
    \/ FollowRead(r)

Next ==
    \/ \E bad \in SUBSET Relays : Start(bad)
    \/ \E r \in Relays : ReadStep(r)
    \/ Timeout
    \/ Cancel
    \/ \E l \in loads : GeometryLoaded(l)

(* The browser runs an armed timer, and the store answers the geometry of  *)
(* a view; nothing is assumed of the relays.                               *)
Fairness ==
    /\ WF_vars(Timeout)
    /\ WF_vars(\E l \in loads : GeometryLoaded(l))

Spec == Init /\ [][Next]_vars /\ Fairness
-----------------------------------------------------------------------------
(* Properties *)

(* Every variable has its type, and only a Custom Request waits for the    *)
(* geometry of a view.                                                     *)
TypeOK ==
    /\ kind \in Kinds /\ cached \in CachedRows
    /\ begun \in BOOLEAN /\ done \in BOOLEAN /\ released \in BOOLEAN
    /\ loaded \in BOOLEAN /\ timer \in BOOLEAN
    /\ read \in ReadStates
    /\ socket \in [Relays -> SocketStates]
    /\ generation \in Nat
    /\ \A l \in loads : l.generation \in 1..generation
    /\ kind # "custom" => loads = {} /\ generation = 0
    /\ eosed \in SUBSET Relays

(* A running read has its timer and a relay it still waits for, each such  *)
(* relay still has a socket that can answer, and so no read runs on with   *)
(* nothing left to wait for; a read that ended has no timer and no         *)
(* callback that could reach it (finish_relay and close_all).              *)
AwaitedCanAnswer ==
    /\ begun /\ ~done =>
         /\ timer
         /\ ~AllRelaysDone(read)
         /\ \A r \in Relays : ~RelayDone(read, r) => socket[r] \in {"connecting", "open"}
    /\ done \/ ~begun =>
         /\ ~timer
         /\ \A r \in Relays : socket[r] \notin Attached

(* A read is called complete only after every relay sent EOSE: closes,     *)
(* errors, AUTH, a full window and the timer never add up to that.         *)
CompleteIsProved == read.status = "Complete" => eosed = Relays

(* The surface says that there is nothing - an empty end of the feed, or   *)
(* an account without a follow list - only when every relay has sent EOSE. *)
AbsenceIsProved ==
    shown.footer = "TerminalEmpty" \/ shown.status = "NoFollowList"
      => eosed = Relays

(* Neither the read nor its surface claims more than the relays proved.    *)
ClaimsAreProved == CompleteIsProved /\ AbsenceIsProved

Phase ==
    IF released THEN "released"
    ELSE IF ~begun THEN "idle"
    ELSE IF done /\ \A l \in loads : l.generation # generation THEN "settled"
    ELSE "running"

Contract == INSTANCE ReadContract WITH phase <- Phase

(* The read keeps the contract of ReadContract: no view after the end and  *)
(* none after the release, whatever was on its way.                        *)
ImplementsContract == Contract!Spec

(* A read that began ends, and its last view arrives, even if no relay     *)
(* ever answers.                                                           *)
ReadSettles ==
    begun ~> done /\ (released \/ \A l \in loads : l.generation # generation)
=============================================================================
