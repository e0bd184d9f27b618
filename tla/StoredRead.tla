----------------------------- MODULE StoredRead -----------------------------
(***************************************************************************)
(* One relay read whose events reach the surface through the store         *)
(* (crates/lkjstr-web/src: followees_relay_read.rs,                        *)
(* user_timeline_relay_read.rs, profile_feed_header_relay_read.rs).  A     *)
(* matching event spawns a task that stores the event, loads the model of  *)
(* the surface from the store and delivers it; every await of the task is  *)
(* a point where the read may end or be released.                          *)
(*                                                                         *)
(* The relays are one discovery group: the selected relays.                *)
(***************************************************************************)
EXTENDS Naturals, FiniteSets

CONSTANTS Selected,       \* the relays of the read
          Surfaces,       \* the kinds of read to consider
          HeaderLimit,    \* HEADER_EVENT_LIMIT
          MaxTasks        \* bound on the events that are stored

AllSurfaces == {"followees", "timeline", "header"}

ASSUME StoredAssumption == Surfaces \subseteq AllSurfaces

VARIABLES
    surface,     \* the surface of the read
    started,     \* start_*_relay_read has run
    stopped,     \* FolloweesRelayRead.stopped
    cancelled,   \* FolloweesRelayRead.cancelled: the lease was released
    ended,       \* relay_done
    outcome,     \* relay_outcomes of a User Timeline read
    seen,        \* events_seen
    link,        \* sockets: one per relay, with its readiness
    timeout,     \* the timer of the read is armed
    tasks,       \* the spawned publish_stored_event tasks
    spawned,     \* number of tasks spawned
    db,          \* what the store holds of the target
    delivered,   \* the last view delivered
    storeFailed  \* a store or a load of a task failed (history)

storedVars == <<surface, started, stopped, cancelled, ended, outcome, seen, link, timeout,
          tasks, spawned, db, delivered, storeFailed>>

LinkStates == {"none", "connecting", "open", "failing", "closed", "orphan"}

Listening == {"connecting", "open", "failing"}

Outcomes == {"Succeeded", "NoEvent", "Failed", "AuthRequired", "RateLimited",
             "TimedOut"}

Rows == {"follow", "note", "profile"}

Views == {"Loading", "Found", "Failure", "AuthRequired", "RateLimited",
          "TargetPostsOnly", "Incomplete", "Header"}

-----------------------------------------------------------------------------
(* Views *)

(* discovery_outcome_for_relays: the strongest outcome of the group; a     *)
(* relay without an outcome counts as failed.                              *)
GroupOutcome(out) ==
    IF \E r \in Selected : out[r] = "Succeeded" THEN "Succeeded"
    ELSE IF \E r \in Selected : out[r] = "AuthRequired" THEN "AuthRequired"
    ELSE IF \E r \in Selected : out[r] = "RateLimited" THEN "RateLimited"
    ELSE "Failed"

(* plan_user_timeline_discovery, for the outcome of the one group.         *)
DiscoveryState(found, group, posts) ==
    IF found THEN "Partial"
    ELSE IF group = "Pending" THEN "LoadingSelectedRelays"
    ELSE IF group \in {"AuthRequired", "RateLimited"} THEN group
    ELSE IF posts THEN "TargetPostsOnly"
    ELSE IF group = "Failed" THEN "Failed"
    ELSE "Incomplete"

(* user_timeline_state: the status a discovery state is shown as.          *)
TimelineView(state) ==
    CASE state = "LoadingSelectedRelays" -> "Loading"
      [] state = "Partial"               -> "Found"
      [] state = "Failed"                -> "Failure"
      [] state \in {"AuthRequired", "RateLimited", "TargetPostsOnly",
                    "Incomplete"}        -> state

(* user_timeline_no_event_view *)
NoEventView(out, posts) ==
    TimelineView(DiscoveryState(FALSE, GroupOutcome(out), posts))

(* followees_load: a follow list in the store, or one still to be found.   *)
FolloweesModel(rows) == IF "follow" \in rows THEN "Found" ELSE "Loading"

(* user_timeline_load_with_outcomes: without a follow list the posts of    *)
(* the target stand in for it once a relay has answered.                   *)
TimelineModel(rows, out) ==
    IF "follow" \in rows
    THEN TimelineView(DiscoveryState(TRUE, GroupOutcome(out), FALSE))
    ELSE IF "note" \in rows THEN NoEventView(out, TRUE)
    ELSE TimelineView(DiscoveryState(FALSE, "Pending", FALSE))

Model(t) ==
    CASE surface = "followees" -> FolloweesModel(db)
      [] surface = "timeline"  -> TimelineModel(db, t.outcome)
      [] surface = "header"    -> "Header"

DeliverView(view) == delivered' = IF cancelled THEN delivered ELSE view

-----------------------------------------------------------------------------
(* The end of the read *)

CloseLinks(sockets) ==
    /\ timeout' = FALSE
    /\ link' = [r \in Selected |->
                    IF sockets[r] \in {"open", "failing"} THEN "closed"
                    ELSE IF sockets[r] = "connecting" THEN "orphan"
                    ELSE sockets[r]]

(* Mutant: a read that ends says nothing, as the header does.              *)
FinishAllSilently(out, count, sockets) ==
    /\ stopped' = TRUE
    /\ CloseLinks(sockets)
    /\ UNCHANGED delivered

(* finish_all: a read that saw no event says so; the header says nothing.  *)
FinishAll(out, count, sockets) ==
    /\ stopped' = TRUE
    /\ CloseLinks(sockets)
    /\ CASE surface = "header" \/ count > 0 -> UNCHANGED delivered
         [] surface = "followees" /\ count = 0 -> DeliverView("Failure")
         [] surface = "timeline" /\ count = 0 ->
              DeliverView(NoEventView(out, "note" \in db))

(* finish_relay: the last relay to end ends the read; a User Timeline read *)
(* remembers how each relay ended first.                                   *)
RelayEnded(r, end, sockets) ==
    LET first == r \notin ended
        out == IF first /\ surface = "timeline"
               THEN [outcome EXCEPT ![r] = end] ELSE outcome
    IN  /\ ended' = ended \cup {r}
        /\ outcome' = out
        /\ IF (first \/ surface # "timeline") /\ ended' = Selected
           THEN FinishAll(out, seen, sockets)
           ELSE /\ link' = sockets
                /\ UNCHANGED <<stopped, timeout, delivered>>

-----------------------------------------------------------------------------
StoredInit ==
    /\ surface \in Surfaces
    /\ started = FALSE /\ stopped = FALSE /\ cancelled = FALSE
    /\ ended = {} /\ outcome = [r \in Selected |-> "Failed"] /\ seen = 0
    /\ link = [r \in Selected |-> "none"] /\ timeout = FALSE
    /\ tasks = {} /\ spawned = 0
    /\ db \in (IF surface = "timeline" THEN {{}, {"note"}} ELSE {{}})
    /\ delivered = IF surface = "header" THEN "Header" ELSE "Loading"
    /\ storeFailed = FALSE

(* start_*_relay_read: the timer is armed, then every relay is connected;  *)
(* `bad` are the relays whose connect fails at once.                       *)
StartStored(bad) ==
    LET sockets == [r \in Selected |-> IF r \in bad THEN "none" ELSE "connecting"]
    IN  /\ ~started /\ ~cancelled
        /\ started' = TRUE
        /\ ended' = bad
        /\ IF bad = Selected
           THEN FinishAll(outcome, 0, sockets)
           ELSE timeout' = TRUE /\ link' = sockets /\ UNCHANGED <<stopped, delivered>>
        /\ UNCHANGED <<surface, cancelled, outcome, seen, tasks, spawned, db,
                       storeFailed>>

Quiet == UNCHANGED <<surface, started, cancelled, seen, tasks, spawned, db, storeFailed>>

(* opened: the relay is asked, or a frame it cannot be sent ends it.       *)
LinkOpened(r) ==
    /\ link[r] = "connecting"
    /\ \/ /\ link' = [link EXCEPT ![r] = "open"]
          /\ UNCHANGED <<ended, outcome, stopped, timeout, delivered>>
       \/ RelayEnded(r, "Failed", [link EXCEPT ![r] = "failing"])
    /\ Quiet

(* from_closed_message: the reasons of a CLOSED that are told apart.       *)
ClosedOutcomes == {"AuthRequired", "RateLimited", "Failed"}

(* message: EOSE, CLOSED, AUTH and a frame that does not parse.            *)
LinkMessage(r) ==
    /\ link[r] = "open"
    /\ \E end \in {"NoEvent"} \cup ClosedOutcomes : RelayEnded(r, end, link)
    /\ Quiet

LinkError(r) ==
    /\ link[r] \in {"connecting", "open"}
    /\ RelayEnded(r, "Failed", [link EXCEPT ![r] = "failing"])
    /\ Quiet

LinkClosed(r) ==
    /\ link[r] \in Listening
    /\ RelayEnded(r, "Failed", [link EXCEPT ![r] = "closed"])
    /\ Quiet

RelayEnds(r) == LinkOpened(r) \/ LinkMessage(r) \/ LinkError(r) \/ LinkClosed(r)

Spawn(row, out) ==
    /\ spawned < MaxTasks
    /\ spawned' = spawned + 1
    /\ tasks' = tasks \cup {[n |-> spawned + 1, row |-> row, stage |-> "store",
                             outcome |-> out, view |-> delivered]}

(* Followees: the first follow list ends the read (FOLLOW_LIST_EVENT_LIMIT *)
(* is 1) and its task goes on.                                             *)
FolloweesEvent(r) ==
    /\ link[r] = "open"
    /\ seen' = seen + 1
    /\ Spawn("follow", outcome)
    /\ FinishAll(outcome, seen + 1, link)
    /\ UNCHANGED <<ended, outcome>>

(* User Timeline: a follow list ends the read; a note is stored too.       *)
TimelineEvent(r) ==
    /\ link[r] = "open"
    /\ \/ /\ seen' = seen + 1
          /\ ended' = ended \cup {r}
          /\ outcome' = [outcome EXCEPT ![r] = "Succeeded"]
          /\ Spawn("follow", outcome')
          /\ FinishAll(outcome', seen + 1, link)
       \/ /\ Spawn("note", outcome)
          /\ UNCHANGED <<seen, ended, outcome, stopped, timeout, link, delivered>>

(* Profile header: the events of the profile, up to HEADER_EVENT_LIMIT.    *)
HeaderEvent(r) ==
    /\ link[r] = "open"
    /\ seen' = seen + 1
    /\ Spawn("profile", outcome)
    /\ IF seen' >= HeaderLimit
       THEN FinishAll(outcome, seen', link)
       ELSE UNCHANGED <<stopped, timeout, link, delivered>>
    /\ UNCHANGED <<ended, outcome>>

Rest == UNCHANGED <<surface, started, cancelled, db, storeFailed>>

FolloweesRead(r) ==
    surface = "followees" /\ (RelayEnds(r) \/ (FolloweesEvent(r) /\ Rest))

TimelineRead(r) ==
    surface = "timeline" /\ (RelayEnds(r) \/ (TimelineEvent(r) /\ Rest))

HeaderRead(r) ==
    surface = "header" /\ (RelayEnds(r) \/ (HeaderEvent(r) /\ Rest))

(* timeout: the relays that did not end have timed out.                    *)
TimesOut ==
    LET out == IF surface = "timeline"
               THEN [r \in Selected |-> IF r \in ended THEN outcome[r] ELSE "TimedOut"]
               ELSE outcome
    IN  /\ timeout
        /\ outcome' = out
        /\ FinishAll(out, seen, link)
        /\ UNCHANGED <<ended>> /\ Quiet

(* cancel, from the release of the lease: also a read that has stopped is  *)
(* marked, so that its tasks deliver nothing.                              *)
CancelStored ==
    /\ ~cancelled
    /\ cancelled' = TRUE
    /\ IF started /\ ~stopped
       THEN stopped' = TRUE /\ CloseLinks(link)
       ELSE UNCHANGED <<stopped, timeout, link>>
    /\ UNCHANGED <<surface, started, ended, outcome, seen, tasks, spawned, db, delivered,
                   storeFailed>>

-----------------------------------------------------------------------------
(* publish_stored_event, one step per await *)

SameRead == UNCHANGED <<surface, started, stopped, cancelled, ended, outcome, seen,
                    link, timeout, spawned>>

(* The store answers; the outcome of the store is not looked at, a         *)
(* cancelled read gives up here.                                           *)
StoreDone(t, ok) ==
    /\ t \in tasks /\ t.stage = "store"
    /\ db' = IF ok THEN db \cup {t.row} ELSE db
    /\ storeFailed' = (storeFailed \/ ~ok)
    /\ tasks' = (tasks \ {t}) \cup
                  (IF cancelled THEN {} ELSE {[t EXCEPT !.stage = "load"]})
    /\ UNCHANGED delivered /\ SameRead

(* The model is read; a store that fails gives the partial failure view.   *)
ModelRead(t, ok) ==
    /\ t \in tasks /\ t.stage = "load"
    /\ tasks' = (tasks \ {t}) \cup
                  {[t EXCEPT !.stage = "publish",
                             !.view = IF ok \/ surface = "header" THEN Model(t)
                                      ELSE "Failure"]}
    /\ storeFailed' = (storeFailed \/ ~ok)
    /\ UNCHANGED <<db, delivered>> /\ SameRead

PublishStored(t) ==
    /\ t \in tasks /\ t.stage = "publish"
    /\ tasks' = tasks \ {t}
    /\ DeliverView(t.view)
    /\ UNCHANGED <<db, storeFailed>> /\ SameRead

TaskStep ==
    \E t \in tasks :
        \/ \E ok \in BOOLEAN : StoreDone(t, ok) \/ ModelRead(t, ok)
        \/ PublishStored(t)

StoredStep(r) == FolloweesRead(r) \/ TimelineRead(r) \/ HeaderRead(r)

StoredNext ==
    \/ \E bad \in SUBSET Selected : StartStored(bad)
    \/ \E r \in Selected : StoredStep(r)
    \/ TimesOut
    \/ CancelStored
    \/ TaskStep

(* The browser runs an armed timer and the store answers, well or badly.   *)
StoredFairness == WF_storedVars(TimesOut) /\ WF_storedVars(TaskStep)

StoredSpec == StoredInit /\ [][StoredNext]_storedVars /\ StoredFairness
-----------------------------------------------------------------------------
(* Properties *)

Tasks == [n : 1..MaxTasks, row : Rows, stage : {"store", "load", "publish"},
          outcome : [Selected -> Outcomes], view : Views]

(* Every variable has its type; a Followees read stores one event at most, *)
(* a header read no more than its limit.                                   *)
StoredTypes ==
    /\ surface \in Surfaces
    /\ started \in BOOLEAN /\ stopped \in BOOLEAN /\ cancelled \in BOOLEAN
    /\ timeout \in BOOLEAN /\ storeFailed \in BOOLEAN
    /\ ended \in SUBSET Selected
    /\ outcome \in [Selected -> Outcomes]
    /\ link \in [Selected -> LinkStates]
    /\ seen \in 0..(IF surface = "header" THEN HeaderLimit ELSE 1)
    /\ spawned \in 0..MaxTasks
    /\ tasks \subseteq Tasks
    /\ db \in SUBSET Rows
    /\ delivered \in Views

(* A running read has its timer, and every relay that has not ended has a  *)
(* socket that can still answer; a stopped read has neither timer nor      *)
(* callbacks.                                                              *)
StoredCanAnswer ==
    /\ started /\ ~stopped =>
         /\ timeout /\ ended # Selected
         /\ \A r \in Selected \ ended : link[r] \in {"connecting", "open"}
    /\ stopped \/ ~started =>
         /\ ~timeout
         /\ \A r \in Selected : link[r] \notin Listening

(* A surface that shows Loading has something under way: the read runs, or *)
(* a task of it will deliver - unless the store failed a task, which then  *)
(* shows what the store holds, and Loading is what it holds.               *)
LoadingIsWorkedOn ==
    started /\ ~cancelled /\ delivered = "Loading" =>
        ~stopped \/ tasks # {} \/ storeFailed

StoredContract ==
    INSTANCE ReadContract WITH
        phase <- IF cancelled THEN "released"
                 ELSE IF ~started THEN "idle"
                 ELSE IF stopped /\ tasks = {} THEN "settled" ELSE "running",
        shown <- delivered

(* The read keeps the contract of ReadContract: a task that awaits the     *)
(* store delivers nothing after the release of its read.                   *)
StoredKeepsContract == StoredContract!Spec

(* A read that began stops and its tasks end, even if no relay answers.    *)
StoredSettles == started ~> stopped /\ tasks = {}
=============================================================================
