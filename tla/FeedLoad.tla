------------------------------ MODULE FeedLoad ------------------------------
(***************************************************************************)
(* The load of a feed surface (crates/lkjstr-web/src/*_feed_host.rs,       *)
(* author_context_host.rs, custom_request_host.rs, followees_host.rs,      *)
(* user_timeline_host_model.rs): a sequence of reads of the store, each    *)
(* of which succeeds or fails, and at its end a view for the user and a    *)
(* relay read to start, or none.                                           *)
(*                                                                         *)
(* A read of the store is one action.  Other tabs and other reads write    *)
(* the store between two of them, so each read finds any content the       *)
(* store may hold.  The geometry models, whose read may fail without any   *)
(* effect but a diagnostic, are left out, as are the diagnostics.          *)
(***************************************************************************)
EXTENDS FeedViews, FeedCoverage

CONSTANTS Surfaces,     \* the surfaces to consider
          Defaults,     \* session default relays
          Tables,       \* the coverage tables the store may hold
          Events        \* the stored events: [at, relay]

AllSurfaces == {"home", "global", "notifications", "thread", "profile",
                "search", "author", "custom", "followees", "timeline"}

ASSUME SurfacesAssumption == Surfaces \subseteq AllSurfaces
ASSUME DefaultsAssumption == Defaults \subseteq Relays /\ Defaults # {}
ASSUME TablesAssumption == \A table \in Tables : table \subseteq CoverageRows(Relays)
ASSUME EventsAssumption == Events \subseteq [at : Nat, relay : Relays]

VARIABLES
    surface,     \* the surface that loads
    stage,       \* the read it awaits
    account,     \* an account is selected
    selected,    \* selected_relays
    routes,      \* author_routes
    follow,      \* the latest follow list: unread, found, none or trouble
    anchor,      \* anchor_created_at of an author context is known
    coverage,    \* the coverage rows that were read
    source,      \* source_state
    scanned,     \* cache_range of the sparse scan
    window,      \* the events of the window
    read,        \* the relay read to start
    view,        \* the view that was completed
    failed       \* the reads that failed (history)

vars == <<surface, stage, account, selected, routes, follow, anchor, coverage,
          source, scanned, window, read, view, failed>>

Stages == {"account", "relays", "routes", "follow", "coverage", "events",
           "range", "build", "done"}

ReadKinds == {"none", "initial", "older", "follow"}

NoRead == [kind |-> "none", range |-> Recent]

NoView == View("none", "none")

(* The reads of a load, in the order they are awaited.                     *)
HomeLoad == <<"account", "relays", "follow", "coverage", "events", "build">>

GlobalLoad == <<"relays", "coverage", "events", "build">>

NotificationsLoad == <<"account", "relays", "events", "coverage", "build">>

ThreadLoad == <<"relays", "events", "build">>

ProfileLoad == <<"relays", "routes", "coverage", "events", "range", "build">>

SearchLoad == <<"relays", "events", "build">>

AuthorLoad == <<"relays", "routes", "events", "build">>

CustomLoad == <<"relays", "build">>

FolloweesLoad == <<"relays", "routes", "follow", "build">>

TimelineLoad == <<"relays", "routes", "follow", "events", "coverage", "build">>

Order ==
    CASE surface = "home"          -> HomeLoad
      [] surface = "global"        -> GlobalLoad
      [] surface = "notifications" -> NotificationsLoad
      [] surface = "thread"        -> ThreadLoad
      [] surface = "profile"       -> ProfileLoad
      [] surface = "search"        -> SearchLoad
      [] surface = "author"        -> AuthorLoad
      [] surface = "custom"        -> CustomLoad
      [] surface = "followees"     -> FolloweesLoad
      [] surface = "timeline"      -> TimelineLoad

Following(here) ==
    LET n == CHOOSE i \in DOMAIN Order : Order[i] = here IN Order[n + 1]

GoOn == stage' = Following(stage)

GoOnIf(condition) == stage' = IF condition THEN Following(stage) ELSE "build"

Fails == failed' = failed \cup {stage}

Protected == surface \in {"home", "notifications"}

Ranged == surface \in {"home", "global", "notifications", "profile", "timeline"}

-----------------------------------------------------------------------------
(* The account, the relays, the author routes *)

(* resolve_protected_account and page_active_account_fallback: the account *)
(* of the page stands in for one that could not be read.                   *)
ReadAccount ==
    /\ stage = "account"
    /\ \/ \E chosen \in BOOLEAN : account' = chosen /\ UNCHANGED failed
       \/ \E onPage \in BOOLEAN : account' = onPage /\ Fails
    /\ GoOn
    /\ UNCHANGED <<surface, selected, routes, follow, anchor, coverage, source,
                   scanned, window, read, view>>

(* Mutant: relay settings that cannot be read are no relays.               *)
EffectiveRelaysNone(enabled, ok) == IF ok THEN enabled ELSE {}

(* effective_read_relays: the session defaults stand in for settings that  *)
(* cannot be read.                                                         *)
EffectiveRelays(enabled, ok) == IF ok THEN enabled ELSE Defaults

(* selected_relays of thread, author context, custom request, followees.   *)
StoredRelays(enabled, ok) == IF ok THEN enabled ELSE {}

SelectedRelays(enabled, ok) ==
    IF surface \in {"thread", "author", "custom", "followees"}
    THEN StoredRelays(enabled, ok) ELSE EffectiveRelays(enabled, ok)

(* Where nothing can be asked, some surfaces do not look at their cache.   *)
Reachable(relays, routed) ==
    CASE surface \in {"home", "notifications"} -> account /\ relays # {}
      [] surface \in {"global", "thread"}      -> relays # {}
      [] surface = "profile"                   -> relays # {} \/ routed # {}
      [] surface \in {"search", "author", "custom", "followees", "timeline"} -> TRUE

ReadRelays ==
    /\ stage = "relays"
    /\ \/ \E enabled \in SUBSET Relays :
             selected' = SelectedRelays(enabled, TRUE) /\ UNCHANGED failed
       \/ selected' = SelectedRelays({}, FALSE) /\ Fails
    /\ IF Following(stage) = "routes" THEN GoOn
       ELSE GoOnIf(Reachable(selected', {}))
    /\ UNCHANGED <<surface, account, routes, follow, anchor, coverage, source,
                   scanned, window, read, view>>

ReadRoutes ==
    /\ stage = "routes"
    /\ \/ \E stored \in SUBSET Relays : routes' = stored /\ UNCHANGED failed
       \/ routes' = {} /\ Fails
    /\ GoOnIf(Reachable(selected, routes'))
    /\ UNCHANGED <<surface, account, selected, follow, anchor, coverage, source,
                   scanned, window, read, view>>

(* query_selected_relays of a profile: routes take the place of settings.  *)
Queried == IF surface = "profile" /\ routes # {} THEN {} ELSE selected

PlanRelays == Queried \cup routes

-----------------------------------------------------------------------------
(* The follow list *)

(* home_cache_state, followees_load, user_timeline_load                    *)
ReadFollowList ==
    /\ stage = "follow"
    /\ \/ follow' \in {"found", "none"} /\ UNCHANGED failed
       \/ follow' = "trouble" /\ Fails
    /\ GoOnIf(\/ surface = "home" /\ follow' = "found"
              \/ surface = "followees"
              \/ surface = "timeline" /\ follow' # "trouble")
    /\ source' = IF surface = "timeline" /\ follow' = "trouble" THEN "Partial"
                 ELSE source
    /\ UNCHANGED <<surface, account, selected, routes, anchor, coverage, scanned,
                   window, read, view>>

-----------------------------------------------------------------------------
(* The coverage rows *)

CoverageSource(rows) ==
    CASE surface = "home"          -> HomeCoverage(rows, selected)
      [] surface = "global"        -> GlobalCoverage(rows, selected)
      [] surface = "notifications" -> NotificationsCoverage(rows, selected)
      [] surface = "profile"       -> ProfileCoverage(rows, Queried, routes)
      [] surface = "timeline"      -> TimelineCoverage(rows, selected, routes)

CoverageFailure == "Partial"

ReadCoverage ==
    /\ stage = "coverage"
    /\ \/ \E table \in Tables :
             /\ coverage' = table
             /\ source' = CoverageSource(table)
             /\ UNCHANGED failed
       \/ /\ UNCHANGED coverage
          /\ source' = CoverageFailure
          /\ Fails
    /\ GoOn
    /\ UNCHANGED <<surface, account, selected, routes, follow, anchor, scanned,
                   window, read, view>>

-----------------------------------------------------------------------------
(* The cached events *)

InRange(event, range) == range.since <= event.at /\ event.at < range.until

(* Which stored events the window takes: the newest page of the store may  *)
(* hold any of them; a proved range shows nothing from outside of it.      *)
HomeAccepts(event) ==
    source = "CacheComplete" => InRange(event, Recent) /\ event.relay \in selected

GlobalAccepts(event) ==
    /\ event.relay \in selected
    /\ source = "CacheComplete" => InRange(event, Recent)

ProfileAccepts(event) ==
    /\ event.relay \in PlanRelays
    /\ source = "CacheComplete" => InRange(event, Recent)

Accepts(event) ==
    CASE surface = "home"    -> HomeAccepts(event)
      [] surface = "global"  -> GlobalAccepts(event)
      [] surface = "profile" -> ProfileAccepts(event)
      [] surface \in {"notifications", "thread", "search", "author", "timeline"} -> TRUE

(* The source state of the surfaces that know no coverage: a search without *)
(* relays has all there is, author context without its anchor has nothing.  *)
SearchSource == IF selected = {} THEN "CacheComplete" ELSE "Pending"

AnchoredSource(found) == IF found = {} THEN "Pending" ELSE "Partial"

SourceOfEvents(found) ==
    CASE surface = "thread" -> "Partial"
      [] surface = "search" -> SearchSource
      [] surface = "author" -> AnchoredSource(found)
      [] surface \in {"home", "global", "notifications", "profile", "timeline"} -> source

(* A failed read of the events says so, except where the state was already *)
(* taken from the coverage, which stands.                                  *)
SourceOfTrouble ==
    IF \/ surface \in {"thread", "search", "author"}
       \/ surface = "timeline" /\ follow = "found"
    THEN "Partial" ELSE source

ReadEvents ==
    /\ stage = "events"
    /\ \/ \E stored \in SUBSET Events :
             LET found == {event \in stored : Accepts(event)}
             IN  /\ window' = found
                 /\ source' = SourceOfEvents(found)
                 /\ anchor' = (surface = "author" /\ found # {})
                 /\ GoOnIf(surface = "timeline" /\ follow = "none" => found # {})
                 /\ UNCHANGED failed
       \/ /\ source' = SourceOfTrouble
          /\ GoOnIf(surface # "timeline")
          /\ Fails
          /\ UNCHANGED <<window, anchor>>
    /\ UNCHANGED <<surface, account, selected, routes, follow, coverage, scanned,
                   read, view>>

(* profile_cache_state after the first read of the events: an empty window *)
(* is read again for the range the scan stopped at.                        *)
ReadRange ==
    LET decision == SparseDecision(source, window = {}, coverage, PlanRelays)
        InWindow(event) == event.relay \in PlanRelays /\ InRange(event, decision.range)
    IN  /\ stage = "range"
        /\ source' = decision.source
        /\ scanned' = decision.range
        /\ IF window # {} THEN UNCHANGED <<window, failed>>
           ELSE \/ \E stored \in SUBSET Events :
                      /\ window' = {event \in stored : InWindow(event)}
                      /\ UNCHANGED failed
                \/ Fails /\ UNCHANGED window
        /\ GoOn
        /\ UNCHANGED <<surface, account, selected, routes, follow, anchor,
                       coverage, read, view>>

-----------------------------------------------------------------------------
(* The relay read of the load *)

ReadOf(kind, range) == [kind |-> kind, range |-> range]

HomeRead ==
    IF source = "CacheComplete" \/ selected = {} \/ ~account THEN NoRead
    ELSE IF follow = "found" THEN ReadOf("initial", Recent)
    ELSE ReadOf("follow", Recent)

GlobalRead ==
    IF selected = {} \/ source = "CacheComplete" THEN NoRead
    ELSE ReadOf("initial", Recent)

(* Recent notifications that are proved to be none: the range before.      *)
NotificationsRead ==
    IF selected = {} \/ ~account THEN NoRead
    ELSE IF source # "CacheComplete" THEN ReadOf("initial", Recent)
    ELSE IF window # {} THEN NoRead
    ELSE ReadOf("older", Interval(Minus(Recent.since, Span), Recent.since))

ThreadRead == IF selected = {} THEN NoRead ELSE ReadOf("initial", Recent)

(* relay_range: a scan that stopped is read where it stopped.              *)
ProfileRead ==
    IF source \in {"CacheComplete", "EmptyProven"} \/ PlanRelays = {} THEN NoRead
    ELSE ReadOf("initial", IF source = "SearchingOlder" THEN scanned ELSE Recent)

SearchRead ==
    IF source = "CacheComplete" \/ selected = {} THEN NoRead
    ELSE ReadOf("initial", Recent)

AuthorRead == IF PlanRelays = {} THEN NoRead ELSE ReadOf("initial", Recent)

CustomRead(valid) ==
    IF ~valid \/ selected = {} THEN NoRead ELSE ReadOf("initial", Recent)

FolloweesRead ==
    IF follow # "none" \/ PlanRelays = {} THEN NoRead ELSE ReadOf("follow", Recent)

TimelineRead ==
    IF follow = "found" \/ PlanRelays = {} THEN NoRead ELSE ReadOf("follow", Recent)

RelayRead(valid) ==
    CASE surface = "home"          -> HomeRead
      [] surface = "global"        -> GlobalRead
      [] surface = "notifications" -> NotificationsRead
      [] surface = "thread"        -> ThreadRead
      [] surface = "profile"       -> ProfileRead
      [] surface = "search"        -> SearchRead
      [] surface = "author"        -> AuthorRead
      [] surface = "custom"        -> CustomRead(valid)
      [] surface = "followees"     -> FolloweesRead
      [] surface = "timeline"      -> TimelineRead

-----------------------------------------------------------------------------
(* The view of the load *)

(* active_home_account: the selector, the storage or the user is asked.    *)
AccountMissing == View("NoActiveAccount", "AuthRequired")

Loaded(older) == [rows |-> window # {}, terminal |-> FALSE, hasOlder |-> older]

HomeLoaded ==
    IF ~account THEN AccountMissing
    ELSE IF selected = {} THEN ConfigurationMissing
    ELSE IF follow = "found" THEN HomeView(source, Loaded(FALSE))
    ELSE FollowView("Loading")

GlobalLoaded ==
    IF selected = {} THEN ConfigurationMissing
    ELSE GlobalView(source, Loaded(window # {}))

NotificationsLoaded ==
    IF ~account THEN AccountMissing
    ELSE IF selected = {} THEN ConfigurationMissing
    ELSE NotificationsView(source, Loaded(FALSE))

ThreadLoaded ==
    IF selected = {} THEN ConfigurationMissing ELSE ThreadView(source, Loaded(FALSE))

ProfileLoaded ==
    IF PlanRelays = {} THEN ConfigurationMissing
    ELSE IF source = "EmptyProven" THEN View("Ready", "TerminalEmpty")
    ELSE ProfileView(source, Loaded(FALSE))

SearchLoaded(older) == SearchView(source, Loaded(older /\ window # {}))

AuthorLoaded ==
    IF PlanRelays = {} THEN ConfigurationMissing
    ELSE IF ~anchor THEN View("Partial", "Partial")
    ELSE AuthorView(source, Loaded(FALSE))

CustomLoaded(valid) ==
    IF ~valid THEN View("Invalid", "ConfigurationUnavailable")
    ELSE IF selected = {} THEN ConfigurationMissing
    ELSE CustomView("RelayProgressive", Loaded(FALSE))

(* A list in the cache may hold no valid pubkey: Empty; here it is Ready.  *)
FolloweesLoaded ==
    CASE follow = "found"   -> View("Ready", "none")
      [] follow = "none"    -> View("Loading", "none")
      [] follow = "trouble" -> View("PartialFailure", "none")

TimelineLoaded ==
    IF PlanRelays = {}
    THEN ConfigurationMissing
    ELSE IF follow = "none" THEN View("LoadingDiscovery", "Loading")
    ELSE IF source = "CacheComplete"
    THEN View("Ready", CacheFooter(Loaded(FALSE)))
    ELSE View("Partial", "Partial")

LoadedView(valid, older) ==
    CASE surface = "home"          -> HomeLoaded
      [] surface = "global"        -> GlobalLoaded
      [] surface = "notifications" -> NotificationsLoaded
      [] surface = "thread"        -> ThreadLoaded
      [] surface = "profile"       -> ProfileLoaded
      [] surface = "search"        -> SearchLoaded(older)
      [] surface = "author"        -> AuthorLoaded
      [] surface = "custom"        -> CustomLoaded(valid)
      [] surface = "followees"     -> FolloweesLoaded
      [] surface = "timeline"      -> TimelineLoaded

(* The load ends: the view is completed and the read is started.           *)
Build ==
    /\ stage = "build"
    /\ \E valid \in BOOLEAN, older \in BOOLEAN :
          /\ read' = RelayRead(valid)
          /\ view' = LoadedView(valid, older)
    /\ stage' = "done"
    /\ UNCHANGED <<surface, account, selected, routes, follow, anchor, coverage,
                   source, scanned, window, failed>>

-----------------------------------------------------------------------------

Init ==
    /\ surface \in Surfaces
    /\ stage = Order[1]
    /\ account = FALSE /\ selected = {} /\ routes = {} /\ follow = "unread"
    /\ anchor = FALSE /\ coverage = {} /\ source = "Pending"
    /\ scanned = Recent /\ window = {} /\ read = NoRead /\ view = NoView
    /\ failed = {}

Next ==
    \/ ReadAccount
    \/ ReadRelays
    \/ ReadRoutes
    \/ ReadFollowList
    \/ ReadCoverage
    \/ ReadEvents
    \/ ReadRange
    \/ Build

Spec == Init /\ [][Next]_vars

-----------------------------------------------------------------------------
(* Properties *)

Done == stage = "done"

Sources == {"Pending", "Partial", "CacheComplete", "SearchingOlder", "EmptyProven"}

TypeOK ==
    /\ surface \in Surfaces
    /\ stage \in Stages
    /\ account \in BOOLEAN /\ anchor \in BOOLEAN
    /\ selected \in SUBSET Relays /\ routes \in SUBSET Relays
    /\ follow \in {"unread", "found", "none", "trouble"}
    /\ coverage \in Tables \cup {{}}
    /\ source \in Sources
    /\ scanned \in [since : 0..Now, until : 0..Now]
    /\ window \in SUBSET Events
    /\ read \in [kind : ReadKinds, range : [since : 0..Now, until : 0..Now]]
    /\ failed \in SUBSET Stages

(* The cache is called complete, and the relay read is left out, exactly   *)
(* when every relay of the plan has proved every second of the range to be *)
(* in the store: the walk over the rows finds every gap and no other, in   *)
(* whatever order and overlap they were written.  A profile is called      *)
(* empty only when its whole history is proved empty.                      *)
CompleteIsCovered ==
    Done /\ Ranged =>
        /\ source = "CacheComplete" /\ surface # "profile" =>
               PlanRelays # {} /\ Proved(coverage, PlanRelays, Recent)
        /\ source = "CacheComplete" /\ surface = "profile" =>
               PlanRelays # {} /\ Proved(coverage, PlanRelays, scanned)
        /\ source = "EmptyProven" =>
               PlanRelays # {} /\ ProvedEmpty(coverage, PlanRelays, Interval(0, Now))
        /\ source = "Partial" /\ failed = {} /\ PlanRelays # {} =>
               ~Proved(coverage, PlanRelays, Recent)

(* A relay is there to be asked: the settings or the routes name one, or   *)
(* the settings cannot be read and the surface may use session defaults.   *)
(* The four surfaces without them ask nobody when their settings fail and  *)
(* no route is known: there a failed read of the store does end the load.  *)
Askable ==
    \/ PlanRelays # {}
    \/ "relays" \in failed /\ surface \notin {"thread", "author", "custom", "followees"}

(* With an account where one is needed and a relay to ask, a load that     *)
(* starts no relay read has a reason: a proof, read from the store, that   *)
(* the read is needless; the follow list, which is all that followees and  *)
(* a user timeline ask relays for here; or a custom request that is not    *)
(* valid.  Trouble in the store is no such reason, with one exception the  *)
(* code makes: followees whose follow list cannot be read ask no relay     *)
(* (followees_host.rs:117-125), and then the view says PartialFailure.     *)
ReadUnlessProved ==
    Done /\ Askable /\ (Protected => account) /\ read.kind = "none"
    => \/ source = "CacheComplete" /\ Ranged /\ "coverage" \notin failed
       \/ source = "EmptyProven" /\ "coverage" \notin failed
       \/ surface \in {"followees", "timeline"} /\ follow = "found"
       \/ surface = "followees" /\ follow = "trouble" /\ view.status = "PartialFailure"
       \/ surface = "custom" /\ view.status = "Invalid"

(* A surface that says it is loading or reading is: its read was started.  *)
(* Two exceptions are in the code: a profile whose complete range holds no *)
(* row any more, and followees that know no relay to ask.                  *)
LoadingIsWorkedOn ==
    Done /\ (\/ view.footer \in {"Loading", "ReadingRelays"}
             \/ view.status \in {"Loading", "LoadingFollows", "LoadingFeed",
                                 "LoadingDiscovery", "Searching"})
    => \/ read.kind # "none"
       \/ surface = "profile" /\ source = "CacheComplete" /\ window = {}
       \/ surface = "followees" /\ PlanRelays = {}

=============================================================================
