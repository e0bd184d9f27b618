------------------------------ MODULE FeedViews ------------------------------
(***************************************************************************)
(* What a feed surface tells its user: from the source state of the feed   *)
(* and its bounded window to the status and the footer of the view         *)
(* (crates/lkjstr-app/src/*_feed/build.rs), and from the snapshot of a     *)
(* progressive read to that view (crates/lkjstr-web/src/                   *)
(* *_relay_model.rs).                                                      *)
(*                                                                         *)
(* A window is known by whether it has rows, whether it is terminal (no    *)
(* read is adding to it) and whether it says that older rows may exist.    *)
(* A view is its status and the state of its footer row; the accounts and  *)
(* relays it needs are there (a view without them is ConfigurationMissing).*)
(***************************************************************************)
EXTENDS ProgressiveRead

Windows == [rows : BOOLEAN, terminal : BOOLEAN, hasOlder : BOOLEAN]

(* What the cache left in the window before the read started: nothing,     *)
(* some rows, or as many rows as the window holds.                         *)
CachedRows == {"empty", "some", "full"}

View(status, footer) == [status |-> status, footer |-> footer]

ConfigurationMissing == View("NoEnabledRelay", "ConfigurationUnavailable")

TerminalStatuses == {"Complete", "Incomplete", "Failed", "Cancelled"}

CacheWindow(cached) ==
    [rows |-> cached # "empty", terminal |-> FALSE, hasOlder |-> FALSE]

(* reduce_feed_window over a snapshot: rows merge newest first and are cut *)
(* at the capacity of the window; a cut window has older rows.             *)
WindowFrom(s, cached, hasOlder) ==
    [rows     |-> cached # "empty" \/ s.events > 0,
     terminal |-> s.status \in TerminalStatuses,
     hasOlder |-> hasOlder \/ (cached = "full" /\ s.events > 0)]

FooterFromWindow(w) ==
    CASE ~w.terminal /\ ~w.rows           -> "Loading"
      [] ~w.terminal /\ w.rows            -> "ReadingRelays"
      [] w.terminal /\ w.hasOlder         -> "OlderLoadReady"
      [] w.terminal /\ ~w.hasOlder /\ ~w.rows -> "TerminalEmpty"
      [] w.terminal /\ ~w.hasOlder /\ w.rows  -> "TerminalWithRows"

CacheFooter(w) == IF w.rows THEN "CacheHit" ELSE "TerminalEmpty"

OlderOrPartial(w) ==
    IF w.hasOlder /\ w.rows THEN "OlderLoadReady" ELSE "Partial"

(* The source state most surfaces derive from a snapshot: a read that      *)
(* ended without one event is partial, anything else is progress.          *)
SnapshotSource(s) ==
    IF s.status \in {"Failed", "Cancelled", "Incomplete"} /\ s.events = 0
    THEN "Partial" ELSE "RelayProgressive"

-----------------------------------------------------------------------------
(* Home *)

HomeView(source, w) ==
    CASE source = "CacheComplete"    -> View("Ready", CacheFooter(w))
      [] source = "Partial"          -> View("Partial", "Partial")
      [] source = "Pending"          -> View("LoadingFeed", FooterFromWindow(w))
      [] source = "RelayProgressive" -> View("Ready", FooterFromWindow(w))

HomeWindow(s, cached) ==
    WindowFrom(s, cached, cached # "empty" \/ s.events > 0)

HomeReadView(s, cached) == HomeView(SnapshotSource(s), HomeWindow(s, cached))

(* What Home shows while, and after, its follow list is looked for.        *)
FollowView(follow) ==
    CASE follow = "Loading"         -> View("LoadingFollows", "Loading")
      [] follow = "Loaded"          -> View("LoadingFeed", "Loading")
      [] follow = "MissingComplete" -> View("NoFollowList", "TerminalEmpty")
      [] follow = "Unavailable"     -> View("Unavailable", "RetryableFailure")

FinalFollowState(s) ==
    IF s.status = "Complete" THEN "MissingComplete" ELSE "Unavailable"

-----------------------------------------------------------------------------
(* Global, Notifications, Thread *)

GlobalView(source, w) ==
    CASE source = "CacheComplete"    -> View("Ready", CacheFooter(w))
      [] source = "Partial"          -> View("Partial", "Partial")
      [] source = "Pending"          -> View("Loading", FooterFromWindow(w))
      [] source = "RelayProgressive" -> View("Ready", FooterFromWindow(w))

GlobalReadView(s, cached) ==
    GlobalView(SnapshotSource(s),
               WindowFrom(s, cached, cached # "empty" \/ s.events > 0))

NotificationsView(source, w) ==
    CASE source = "CacheComplete" ->
           View("Ready", IF w.rows THEN "CacheHit" ELSE "ReadingRelays")
      [] source = "Partial"          -> View("Partial", "Partial")
      [] source = "Pending"          -> View("Loading", FooterFromWindow(w))
      [] source = "RelayProgressive" -> View("Ready", FooterFromWindow(w))

NotificationsReadView(s, cached) ==
    NotificationsView(SnapshotSource(s), WindowFrom(s, cached, TRUE))

ThreadView(source, w) ==
    CASE source = "CacheComplete"    -> View("Ready", CacheFooter(w))
      [] source = "Partial"          -> View("Partial", OlderOrPartial(w))
      [] source = "Pending"          -> View("Loading", FooterFromWindow(w))
      [] source = "RelayProgressive" -> View("Ready", FooterFromWindow(w))

ThreadReadView(s, cached) ==
    ThreadView(IF s.status = "Partial" THEN "RelayProgressive" ELSE "Partial",
               WindowFrom(s, cached, cached # "empty" \/ s.events > 0))

-----------------------------------------------------------------------------
(* Search, Profile, Author Context, Custom Request *)

SearchView(source, w) ==
    CASE source = "CacheComplete" ->
           View("Ready", IF w.rows /\ w.hasOlder THEN "OlderLoadReady"
                         ELSE CacheFooter(w))
      [] source = "Partial"          -> View("Partial", OlderOrPartial(w))
      [] source = "Pending"          -> View("Searching", FooterFromWindow(w))
      [] source = "RelayProgressive" -> View("Ready", FooterFromWindow(w))

SearchReadView(s, cached, pageSize) ==
    SearchView(SnapshotSource(s), WindowFrom(s, cached, s.events >= pageSize))

ProfileView(source, w) ==
    CASE source = "CacheComplete" ->
           IF w.rows THEN View("Ready", "CacheHit")
           ELSE View("Partial", "ReadingRelays")
      [] source = "SearchingOlder"   -> View("Partial", "ReadingRelays")
      [] source = "Partial"          -> View("Partial", "Partial")
      [] source = "Pending"          -> View("Loading", FooterFromWindow(w))
      [] source = "RelayProgressive" -> View("Ready", FooterFromWindow(w))

ProfileReadView(s, cached) ==
    ProfileView(IF s.status = "Complete" /\ s.events = 0 THEN "SearchingOlder"
                ELSE SnapshotSource(s),
                WindowFrom(s, cached, FALSE))

AuthorView(source, w) ==
    CASE source = "CacheComplete"    -> View("Ready", CacheFooter(w))
      [] source = "Partial"          -> View("Partial", "Partial")
      [] source = "Pending"          -> View("Loading", FooterFromWindow(w))
      [] source = "RelayProgressive" -> View("Ready", FooterFromWindow(w))

AuthorReadView(s, cached) ==
    AuthorView(SnapshotSource(s), WindowFrom(s, cached, FALSE))

CustomView(source, w) ==
    CASE source = "Complete" ->
           View("Ready", IF ~w.rows THEN "TerminalEmpty"
                         ELSE IF w.hasOlder THEN "OlderLoadReady"
                         ELSE "TerminalWithRows")
      [] source = "Partial" ->
           View("Partial", IF w.hasOlder /\ w.rows THEN FooterFromWindow(w)
                           ELSE "Partial")
      [] source \in {"Pending", "RelayProgressive"} ->
           View("Ready", FooterFromWindow(w))

CustomReadView(s, cached) ==
    CustomView(CASE s.status = "Complete" -> "Complete"
                 [] s.status \in {"Failed", "Cancelled", "Incomplete"} -> "Partial"
                 [] s.status \in {"Idle", "Partial"} -> "RelayProgressive",
               WindowFrom(s, cached, FALSE))

=============================================================================
