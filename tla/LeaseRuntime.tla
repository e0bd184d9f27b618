---------------------------- MODULE LeaseRuntime ----------------------------
(***************************************************************************)
(* Live demands of the Rust feeds: the query builders of each surface, the *)
(* fingerprint under which equal demands share a wire, the registry of     *)
(* their owners, the lease reducer that opens and closes wires, and the    *)
(* feed runtime that keeps one demand of its own (crates/lkjstr-app/src/   *)
(* feed and query, crates/lkjstr-relays/src/demand and live_lease).        *)
(***************************************************************************)
EXTENDS Naturals, FiniteSets

CONSTANTS Runtimes,   \* owners: one feed runtime each
          Views,      \* what a runtime can show: [surface, subject, relays,
                      \* since], the relays as the route plan flattened them
          MaxNow      \* bound on the clock, in half minutes

None == 0              \* no since
DisplayKinds      == {"note", "repost", "generic_repost"}
NotificationKinds == DisplayKinds \cup {"metadata", "reaction", "zap"}
ChatKinds         == {"create", "channel_metadata", "channel_message", "hide", "mute"}
AllKinds          == NotificationKinds \cup ChatKinds

-----------------------------------------------------------------------------
(* The query builders: which kinds, of which phase, purpose and channel.   *)

Query(v, phase, purpose, channel, kinds) ==
    [phase |-> phase, purpose |-> purpose, channel |-> channel, kinds |-> kinds,
     subject |-> v.subject, tagged |-> FALSE, relays |-> v.relays, since |-> v.since]

LiveQuery(v)          == Query(v, "live", "feed", "notes", DisplayKinds)
GlobalQuery(v)        == Query([v EXCEPT !.subject = {}], "live", "feed", "notes", {"note"})
NotificationsQuery(v) ==
    [Query(v, "live", "feed", "notifications", NotificationKinds) EXCEPT !.tagged = TRUE]
RootQuery(v)    == Query([v EXCEPT !.since = None], "bootstrap", "event_lookup", "thread-root", AllKinds)
RepliesQuery(v) == [Query(v, "live", "feed", "thread-replies", DisplayKinds) EXCEPT !.tagged = TRUE]
SearchQuery(v)  == Query(v, "page", "search", "search", DisplayKinds)
CustomQuery(v)  == Query([v EXCEPT !.since = None], "page", "feed", "custom-request", AllKinds)
NearbyQuery(v)  == Query(v, "live", "feed", "author-context-nearby", DisplayKinds)

QueryOf(v) ==
    CASE v.surface \in {"home", "timeline", "profile"} -> LiveQuery(v)
      [] v.surface = "global"        -> GlobalQuery(v)
      [] v.surface = "notifications" -> NotificationsQuery(v)
      [] v.surface = "thread"        -> RepliesQuery(v)
      [] v.surface = "root"          -> RootQuery(v)
      [] v.surface = "search"        -> SearchQuery(v)
      [] v.surface = "custom"        -> CustomQuery(v)
      [] v.surface = "author"        -> NearbyQuery(v)

\* normalized_demand_filters: a live filter without a since starts half a
\* minute ago, so that such demands are equal only in the same second.
FilterSince(q, now) ==
    IF q.phase # "live" \/ q.since # None THEN q.since ELSE now - 1

\* wire_equivalent_fingerprint: neither the surface nor the owner counts.
Fingerprint(q, now) == <<q, FilterSince(q, now)>>

-----------------------------------------------------------------------------
VARIABLES
    now,     \* the clock
    leases,  \* DemandLeaseRegistry: [lease, owner, surface, visible]
    open,    \* open_leases
    live     \* live_fingerprint of each runtime

vars == <<now, leases, open, live>>

Init == now = 1 /\ leases = {} /\ open = {} /\ live = [r \in Runtimes |-> <<>>]

VisibleOwners(S, f) == {d \in S : d.lease = f /\ d.visible}
Held(S, r, f)       == {d \in S : d.lease = f /\ d.owner = r}

\* A step of the reducer gives the registry and the open wires.
Reduced(S, W) == [leases |-> S, open |-> W]

AttachLease(S, W, d) ==
    Reduced((S \ Held(S, d.owner, d.lease)) \cup {d},
            IF d.visible /\ VisibleOwners(S, d.lease) = {} THEN W \cup {d.lease} ELSE W)

\* Mutant: the wire is closed with the first visible owner that leaves.
ReleaseLeaseEarly(S, W, r, f) ==
    LET T == S \ Held(S, r, f) IN
    Reduced(T, IF VisibleOwners(S, f) # VisibleOwners(T, f) THEN W \ {f} ELSE W)

ReleaseLease(S, W, r, f) ==
    LET T == S \ Held(S, r, f) IN
    Reduced(T, IF VisibleOwners(S, f) # {} /\ VisibleOwners(T, f) = {}
               THEN W \ {f} ELSE W)

\* attach_feed_runtime_live: another demand is released first.
Attach(r, v, visible) ==
    LET f    == Fingerprint(QueryOf(v), now)
        kept == IF live[r] \in {<<>>, f} THEN Reduced(leases, open)
                ELSE ReleaseLease(leases, open, r, live[r])
        done == AttachLease(kept.leases, kept.open,
                    [lease |-> f, owner |-> r, surface |-> v.surface, visible |-> visible])
    IN  /\ leases' = done.leases /\ open' = done.open
        /\ live' = [live EXCEPT ![r] = f] /\ UNCHANGED now

Release(r) ==
    /\ live[r] # <<>>
    /\ LET done == ReleaseLease(leases, open, r, live[r])
       IN  leases' = done.leases /\ open' = done.open
    /\ live' = [live EXCEPT ![r] = <<>>] /\ UNCHANGED now

\* set_owner_visibility: every lease of the owner suspends or resumes.
SetVisibility(r, visible) ==
    LET T == {IF d.owner = r THEN [d EXCEPT !.visible = visible] ELSE d : d \in leases}
        mine == {d.lease : d \in {d \in leases : d.owner = r}}
        resumed   == {f \in mine : VisibleOwners(leases, f) = {} /\ VisibleOwners(T, f) # {}}
        suspended == {f \in mine : VisibleOwners(leases, f) # {} /\ VisibleOwners(T, f) = {}}
    IN  /\ leases' = T /\ open' = (open \ suspended) \cup resumed
        /\ UNCHANGED <<now, live>>

Tick == now < MaxNow /\ now' = now + 1 /\ UNCHANGED <<leases, open, live>>

Next == \/ \E r \in Runtimes, visible \in BOOLEAN :
              SetVisibility(r, visible) \/ \E v \in Views : Attach(r, v, visible)
        \/ \E r \in Runtimes : Release(r)
        \/ Tick

Spec == Init /\ [][Next]_vars

-----------------------------------------------------------------------------
\* A runtime that is visible has its wire, and it is the wire of its last
\* attach: whichever of the runtimes that share it attach anew, hide, leave
\* or move to another demand (runtime.rs:20-43, registry.rs:82-119).
VisibleHasWire ==
    \A d \in leases : d.visible => d.lease \in open /\ live[d.owner] = d.lease

\* Not so: a runtime that attaches its demand again while hidden leaves the
\* wire open without a visible owner, and its release does not close it
\* (registry.rs:82-119, runtime.rs:29-34).
WireOnlyForVisible == \A f \in open : VisibleOwners(leases, f) # {}
=============================================================================
