---------------------------- MODULE MCRustRelays ----------------------------
(***************************************************************************)
(* The relay crates and what their reads feed, each behaviour one of: a    *)
(* client with its effects, for two registrations of its owner, two frames *)
(* and a queue of one; two feed runtimes over five views, of which Home    *)
(* and Profile come to share a wire when both show one author, and two     *)
(* ticks of the clock; scans of one feed at two relays, one with two       *)
(* events in every second, one with three in a second; and a feed of three *)
(* rows with a viewport of one, four layouts and three scrolls; page reads *)
(* of two owners while two routes become known or relays are disabled.     *)
(***************************************************************************)
EXTENDS LeaseRuntime, RelayEffects, RoutedReads, FeedScan, ResizeAnchor

VARIABLE part

allVars == <<part, effectVars, vars, scanVars, anchorVars, readVars>>

V(surface, subject, since) ==
    [surface |-> surface, subject |-> subject, relays |-> {"w1"}, since |-> since]
MCViews == {V("home", {"a"}, 7), V("profile", {"a"}, 7), V("profile", {"a"}, 0),
            V("notifications", {"a"}, 7), V("global", {}, 0)}
LeakViews == {V("home", {"a"}, 7), V("notifications", {"a"}, 7)}

MCContexts ==
    {[feed |-> "home", group |-> "g", relay |-> w, filter |-> "k", dir |-> "older",
      route |-> "x"] : w \in {"w1", "w2"}}
MCHistories ==
    {[w1 |-> [t \in 0..4 |-> 1], w2 |-> [t \in 0..4 |-> <<0, 3, 0, 0, 1>>[t + 1]]]}
MCRows == <<"a", "b", "c">>

\* A list and a receipt of the first author, at two relays of which the second
\* serves two rows at a time; a hint of the second author.
Url(host, form) == [host |-> host, form |-> form]
MCRoutes == {[author |-> 1, url |-> Url(1, "plain"), source |-> "nip65", score |-> 60],
             [author |-> 1, url |-> Url(2, "alias"), source |-> "receipt", score |-> 0],
             [author |-> 2, url |-> Url(3, "broken"), source |-> "hint", score |-> 0]}
MCBlockable == {Url(1, "alias"), Url(2, "plain")}
MCRelayMax  == <<{}, {2}>>

I(surface, page, limit) ==
    [surface |-> surface, page |-> page, limit |-> limit, authors |-> {1, 2},
     selected |-> {Url(2, "alias")}, purpose |-> "feed", filters |-> 2,
     dir |-> "older", cursor |-> {5}, before |-> {}, after |-> {}]
MCIntents ==
    {I("home", 2, {}),
     [I("global", 600, {700}) EXCEPT !.dir = "initial", !.cursor = {}, !.before = {5}],
     [I("home", 1, {}) EXCEPT !.purpose = "lookup", !.authors = {2}]}

Clean == [first |-> {1}, eose |-> {2}, events |-> 4, unique |-> 4, final |-> 4, flags |-> {}]
MCObservations ==
    {Clean, [Clean EXCEPT !.eose = {}, !.unique = 2, !.flags = {"timeout"}],
     [Clean EXCEPT !.first = {}, !.eose = {}, !.events = 0, !.flags = {"error", "auth"}]}

MCInit == /\ part \in {"client", "leases", "scans", "anchor", "reads"}
          /\ Init /\ EffectsInit /\ ScanInit /\ AnchorInit /\ ReadsInit

MCNext ==
    \/ part = "client" /\ EffectsNext
                       /\ UNCHANGED <<part, vars, scanVars, anchorVars, readVars>>
    \/ part = "leases" /\ Next
                       /\ UNCHANGED <<part, effectVars, scanVars, anchorVars, readVars>>
    \/ part = "scans"  /\ ScanNext
                       /\ UNCHANGED <<part, vars, effectVars, anchorVars, readVars>>
    \/ part = "anchor" /\ AnchorNext /\ calm'
                       /\ UNCHANGED <<part, vars, effectVars, scanVars, readVars>>
    \/ part = "reads"  /\ ReadsNext
                       /\ UNCHANGED <<part, vars, effectVars, scanVars, anchorVars>>

MCSpec == MCInit /\ [][MCNext]_allVars

\* One machine alone, for the runs that show one disagreement.
LeaseSpec == MCInit /\ part = "leases" /\ [][MCNext]_allVars
=============================================================================
