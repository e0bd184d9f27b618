------------------------------- MODULE MCFeeds -------------------------------
(***************************************************************************)
(* The feeds of the Rust hosts and the page around them.  A behaviour is   *)
(* one load of a surface from the cache, the session of a tab with two     *)
(* mounts, the pages of one local search, a public chat tab, the           *)
(* workspace over its page loads, or the upkeep of the store.              *)
(*                                                                         *)
(* Loads: four ticks, a recent range of one: a profile scan has three      *)
(* ranges, [3, 4), [1, 3) and [0, 1).  The coverage rows of one relay      *)
(* overlap, leave gaps, come in any order and are empty, not empty or not  *)
(* clean.                                                                  *)
(* Search: pages of one row, three token rows for a query, six events, two *)
(* in the same second, one of a kind that is not displayed, one that has a *)
(* token twice, one whose second token is past the limit.                  *)
(* Chat: two channels, three metadata events of one of them (two at the    *)
(* same second), a message of the other that tags both, one relay that     *)
(* only a hint names and one that is disabled.                             *)
(* Workspace: one startup tab beside Welcome, one key, three panes.        *)
(* Upkeep: one resource of every kind; the two records of a relay have the *)
(* same id.                                                                *)
(***************************************************************************)
EXTENDS FeedLoad, FeedSession, LocalSearch, PublicChat, StorageUpkeep, WorkspaceSession

CONSTANTS r1, r2

VARIABLE part      \* which machine this behaviour runs

Row(relay, since, until, clean, empty) ==
    [relay |-> relay, since |-> since, until |-> until, clean |-> clean,
     empty |-> empty]

Menu == {Row(r1, 3, 4, TRUE, TRUE), Row(r1, 1, 4, TRUE, FALSE),
         Row(r1, 2, 3, TRUE, TRUE), Row(r1, 1, 2, TRUE, TRUE),
         Row(r1, 0, 3, TRUE, TRUE), Row(r1, 3, 4, FALSE, TRUE),
         Row(r2, 0, 4, TRUE, TRUE), Row(r2, 3, 4, TRUE, FALSE)}

MCTables == SUBSET Menu

MCEvents == {[at |-> 3, relay |-> r1], [at |-> 1, relay |-> r2]}

Post(id, at, displayed, words) == [id |-> id, at |-> at, shown |-> displayed, words |-> words]
MCPosts == {Post(1, 3, TRUE, <<"a", "b">>), Post(2, 3, TRUE, <<"b", "a", "a">>),
            Post(3, 2, FALSE, <<"a", "b">>), Post(4, 2, TRUE, <<"a">>),
            Post(5, 1, TRUE, <<"b", "a">>), Post(6, 1, TRUE, <<"a", "a", "b">>)}

MCQuery == <<"a", "b", "a">>

\* The keys are 10 (the account), 11 and 12.
Nip28(k, id, at, by, target, refs, hints, valid) ==
    [kind |-> k, id |-> id, at |-> at, by |-> by, target |-> target, refs |-> refs,
     hints |-> hints, valid |-> valid]
MCChat == {Nip28("create", 1, 1, 10, 0, {}, <<"hint", "off">>, TRUE),
           Nip28("create", 2, 2, 11, 0, {}, <<>>, FALSE),
           Nip28("metadata", 3, 3, 10, 1, {1}, <<>>, TRUE),
           Nip28("metadata", 4, 3, 10, 1, {1}, <<"hint">>, TRUE),
           Nip28("metadata", 5, 2, 10, 1, {1}, <<>>, TRUE),
           Nip28("message", 6, 4, 11, 1, {1}, <<>>, TRUE),
           Nip28("message", 7, 4, 12, 2, {1, 2}, <<>>, TRUE),
           Nip28("hide", 8, 5, 10, 6, {6}, <<>>, TRUE),
           Nip28("mute", 9, 5, 10, 12, {12}, <<>>, TRUE)}
MCHeldBy == [id \in 1..9 |-> IF id = 6 THEN {"hint"} ELSE {"home", "off"}]

MCSelected == <<"home", "off">>

MCStartup == <<"home">>

Res(k, id) == [kind |-> k, id |-> id]
\* In the order of their ranks.
MCOrder == <<Res("tab-state", "t"), Res("job-record", "j"), Res("relay-summary", "w"),
             Res("relay-info", "w"), Res("nostr-event", "e"), Res("notification-record", "n"),
             Res("feed-cursor", "c"), Res("coverage-row", "v"), Res("scan-hint", "h"),
             Res("relay-list-suggestion", "s"), Res("author-relay-route", "a")>>
MCResources == {MCOrder[i] : i \in DOMAIN MCOrder}
MCBytes == [r \in MCResources |-> IF r.kind = "nostr-event" THEN 2 ELSE 1]
MCRank  == [r \in MCResources |-> CHOOSE i \in DOMAIN MCOrder : MCOrder[i] = r]

\* The machines that do not run have one state.
MCInit == /\ part \in {"load", "session", "search", "chat", "workspace", "upkeep"}
          /\ Init /\ SessionInit /\ SearchInit /\ ChatInit /\ SpaceInit /\ UpkeepInit
          /\ surface = "home" \/ part = "load"
          /\ tab = "home" \/ part = "session"
          /\ stored = {} \/ part = "search"

MCNext ==
    \/ part = "load" /\ Next /\ UNCHANGED <<part, sessionVars, searchVars, chatVars, spaceVars, upkeepVars>>
    \/ part = "session" /\ SessionNext /\ UNCHANGED <<part, vars, searchVars, chatVars, spaceVars, upkeepVars>>
    \/ part = "search" /\ SearchNext /\ UNCHANGED <<part, vars, sessionVars, chatVars, spaceVars, upkeepVars>>
    \/ part = "chat" /\ ChatNext
       /\ UNCHANGED <<part, vars, sessionVars, searchVars, spaceVars, upkeepVars>>
    \/ part = "workspace" /\ SpaceNext
       /\ UNCHANGED <<part, vars, sessionVars, searchVars, chatVars, upkeepVars>>
    \/ part = "upkeep" /\ UpkeepNext
       /\ UNCHANGED <<part, vars, sessionVars, searchVars, chatVars, spaceVars>>

allVars == <<part, vars, sessionVars, searchVars, chatVars, spaceVars, upkeepVars>>
MCSpec == MCInit /\ [][MCNext]_allVars

\* One machine alone.
OneSearchSpec == MCInit /\ part = "search" /\ [][MCNext]_allVars
WorkspaceSpec == MCInit /\ part = "workspace" /\ [][MCNext]_allVars
LedgerSpec == MCInit /\ part = "upkeep" /\ [][MCNext]_allVars
=============================================================================
