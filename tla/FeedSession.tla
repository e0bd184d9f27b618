----------------------------- MODULE FeedSession -----------------------------
(***************************************************************************)
(* The session of a feed surface: the mounts of its tab, the requests they *)
(* make of the host (the read of the mount and its older pages), the       *)
(* leases that can end them, the relay reads the host starts, the slots    *)
(* through which a release cancels a read, and what the host remembers of  *)
(* an owner between two requests (crates/lkjstr-ui/src/workspace and       *)
(* crates/lkjstr-web/src, *_host.rs and *_host_commands.rs).               *)
(*                                                                         *)
(* A relay read is known here by what ReadContract promises of it: while   *)
(* it runs it gives windows, the last one as it ends.  Everything runs on  *)
(* the one thread of the page: a step is a callback run to its end, and    *)
(* the awaits of a model load are where other callbacks come in between.   *)
(***************************************************************************)
EXTENDS Naturals, FiniteSets

CONSTANTS Tabs,          \* the surfaces to consider
          Rows,          \* rows a feed can show, 1 the newest
          MaxMounts,     \* bound on the mounts of the tab
          MaxOlder       \* bound on the older pages asked

ASSUME SessionAssumption == MaxMounts \in Nat /\ MaxOlder \in Nat

VARIABLES
    tab,         \* the surface of the tab
    opened,      \* mounts made so far
    mounted,     \* mounts whose view is in the page
    held,        \* requests whose lease is not released
    loading,     \* requests whose model load is awaited, with their window
    reads,       \* the relay reads that run, and the window each would give
    slot,        \* RelayReadSlot: the read a slot would cancel
    entry,       \* HomeOwners: what the host remembers of the Home owner
    base,        \* the input the host remembers of another owner
    loader,      \* the older request the loader of a mount remembers
    clicks,      \* older pages asked so far
    shown        \* the rows a mount shows

sessionVars == <<tab, opened, mounted, held, loading, reads, slot, entry,
                 base, loader, clicks, shown>>

Mounts == 1..MaxMounts

Requests == Mounts \X (0..MaxOlder)     \* <<mount, 0>> is the read of a mount

Parts == {"feed", "follow", "live", "header"}

ReadIds == Requests \X Parts

Slots == Requests \X {"feed", "header"}

Vacant == <<>>

NoReads == [r \in {} |-> {}]

NoEntry == [generation |-> 0]

NoBase == {0}         \* nothing remembered; the empty set is an empty window

FirstRead(m) == <<m, 0>>

Keyed == {"global", "notifications", "thread"}    \* remember by owner

(* The slot a read is registered in: Home has one for all the reads of a   *)
(* mount, the header read of Profile has its own.                          *)
SlotOf(read) ==
    IF tab = "home" THEN <<FirstRead(read[1][1]), "feed">>
    ELSE <<read[1], IF read[2] = "header" THEN "header" ELSE "feed">>

SlotsOf(q) == {SlotOf(<<q, p>>) : p \in Parts}

SessionInit ==
    /\ tab \in Tabs
    /\ opened = 0 /\ mounted = {} /\ held = {} /\ loading = {}
    /\ reads = NoReads /\ slot = [s \in Slots |-> Vacant]
    /\ entry = NoEntry /\ base = NoBase
    /\ loader = [m \in Mounts |-> 0] /\ clicks = 0
    /\ shown = [m \in Mounts |-> {}]

-----------------------------------------------------------------------------
(* Leases, slots and reads *)

Held(q) == q \in held

Only(read, window) == [r \in {read} |-> window]

(* Some reads, and those of the others that go on.                         *)
With(started, kept) ==
    [r \in DOMAIN started \cup kept |->
        IF r \in DOMAIN started THEN started[r] ELSE reads[r]]

(* Mutant: a slot that is cancelled or taken leaves its read running.      *)
ReadsWithoutCancel(cut, ended, started) ==
    /\ reads' = With(started, DOMAIN reads \ ended)
    /\ slot' = [s \in Slots |->
                  IF \E r \in DOMAIN started : SlotOf(r) = s
                  THEN CHOOSE r \in DOMAIN started : SlotOf(r) = s
                  ELSE IF s \in cut \/ slot[s] \in ended THEN Vacant ELSE slot[s]]

(* RelayReadSlot::cancel of the slots `cut`, the end of the reads `ended`, *)
(* and RelayReadSlot::replace for each read of `started`: the read a slot  *)
(* held before is cancelled.  The handle of a read that is gone does       *)
(* nothing (it is weak).                                                   *)
ReadsAfter(cut, ended, started) ==
    LET taken == {SlotOf(r) : r \in DOMAIN started}
        gone  == ended \cup {slot[s] : s \in cut \cup taken}
    IN  /\ reads' = With(started, DOMAIN reads \ gone)
        /\ slot' = [s \in Slots |->
                      IF s \in taken
                      THEN CHOOSE r \in DOMAIN started : SlotOf(r) = s
                      ELSE IF slot[s] \in gone THEN Vacant ELSE slot[s]]

SlotsOfAll(requests) == UNION {SlotsOf(q) : q \in requests}

(* LocalLease::release of some requests, and the reads started after it.   *)
LetGo(requests, started) == ReadsAfter(SlotsOfAll(requests), {}, started)

Start(read, window) == LetGo({}, Only(read, window))

NothingStarts == UNCHANGED <<reads, slot>>

Show(m, window) == shown' = [shown EXCEPT ![m] = window]

(* The older request a mount holds, if any.                                *)
OlderOf(m) == IF loader[m] = 0 THEN {} ELSE {<<m, loader[m]>>}

-----------------------------------------------------------------------------
(* Mounting: provider.read opens a request and loads its model. *)

Opening ==
    /\ opened < MaxMounts
    /\ opened' = opened + 1
    /\ mounted' = mounted \cup {opened + 1}
    /\ loading' = loading \cup {<<FirstRead(opened + 1), {}>>}
    /\ UNCHANGED <<tab, base, clicks, shown>>

(* HomeRelayState::open takes the owner over from the mount before, whose  *)
(* view may still be there: its read is cancelled and its older request    *)
(* released.                                                               *)
HomeMount ==
    LET closed == IF entry = NoEntry THEN {} ELSE OlderOf(entry.generation)
        cut    == IF entry = NoEntry THEN {}
                  ELSE {<<FirstRead(entry.generation), "feed">>}
    IN  /\ tab = "home" /\ Opening
        /\ entry' = [generation |-> opened + 1, input |-> NoBase, busy |-> TRUE]
        /\ held' = (held \ closed) \cup {FirstRead(opened + 1)}
        /\ ReadsAfter(cut, {}, NoReads)
        /\ loader' = [m \in Mounts |->
                        IF OlderOf(m) \subseteq closed THEN 0 ELSE loader[m]]

Mount ==
    /\ tab # "home" /\ Opening
    /\ held' = held \cup {FirstRead(opened + 1)}
    /\ UNCHANGED <<reads, slot, entry, loader>>

(* Mutant: the release of an old mount forgets the owner of the new one.   *)
HomeForgotten(m) == NoEntry

(* HomeRelayState::forget looks at the generation.                         *)
HomeAfterForget(m) ==
    IF entry # NoEntry /\ entry.generation = m THEN NoEntry ELSE entry

(* on_cleanup of the tab: the older request and the read are released, and *)
(* the owner is forgotten; the keyed surfaces forget it whoever else has   *)
(* remembered it (release_owner).                                          *)
Unmount(m) ==
    /\ m \in mounted
    /\ mounted' = mounted \ {m}
    /\ held' = held \ (OlderOf(m) \cup {FirstRead(m)})
    /\ LetGo(OlderOf(m) \cup {FirstRead(m)}, NoReads)
    /\ loader' = [loader EXCEPT ![m] = 0]
    /\ entry' = HomeAfterForget(m)
    /\ base' = IF tab \in Keyed THEN NoBase ELSE base
    /\ Show(m, {})
    /\ UNCHANGED <<tab, opened, loading, clicks>>

-----------------------------------------------------------------------------
(* The model of a mount is loaded: its cached rows are shown, and a relay  *)
(* read starts unless the cache is complete.                               *)

LoadEnds(m) ==
    /\ <<FirstRead(m), {}>> \in loading
    /\ loading' = loading \ {<<FirstRead(m), {}>>}
    /\ UNCHANGED <<tab, opened, mounted, held, loader, clicks>>

Abandon == UNCHANGED <<entry, base, shown>> /\ NothingStarts

HomeIsCurrent(m) == entry # NoEntry /\ entry.generation = m

(* The base input is there when the follow list is; without it the read    *)
(* looks for the list first.                                               *)
HomeModelLoaded(m) ==
    /\ tab = "home" /\ LoadEnds(m)
    /\ IF ~Held(FirstRead(m)) \/ ~HomeIsCurrent(m) THEN Abandon
       ELSE \E cached \in SUBSET Rows, relay \in {"none", "notes", "follow"} :
              /\ Show(m, cached)
              /\ \/ /\ relay # "follow"
                    /\ entry' = [entry EXCEPT !.input = cached, !.busy = relay = "notes"]
                 \/ relay # "notes" /\ UNCHANGED entry
              /\ CASE relay = "none"   -> NothingStarts
                   [] relay = "notes"  -> Start(<<FirstRead(m), "feed">>, cached)
                   [] relay = "follow" -> Start(<<FirstRead(m), "follow">>, cached)
              /\ UNCHANGED base

(* The keyed surfaces remember the base input, or forget the owner if      *)
(* there is none.                                                          *)
KeyedModelLoaded(m) ==
    /\ LoadEnds(m)
    /\ IF ~Held(FirstRead(m)) THEN Abandon
       ELSE \E cached \in SUBSET Rows, relay \in {"none", "base", "read"} :
              /\ base' = IF relay = "none" THEN NoBase ELSE cached
              /\ Show(m, cached)
              /\ IF relay = "read" THEN Start(<<FirstRead(m), "feed">>, cached)
                 ELSE NothingStarts
              /\ UNCHANGED entry

GlobalModelLoaded(m) == tab = "global" /\ KeyedModelLoaded(m)
NotificationsModelLoaded(m) == tab = "notifications" /\ KeyedModelLoaded(m)
ThreadModelLoaded(m) == tab = "thread" /\ KeyedModelLoaded(m)

(* The others start their reads, if there are any, and remember nothing;   *)
(* Profile reads its header and its feed.                                  *)
PlainModelLoaded(m, parts) ==
    /\ LoadEnds(m)
    /\ IF ~Held(FirstRead(m)) THEN Abandon
       ELSE \E cached \in SUBSET Rows, some \in SUBSET parts :
              /\ Show(m, cached)
              /\ LetGo({}, [r \in {FirstRead(m)} \X some |-> cached])
              /\ UNCHANGED <<entry, base>>

SearchModelLoaded(m) == tab = "search" /\ PlainModelLoaded(m, {"feed"})
AuthorModelLoaded(m) == tab = "author" /\ PlainModelLoaded(m, {"feed"})
CustomModelLoaded(m) == tab = "custom" /\ PlainModelLoaded(m, {"feed"})
FolloweesModelLoaded(m) == tab = "followees" /\ PlainModelLoaded(m, {"feed"})
TimelineModelLoaded(m) == tab = "timeline" /\ PlainModelLoaded(m, {"feed"})
ProfileModelLoaded(m) == tab = "profile" /\ PlainModelLoaded(m, {"feed", "header"})

-----------------------------------------------------------------------------
(* A read gives a window: what it started from with the rows it has found. *)

Same == UNCHANGED <<tab, opened, mounted, loading, clicks>>

Older(read) == read[1][2] > 0

(* The windows a read may give next; an older page finds rows older than   *)
(* those it started from (event_before_cursor).                            *)
NextWindows(read) ==
    {reads[read] \cup rows : rows \in
       {r \in SUBSET Rows : Older(read) => \A new \in r, old \in reads[read] : new > old}}

GoesOn(read, window, finished) ==
    IF finished THEN ReadsAfter({}, {read}, NoReads)
    ELSE reads' = [reads EXCEPT ![read] = window] /\ UNCHANGED slot

(* start_notes and the first read: the input is remembered and the owner   *)
(* is busy until the read has finished.                                    *)
HomeOutput(read, finished) ==
    LET m == read[1][1]
    IN  /\ tab = "home" /\ ~Older(read) /\ read[2] = "feed" /\ Same
        /\ \E window \in NextWindows(read) :
             /\ GoesOn(read, window, finished)
             /\ IF Held(read[1]) /\ HomeIsCurrent(m)
                THEN /\ entry' = [entry EXCEPT !.input = window, !.busy = ~finished]
                     /\ Show(m, window)
                ELSE UNCHANGED <<entry, shown>>
        /\ UNCHANGED <<held, base, loader>>

(* The follow read ends without a list; or it finds one, and the read of   *)
(* notes takes its slot.                                                   *)
HomeFollowOutput(read, finished) ==
    /\ tab = "home" /\ read[2] = "follow" /\ finished /\ Same
    /\ \/ GoesOn(read, {}, TRUE) /\ UNCHANGED entry
       \/ /\ Held(read[1]) /\ HomeIsCurrent(read[1][1])
          /\ entry' = [entry EXCEPT !.input = reads[read], !.busy = TRUE]
          /\ Start(<<read[1], "feed">>, reads[read])
    /\ UNCHANGED <<held, base, loader, shown>>

(* An older page of Home: remembered and shown; its last window releases   *)
(* its own lease, which frees the owner and the loader.                    *)
HomeOlderOutput(read, finished) ==
    LET q == read[1]
    IN  /\ tab = "home" /\ Older(read) /\ Same
        /\ \E window \in NextWindows(read) :
             /\ GoesOn(read, window, finished)
             /\ IF Held(q) /\ HomeIsCurrent(q[1])
                THEN /\ entry' = [entry EXCEPT !.input = window, !.busy = ~finished]
                     /\ Show(q[1], window)
                     /\ held' = IF finished THEN held \ {q} ELSE held
                     /\ loader' = IF finished THEN [loader EXCEPT ![q[1]] = 0] ELSE loader
                ELSE UNCHANGED <<held, entry, loader, shown>>
        /\ UNCHANGED base

(* complete_read_output and the callback of an older page: remembered by   *)
(* owner and shown.  The first read of a Thread, once complete, starts the *)
(* live read in its slot.                                                  *)
KeyedOutput(read, finished) ==
    /\ Same
    /\ \E window \in NextWindows(read) :
         IF ~Held(read[1])
         THEN GoesOn(read, window, finished) /\ UNCHANGED <<base, shown>>
         ELSE /\ base' = window
              /\ Show(read[1][1], window)
              /\ \/ GoesOn(read, window, finished)
                 \/ /\ tab = "thread" /\ read[2] = "feed" /\ ~Older(read)
                    /\ finished /\ window # {}
                    /\ ReadsAfter({}, {read}, Only(<<read[1], "live">>, window))
    /\ UNCHANGED <<held, entry, loader>>

GlobalOutput(read, finished) == tab = "global" /\ KeyedOutput(read, finished)

NotificationsOutput(read, finished) ==
    tab = "notifications" /\ KeyedOutput(read, finished)

ThreadOutput(read, finished) == tab = "thread" /\ KeyedOutput(read, finished)

(* The callback of every other surface hands the view to its request.      *)
PlainOutput(read, finished) ==
    /\ tab \notin Keyed \cup {"home"} /\ read[2] = "feed" /\ Same
    /\ \E window \in NextWindows(read) :
         /\ GoesOn(read, window, finished)
         /\ IF Held(read[1]) THEN Show(read[1][1], window) ELSE UNCHANGED shown
    /\ UNCHANGED <<held, entry, base, loader>>

(* The header read of Profile builds each view from the window its mount   *)
(* was loaded with (profile_header_model).                                 *)
HeaderOutput(read, finished) ==
    /\ tab = "profile" /\ read[2] = "header" /\ Same
    /\ GoesOn(read, reads[read], finished)
    /\ IF Held(read[1]) THEN Show(read[1][1], reads[read]) ELSE UNCHANGED shown
    /\ UNCHANGED <<held, entry, base, loader>>

Output(read, finished) ==
    \/ HomeOutput(read, finished) \/ HomeFollowOutput(read, finished)
    \/ HomeOlderOutput(read, finished)
    \/ GlobalOutput(read, finished) \/ NotificationsOutput(read, finished)
    \/ ThreadOutput(read, finished) \/ PlainOutput(read, finished)
    \/ HeaderOutput(read, finished)

-----------------------------------------------------------------------------
(* Older pages.  A page is asked in the latest mount: the view of an older *)
(* one is only still there while it is being replaced.                     *)

NewOlder(m) == <<m, clicks + 1>>

Asked(m) ==
    /\ m \in mounted /\ m = opened /\ clicks < MaxOlder
    /\ clicks' = clicks + 1
    /\ UNCHANGED <<tab, opened, mounted, base, shown>>

(* HomeRelayState::start_older: the owner is known, idle and has a cursor. *)
HomeCanPage ==
    entry # NoEntry /\ ~entry.busy /\ entry.input \notin {NoBase, {}}

(* HomeOlderLoader::request and start_home_older_request: one page at a    *)
(* time; a page that cannot start releases its lease at once.              *)
HomeOlder(m) ==
    LET q == NewOlder(m)
    IN  /\ tab = "home" /\ Asked(m) /\ loader[m] = 0
        /\ IF HomeCanPage
           THEN /\ entry' = [entry EXCEPT !.busy = TRUE]
                /\ held' = held \cup {q}
                /\ loader' = [loader EXCEPT ![m] = q[2]]
                /\ Start(<<q, "feed">>, entry.input)
           ELSE UNCHANGED <<entry, held, loader>> /\ NothingStarts
        /\ UNCHANGED loading

(* The other loaders release the page before it and remember the new one.  *)
Replaces(m, q, started) ==
    /\ held' = (held \ OlderOf(m)) \cup {q}
    /\ LetGo(OlderOf(m), started)
    /\ loader' = [loader EXCEPT ![m] = q[2]]

(* start_older_request of the keyed surfaces: the page starts from the     *)
(* remembered input, which it remembers again; the intent may refuse it.   *)
KeyedOlder(m) ==
    LET q == NewOlder(m)
    IN  /\ Asked(m)
        /\ \/ Replaces(m, q, NoReads)
           \/ base \notin {NoBase, {}} /\ Replaces(m, q, Only(<<q, "feed">>, base))
        /\ UNCHANGED <<loading, entry>>

GlobalOlder(m) == tab = "global" /\ KeyedOlder(m)
NotificationsOlder(m) == tab = "notifications" /\ KeyedOlder(m)
ThreadOlder(m) == tab = "thread" /\ KeyedOlder(m)

(* SearchOlderLoader::request: a window without older rows only releases   *)
(* the page before; otherwise the page starts from the window on screen,   *)
(* and its rows of the local index are awaited first.                      *)
SearchOlder(m) ==
    LET q == NewOlder(m)
    IN  /\ tab = "search" /\ Asked(m)
        /\ \/ /\ held' = held \ OlderOf(m)
              /\ LetGo(OlderOf(m), NoReads)
              /\ loader' = [loader EXCEPT ![m] = 0]
              /\ UNCHANGED loading
           \/ /\ Replaces(m, q, NoReads)
              /\ loading' = loading \cup {<<q, shown[m]>>}
        /\ UNCHANGED entry

SearchOlderLoaded(load) ==
    LET q == load[1]
        read == <<q, "feed">>
    IN  /\ tab = "search" /\ q[2] > 0
        /\ loading' = loading \ {load}
        /\ IF ~Held(q) THEN UNCHANGED shown /\ NothingStarts
           ELSE \E window \in SUBSET Rows :
                  /\ load[2] \subseteq window
                  /\ \A new \in window \ load[2], old \in load[2] : new > old
                  /\ Show(q[1], window)
                  /\ NothingStarts \/ Start(read, window)
        /\ UNCHANGED <<tab, opened, mounted, held, entry, base, loader, clicks>>

-----------------------------------------------------------------------------
ModelLoaded(m) ==
    \/ HomeModelLoaded(m) \/ GlobalModelLoaded(m) \/ NotificationsModelLoaded(m)
    \/ ThreadModelLoaded(m) \/ SearchModelLoaded(m) \/ ProfileModelLoaded(m)
    \/ AuthorModelLoaded(m) \/ CustomModelLoaded(m) \/ FolloweesModelLoaded(m)
    \/ TimelineModelLoaded(m)

AskOlder(m) ==
    \/ HomeOlder(m) \/ GlobalOlder(m) \/ NotificationsOlder(m) \/ ThreadOlder(m)
    \/ SearchOlder(m)

SessionNext ==
    \/ HomeMount \/ Mount
    \/ \E m \in Mounts : Unmount(m) \/ ModelLoaded(m) \/ AskOlder(m)
    \/ \E load \in loading : SearchOlderLoaded(load)
    \/ \E read \in DOMAIN reads, finished \in BOOLEAN : Output(read, finished)

(* A read ends (ReadSettles of WindowRead, StoredSettles); nothing else is *)
(* assumed.                                                                *)
SessionFairness ==
    \A read \in ReadIds : WF_sessionVars(read \in DOMAIN reads /\ Output(read, TRUE))

SessionSpec == SessionInit /\ [][SessionNext]_sessionVars /\ SessionFairness
-----------------------------------------------------------------------------
(* Properties *)

Entries == [generation : Mounts, input : (SUBSET Rows) \cup {NoBase}, busy : BOOLEAN]

(* Every variable has its type.                                            *)
SessionTypeOK ==
    /\ tab \in Tabs /\ opened \in 0..MaxMounts
    /\ mounted \subseteq 1..opened
    /\ held \subseteq Requests /\ loading \subseteq Requests \X SUBSET Rows
    /\ DOMAIN reads \subseteq ReadIds /\ \A r \in DOMAIN reads : reads[r] \subseteq Rows
    /\ slot \in [Slots -> ReadIds \cup {Vacant}]
    /\ entry \in Entries \cup {NoEntry}
    /\ base \in (SUBSET Rows) \cup {NoBase}
    /\ loader \in [Mounts -> 0..MaxOlder] /\ clicks \in 0..MaxOlder
    /\ shown \in [Mounts -> SUBSET Rows]

(* No read outlives its request: a read that runs is in the slot its       *)
(* request would cancel, the lease of the request is still held, and an    *)
(* older page is the one its loader would release; so closing the tab ends *)
(* every read, and a keyed surface remembers no owner after that.          *)
NoOrphanRead ==
    /\ \A read \in DOMAIN reads :
         /\ read[1] \in held /\ read[1][1] \in mounted
         /\ slot[SlotOf(read)] = read
         /\ Older(read) => loader[read[1][1]] = read[1][2]
    /\ base # NoBase => mounted # {}

(* The owner of Home belongs to its last mount and has one reader: it is   *)
(* busy while its first read or an older page is under way, and is not     *)
(* kept busy by a read that is gone.                                       *)
HomeOwnerHasOneReader ==
    tab = "home" =>
        /\ Cardinality(DOMAIN reads) <= 1
        /\ entry # NoEntry <=> opened \in mounted
        /\ entry # NoEntry =>
             /\ entry.generation = opened
             /\ DOMAIN reads # {} => entry.busy
             /\ entry.busy /\ entry.input # NoBase => DOMAIN reads # {}
=============================================================================
