----------------------------- MODULE PanelHost -----------------------------
(***************************************************************************)
(* The Relay Settings, Settings, Upload Settings and Tweet tabs over the   *)
(* SQLite store (crates/lkjstr-web/src: relay_settings_host.rs,            *)
(* settings_host.rs, upload_settings_host.rs, tweet_host.rs).  A command   *)
(* is a chain of awaited calls and ends by setting the signals of its tab. *)
(* The store serves calls in the order they are posted: the calls of two   *)
(* commands alternate.  One tab is open at a time: they share no row.      *)
(***************************************************************************)
EXTENDS Naturals, Sequences, FiniteSets, SequencesExt

CONSTANTS Tabs,              \* the tabs to consider
          Urls,              \* relay urls
          Texts,             \* values of a setting and of a draft
          MaxPanelCommands,  \* bound on the commands given
          MaxPanelFaults,    \* bound on the calls that fail
          MaxHops            \* the bound of resolve_upload_endpoint, 8 in the code

SetIds  == {"public-default", "discovery-default"}
UserSet == "public-default"
NoText  == "unset"

VARIABLES
    tab,        \* the open tab
    sets,       \* relay_sets: the stored sets, each with what it says of a url
    selected,   \* localStorage lkjstr.defaultRelaySetId
    texts,      \* the rows of the settings or of the draft table
    view,       \* what the tab shows
    commands,   \* the commands given
    queue,      \* posted calls, as the commands that wait for them
    panelFaults \* number of failed calls

panelVars == <<tab, sets, selected, texts, view, commands, queue, panelFaults>>
stores    == <<sets, selected, texts>>

PanelSlots == 1..MaxPanelCommands
\* The rows of the settings table a tab edits; a tab's draft and the shared
\* draft "main" of tweet_drafts.
TextKeys == IF tab = "tweet" THEN {"draft", "main"} ELSE {"a", "b"}

NoCommand == [op |-> "none", key |-> "none", url |-> "none", val |-> NoText, pc |-> "idle",
              loaded |-> <<>>, todo |-> <<>>, final |-> FALSE, ok |-> TRUE, hops |-> 0]
AtWork == {c \in PanelSlots : commands[c].pc \notin {"idle", "done"}}

\* default_user_relay_set, default_discovery_relay_set
Default  == [u \in Urls |-> "on"]
SeedRows == [s \in SetIds |-> Default]
NoRows   == <<>>
With(rows, s, row) == [t \in DOMAIN rows \cup {s} |-> IF t = s THEN row ELSE rows[t]]

PanelInit ==
    /\ tab \in Tabs
    /\ sets \in {NoRows, SeedRows, With(NoRows, UserSet, Default)}
    /\ selected \in {"none", "a-removed-set", UserSet}
    /\ texts \in [TextKeys -> Texts \cup {NoText}]
    /\ view = [sets |-> NoRows, selected |-> UserSet,
               texts |-> [k \in TextKeys |-> NoText], ok |-> FALSE]
    /\ commands = [c \in PanelSlots |-> NoCommand]
    /\ queue = <<>> /\ panelFaults = 0

-----------------------------------------------------------------------------
(* Calls *)

AtCall(c, pc) == commands[c].pc = pc
Turn(c)       == queue # <<>> /\ Head(queue) = c
Becomes(c, r) == commands' = [commands EXCEPT ![c] = r]
Served(r, c)  == Becomes(c, r) /\ queue' = Tail(queue)
Post(r, c)    == Becomes(c, r) /\ queue' = Append(Tail(queue), c)
CallAnswered  == UNCHANGED panelFaults
CallFails     == panelFaults < MaxPanelFaults /\ panelFaults' = panelFaults + 1

\* The command is over and its result is shown; as names how it ended.
ShowAs(c, as, v) == view' = v /\ Served([NoCommand EXCEPT !.pc = "done", !.op = as], c)
Show(c, v)       == ShowAs(c, "none", v)

OnTab(op, key, url, val, pc) ==
    \E c \in PanelSlots :
        /\ AtCall(c, "idle") /\ \A d \in PanelSlots : d < c => ~AtCall(d, "idle")
        /\ Becomes(c, [NoCommand EXCEPT !.op = op, !.key = key, !.url = url, !.val = val, !.pc = pc])
        /\ queue' = IF pc = "fetch" THEN queue ELSE Append(queue, c)
        /\ UNCHANGED <<tab, stores, panelFaults>>

-----------------------------------------------------------------------------
(* Relay Settings *)

Click(op, key, url, val) ==
    tab = "relays" /\ UNCHANGED view /\ OnTab(op, key, url, val, "read")

Shown(s, u) == s \in DOMAIN view.sets /\ view.sets[s][u] # "none"

OpenRelays   == Click("load", "none", "none", NoText)
AddRelay     == \E s \in DOMAIN view.sets, u \in Urls : Click("add", s, u, NoText)
PatchRelay   == \E s \in SetIds, u \in Urls, v \in {"on", "off"} :
                    Shown(s, u) /\ Click("patch", s, u, v)
RemoveRelay  == \E s \in SetIds, u \in Urls : Shown(s, u) /\ Click("remove", s, u, NoText)
RestoreSet   == \E s \in DOMAIN view.sets : Click("restore", s, "none", NoText)
MakeDefault  == UserSet \in DOMAIN view.sets /\ Click("make_default", UserSet, "none", NoText)

RelayCommand == OpenRelays \/ AddRelay \/ PatchRelay \/ RemoveRelay \/ RestoreSet \/ MakeDefault

\* sorted_relay_sets: the user set, then the discovery set.
InOrder(S) == (IF UserSet \in S THEN <<UserSet>> ELSE <<>>)
              \o (IF "discovery-default" \in S THEN <<"discovery-default">> ELSE <<>>)

\* add_relay, patch_relay, remove_relay and restore_default_relay_set on the
\* loaded sets; a command for a set that is not loaded is an error.
Applies(r, rows) == r.op = "restore" \/ (r.op \in {"add", "patch", "remove"} /\ r.key \in DOMAIN rows)

Change(r, rows) ==
    CASE r.op = "add"     -> [rows EXCEPT ![r.key][r.url] = IF @ = "none" THEN "on" ELSE @]
      [] r.op = "patch"   -> [rows EXCEPT ![r.key][r.url] = IF @ = "none" THEN @ ELSE r.val]
      [] r.op = "remove"  -> [rows EXCEPT ![r.key][r.url] = "none"]
      [] r.op = "restore" -> With(rows, r.key, Default)

\* resolve_selected_id
ResolveSelected(rows) == IF selected = UserSet /\ UserSet \in DOMAIN rows THEN selected ELSE UserSet

\* The sets are loaded: the first time for the change, then for the result.
Loaded(c, rows) ==
    LET r == commands[c] IN
    IF r.final \/ r.op = "load"
    THEN /\ selected' = ResolveSelected(rows)
         /\ Show(c, [view EXCEPT !.sets = rows, !.selected = ResolveSelected(rows), !.ok = TRUE])
    ELSE /\ UNCHANGED view
         /\ selected' = IF r.op = "make_default" /\ r.key = UserSet /\ r.key \in DOMAIN rows
                        THEN r.key ELSE selected
         /\ IF Applies(r, rows)
            THEN Post([r EXCEPT !.pc = "save", !.loaded = Change(r, rows),
                                !.todo = InOrder(DOMAIN Change(r, rows))], c)
            ELSE Post([r EXCEPT !.pc = "read", !.final = TRUE], c)

NotLoaded(c) ==
    LET r == commands[c] IN
    /\ UNCHANGED selected
    /\ IF r.final \/ r.op = "load"
       THEN Show(c, [view EXCEPT !.sets = NoRows, !.selected = UserSet, !.ok = FALSE])
       ELSE UNCHANGED view /\ Post([r EXCEPT !.pc = "read", !.final = TRUE], c)

\* load_sets: an empty table is seeded, one row after the other.
ReadSets(c) ==
    LET r == commands[c] IN
    /\ Turn(c) /\ AtCall(c, "read")
    /\ \/ CallAnswered /\ DOMAIN sets # {} /\ Loaded(c, sets)
       \/ /\ CallAnswered /\ DOMAIN sets = {} /\ UNCHANGED <<selected, view>>
          /\ Post([r EXCEPT !.pc = "seed", !.todo = InOrder(SetIds)], c)
       \/ CallFails /\ NotLoaded(c)
    /\ UNCHANGED <<tab, sets, texts>>

SeedRow(c) ==
    LET r == commands[c]
        s == Head(r.todo)
        put == sets' = With(sets, s, Default) IN
    /\ Turn(c) /\ AtCall(c, "seed")
    /\ \/ /\ CallAnswered /\ put
          /\ IF Len(r.todo) = 1 THEN Loaded(c, SeedRows)
             ELSE Post([r EXCEPT !.todo = Tail(@)], c) /\ UNCHANGED <<selected, view>>
       \/ CallFails /\ (put \/ UNCHANGED sets) /\ NotLoaded(c)
    /\ UNCHANGED <<tab, texts>>

\* sqlite_relay_sets_put_all: one upsert per set, up to the first failure.
SaveRow(c) ==
    LET r == commands[c]
        s == Head(r.todo)
        put == sets' = With(sets, s, r.loaded[s])
        reload == [r EXCEPT !.pc = "read", !.final = TRUE] IN
    /\ Turn(c) /\ AtCall(c, "save")
    /\ \/ /\ CallAnswered /\ put
          /\ IF Len(r.todo) = 1 THEN Post(reload, c) ELSE Post([r EXCEPT !.todo = Tail(@)], c)
       \/ CallFails /\ (put \/ UNCHANGED sets) /\ Post([reload EXCEPT !.ok = FALSE], c)
    /\ UNCHANGED <<tab, selected, texts, view>>

-----------------------------------------------------------------------------
(* Settings and Upload Settings *)

\* coerce_value: a value the schema refuses.
Accepts(v) == v # "bad"

FormCommand(t, op, key, val, pc) ==
    tab = t /\ UNCHANGED view /\ OnTab(op, key, "none", val, pc)

\* A refused value is not written: its command only loads.
SaveSetting  == \E k \in TextKeys, v \in Texts \cup {"bad"} :
                    FormCommand("settings", "save", k, v, IF Accepts(v) THEN "write" ELSE "list")
ResetSetting == \E k \in TextKeys : FormCommand("settings", "reset", k, NoText, "write")
ImportJson   == \E v \in Texts \cup {"bad"} :
                    FormCommand("settings", "import", "none", v, IF Accepts(v) THEN "write" ELSE "list")
OpenSettings == FormCommand(tab, "load", "none", NoText, "list") /\ tab \in {"settings", "upload"}
SaveProvider == \E v \in Texts : FormCommand("upload", "save", "a", v, "write")
SaveServer   == \E v \in Texts : FormCommand("upload", "save", "b", v, "write")

SettingsCommand == SaveSetting \/ ResetSetting \/ ImportJson
                   \/ OpenSettings \/ SaveProvider \/ SaveServer

\* sqlite_setting_put, sqlite_setting_delete, sqlite_settings_replace_all
Written(r) ==
    IF r.op = "import" THEN [k \in TextKeys |-> IF k = "a" THEN r.val ELSE NoText]
    ELSE [texts EXCEPT ![r.key] = r.val]

WriteSetting(c) ==
    LET r == commands[c]
        put == texts' = Written(r) IN
    /\ Turn(c) /\ AtCall(c, "write") /\ tab \in {"settings", "upload"}
    /\ \/ CallAnswered /\ put
       \/ CallFails /\ (put \/ UNCHANGED texts)
    /\ Post([r EXCEPT !.pc = "list"], c)
    /\ UNCHANGED <<tab, sets, selected, view>>

ListSettings(c) ==
    /\ Turn(c) /\ AtCall(c, "list")
    /\ \/ CallAnswered /\ Show(c, [view EXCEPT !.texts = texts, !.ok = TRUE])
       \/ CallFails /\ Show(c, [view EXCEPT !.texts = [k \in TextKeys |-> NoText], !.ok = FALSE])
    /\ UNCHANGED <<tab, stores>>

\* The discovery button hands in the settings it shows and gets them back.
Discover ==
    /\ tab = "upload" /\ UNCHANGED view
    /\ \E c \in PanelSlots :
          /\ AtCall(c, "idle") /\ \A d \in PanelSlots : d < c => ~AtCall(d, "idle")
          /\ Becomes(c, [NoCommand EXCEPT !.op = "discover", !.pc = "fetch", !.loaded = view.texts])
    /\ UNCHANGED <<tab, stores, queue, panelFaults>>

\* resolve_upload_endpoint: a document that delegates to another origin is
\* followed, at most MaxHops times.
FetchDelegates(c) ==
    /\ AtCall(c, "fetch") /\ commands[c].hops < MaxHops - 1
    /\ commands' = [commands EXCEPT ![c].hops = @ + 1]
    /\ UNCHANGED <<tab, stores, view, queue, panelFaults>>

FetchEnds(c) ==
    /\ AtCall(c, "fetch")
    /\ view' = [view EXCEPT !.texts = commands[c].loaded]
    /\ Becomes(c, [NoCommand EXCEPT !.op = "discover", !.pc = "done"])
    /\ UNCHANGED <<tab, stores, queue, panelFaults>>

-----------------------------------------------------------------------------
(* Tweet *)

\* Mounting the tab loads its draft.
Mount == /\ tab = "tweet" /\ \A c \in PanelSlots : AtCall(c, "idle")
         /\ OnTab("load", "draft", "none", NoText, "get") /\ UNCHANGED view

\* update_and_save: the signal changes at once and is saved.
Type == /\ tab = "tweet" /\ \E c \in PanelSlots : ~AtCall(c, "idle")
        /\ \E v \in Texts : /\ view' = [view EXCEPT !.texts["draft"] = v]
                            /\ OnTab("save", "draft", "none", v, "write")

Drafted(v) == [view EXCEPT !.texts["draft"] = v]

\* load_with_main_fallback
GetDraft(c) ==
    LET r == commands[c]
        v == texts[r.key] IN
    /\ Turn(c) /\ AtCall(c, "get")
    /\ \/ /\ CallAnswered
          /\ \/ (v # NoText \/ r.key = "main") /\ ShowAs(c, r.key, [Drafted(v) EXCEPT !.ok = TRUE])
             \/ v = NoText /\ r.key # "main" /\ Post([r EXCEPT !.key = "main"], c) /\ UNCHANGED view
       \/ CallFails /\ Show(c, [Drafted(NoText) EXCEPT !.ok = FALSE])
    /\ UNCHANGED <<tab, stores>>

\* Mutant: the outcome of the write is not looked at.
PutDraftUnchecked(c) ==
    LET r == commands[c] IN
    /\ Turn(c) /\ AtCall(c, "write") /\ tab = "tweet"
    /\ \/ CallAnswered /\ texts' = [texts EXCEPT !["draft"] = r.val]
       \/ CallFails /\ UNCHANGED texts
    /\ Show(c, [Drafted(r.val) EXCEPT !.ok = TRUE])
    /\ UNCHANGED <<tab, sets, selected>>

PutDraft(c) ==
    LET r == commands[c]
        put == texts' = [texts EXCEPT !["draft"] = r.val] IN
    /\ Turn(c) /\ AtCall(c, "write") /\ tab = "tweet"
    /\ \/ CallAnswered /\ put /\ Show(c, [Drafted(r.val) EXCEPT !.ok = TRUE])
       \/ CallFails /\ (put \/ UNCHANGED texts) /\ Show(c, [Drafted(r.val) EXCEPT !.ok = FALSE])
    /\ UNCHANGED <<tab, sets, selected>>

-----------------------------------------------------------------------------
PanelUser == RelayCommand \/ SettingsCommand \/ Discover \/ Mount \/ Type

Serve(c) == \/ ReadSets(c) \/ SeedRow(c) \/ SaveRow(c)
            \/ WriteSetting(c) \/ ListSettings(c) \/ GetDraft(c) \/ PutDraft(c)

PanelNext == PanelUser \/ \E c \in PanelSlots : Serve(c) \/ FetchDelegates(c) \/ FetchEnds(c)

PanelSpec == PanelInit /\ [][PanelNext]_panelVars

-----------------------------------------------------------------------------
PanelTypes ==
    /\ DOMAIN sets \subseteq SetIds
    /\ \A s \in DOMAIN sets : sets[s] \in [Urls -> {"none", "on", "off"}]
    /\ selected \in SetIds \cup {"none", "a-removed-set"}
    /\ texts \in [TextKeys -> Texts \cup {NoText}]
    /\ queue \in Seq(PanelSlots) /\ panelFaults \in 0..MaxPanelFaults
    /\ \A c \in PanelSlots : (c \in ToSet(queue)) = (c \in AtWork /\ ~AtCall(c, "fetch"))

\* When no command runs and the last answer was not an error, the tab shows
\* what is stored, however the commands overlapped and whichever calls
\* failed or took effect without an answer.  Excepted are the discovery test,
\* which hands back settings as old as itself, and a Tweet tab that had no
\* draft: its second read may land on what was typed and saved meanwhile.
QuietShowsStored ==
    (AtWork = {} /\ view.ok) =>
        CASE tab = "relays" -> view.sets = sets /\ view.selected = selected
          [] tab = "tweet"  -> \/ view.texts["draft"] = texts["draft"]
                               \/ \E c \in PanelSlots : commands[c].op = "main"
          [] OTHER -> view.texts = texts \/ \E c \in PanelSlots : commands[c].op = "discover"
=============================================================================
