-------------------------- MODULE WorkspaceSession --------------------------
(***************************************************************************)
(* The workspace of a page: how it starts from the stored row              *)
(* (lkjstr-app, workspace_runtime.rs), what the buttons of the page do to  *)
(* it (lkjstr-ui, workspace/), and how every change is saved in the        *)
(* background, its outcome ignored (lkjstr-web, host_providers.rs), while  *)
(* the storage may fail any of them and the page may be reloaded at any    *)
(* time.  The close, split and move reducers have no caller yet: they are  *)
(* taken as commands that save like the others.                            *)
(***************************************************************************)
EXTENDS TabWorkspace

CONSTANTS Options,      \* the kinds the New Tab grid offers
          Keys,         \* configured tabs' public keys and event ids
          PaneNames,    \* the ids a caller gives new panes, groups and splits
          WarmCap,      \* warm_snapshot_cap
          MaxCommands,  \* bound on commands over all pages
          MaxSaves,     \* bound on the saves under way
          MaxPages      \* bound on page loads

VARIABLES ws,         \* WorkspaceRuntimeState.workspace
          snapshots,  \* the tabs that have a row in tab_snapshots
          warm,       \* warm_tab_order, least recent first
          origin,     \* StartupSource of the page
          sequence,   \* the page's counter of tab ids
          spaceRow,   \* the row of the workspaces table
          tabRows,    \* the tabs that have a row in tab_states
          saves,      \* the saves under way, in the order they were spawned
          commands, loads

spaceVars == <<ws, snapshots, warm, origin, sequence, spaceRow, tabRows, saves, commands, loads>>

NoRow == [row |-> "none"]
WorkspaceSave(w) == [row |-> "workspace", value |-> w]
SnapshotSave(t) == [row |-> "tab state", value |-> t]

\* --- startup ------------------------------------------------------------

\* The workspace of a page and where it came from: without storage a fallback,
\* without a row the bootstrap, otherwise the row, repaired where it must be.
StartWorkspace(available) ==
  CASE ~available -> [ws |-> EnsureUsable(EmptyWorkspace), origin |-> "StorageUnavailable"]
    [] available /\ spaceRow = NoRow -> [ws |-> BootstrapWorkspace, origin |-> "Bootstrap"]
    [] OTHER -> [ws |-> EnsureUsable(spaceRow.value),
                 origin |-> IF EnsureUsable(spaceRow.value) = spaceRow.value
                            THEN "Stored" ELSE "Recovered"]

\* Every row was saved with the same time, so which of too many are kept is a
\* matter of their ids: it is left open.
WarmOrders(rows) ==
  {order \in UNION {[1..n -> rows] : n \in 0..WarmCap} :
     /\ IsInjective(order)
     /\ Len(order) = (IF Cardinality(rows) < WarmCap THEN Cardinality(rows) ELSE WarmCap)}

\* A page load: the reads of the workspace and of the tab states may each fail.
StartSpace(available, readStates) ==
  LET start == StartWorkspace(available)
      rows == IF available /\ readStates /\ spaceRow # NoRow
              THEN tabRows \cap DOMAIN start.ws.tabs ELSE {}
  IN \E order \in WarmOrders(rows) :
       /\ ws' = start.ws
       /\ origin' = start.origin
       /\ warm' = order
       /\ snapshots' = ToSet(order)
       /\ sequence' = 0
       /\ loads' = loads + 1

SpaceInit ==
  /\ ws = EmptyWorkspace /\ snapshots = {} /\ warm = <<>>
  /\ origin = "none" /\ sequence = 0
  /\ spaceRow = NoRow /\ tabRows = {}
  /\ saves = <<>> /\ commands = 0 /\ loads = 0

\* The saves of the page that is left never happen.
Load ==
  /\ loads < MaxPages
  /\ \E available, readStates \in BOOLEAN : StartSpace(available, readStates)
  /\ saves' = <<>>
  /\ UNCHANGED <<spaceRow, tabRows, commands>>

\* --- saves --------------------------------------------------------------

Save(row) == saves' = Append(saves, row)

PutWorkspace(row) ==
  row.row = "workspace" /\ spaceRow' = row /\ UNCHANGED tabRows
PutTabState(row) ==
  row.row = "tab state" /\ tabRows' = tabRows \cup {row.value} /\ UNCHANGED spaceRow

\* The oldest save ends.  It is stored, or a failed open, a timeout or the
\* worker lost it; nobody hears of either.
SaveEnds ==
  /\ saves # <<>>
  /\ saves' = Tail(saves)
  /\ \/ UNCHANGED <<spaceRow, tabRows>>
     \/ PutWorkspace(Head(saves))
     \/ PutTabState(Head(saves))
  /\ UNCHANGED <<ws, snapshots, warm, origin, sequence, commands, loads>>

\* --- commands -----------------------------------------------------------

Command ==
  /\ loads > 0 /\ commands < MaxCommands /\ Len(saves) < MaxSaves
  /\ commands' = commands + 1

\* A command of the runtime, and the save of the whole workspace after it.
Run(next) ==
  /\ ws' = next
  /\ Save(WorkspaceSave(next))
  /\ UNCHANGED <<origin, spaceRow, tabRows, loads>>

Quiet == UNCHANGED <<snapshots, warm>>

\* next_ids: the kind and a counter that starts again on every page load.
NextId(kind) == <<kind, sequence + 1>>

Open(p, kind, key) ==
  /\ Run(OpenTab(ws, p, NextId(kind), Tab(kind, key)))
  /\ sequence' = sequence + 1
  /\ Quiet

\* The header's plus button opens in the focused pane.
OpenNewTab == Open(NoPane, "new-tab", NoKey)

\* A choice of the New Tab grid converts the tab that shows the grid.
ConvertOption(p, t, kind) ==
  /\ Holds(ws, p, t) /\ ws.tabs[t].kind = "new-tab"
  /\ Run(ConvertTab(ws, p, t, Tab(kind, NoKey)))
  /\ Quiet /\ UNCHANGED sequence

FocusButton(p, t) ==
  /\ Holds(ws, p, t)
  /\ Run(FocusTab(ws, p, t))
  /\ Quiet /\ UNCHANGED sequence

\* A tab of the pane that shows the same already is focused, otherwise one is
\* opened.
OpenOrFocus(p, kind, key) ==
  LET matching == Filtered(PaneTabs(ws, p), {t \in DOMAIN ws.tabs : ws.tabs[t] = Tab(kind, key)})
  IN IF matching # <<>> THEN FocusButton(p, matching[1]) ELSE Open(p, kind, key)

\* The profile, event and author buttons of a row or a header.
OpenPubkeyTab(p, key) == OpenOrFocus(p, "profile", key)
OpenEventTab(p, key) == OpenOrFocus(p, "thread", key)
OpenAuthorContext(p, key) == OpenOrFocus(p, "author-context", key)

\* A continuation within a thread opens another tab every time.
OpenThread(p, key) == Open(p, "thread", key)

\* A tab's snapshot makes it the most recent, and the oldest beyond the cap
\* lose theirs.
RecordTabSnapshot(t) ==
  LET order == Append(Filtered(warm, ToSet(warm) \ {t}), t)
      kept == IF Len(order) > WarmCap THEN Tail(order) ELSE order
  IN /\ warm' = kept
     /\ snapshots' = (snapshots \cup {t}) \ (ToSet(order) \ ToSet(kept))

\* The row is saved from the map, after the oldest left it.
SaveSnapshot(kind) ==
  \E t \in DOMAIN ws.tabs :
    /\ ws.tabs[t].kind = kind
    /\ RecordTabSnapshot(t)
    /\ Save(SnapshotSave(t))
    /\ UNCHANGED <<ws, origin, sequence, spaceRow, tabRows, loads>>

SaveQuery == SaveSnapshot("search")
SaveRequest == SaveSnapshot("custom-request")

\* --- reducers no page calls yet -----------------------------------------

CloseRuntimeTab(p, t) ==
  /\ Holds(ws, p, t)
  /\ Run(CloseTab(ws, p, t))
  /\ snapshots' = snapshots \ {t}
  /\ warm' = Filtered(warm, ToSet(warm) \ {t})
  /\ UNCHANGED sequence

FreshPanes == PaneNames \ (PaneIds(ws.layout) \cup SplitIds(ws.layout) \cup DOMAIN ws.groups)

SplitPaneMenu(dir, p) ==
  /\ Run(SplitFocusedPane(ws, dir, p, NextId("new-tab")))
  /\ sequence' = sequence + 1
  /\ Quiet

DropTab(from, to, t, index) ==
  /\ Run(MoveTab(ws, from, to, t, index))
  /\ Quiet /\ UNCHANGED sequence

DropTabOnEdge(from, to, t, edge, p) ==
  /\ Run(MoveTabToEdge(ws, from, to, t, edge, p))
  /\ Quiet /\ UNCHANGED sequence

Use ==
  \/ OpenNewTab
  \/ \E p \in PaneIds(ws.layout) : \E t \in ToSet(PaneTabs(ws, p)) :
       \/ \E kind \in Options : ConvertOption(p, t, kind)
       \/ FocusButton(p, t)
  \/ \E p \in PaneIds(ws.layout), key \in Keys :
       \/ OpenPubkeyTab(p, key) \/ OpenEventTab(p, key)
       \/ OpenAuthorContext(p, key) \/ OpenThread(p, key)
  \/ SaveQuery \/ SaveRequest

Arrange ==
  \/ \E dir \in Directions, p \in FreshPanes : SplitPaneMenu(dir, p)
  \/ \E from, to \in PaneIds(ws.layout) : \E t \in ToSet(PaneTabs(ws, from)) :
       \/ \E index \in 0..1 : DropTab(from, to, t, index)
       \/ \E edge \in Edges, p \in FreshPanes : DropTabOnEdge(from, to, t, edge, p)

Close == \E p \in PaneIds(ws.layout) : \E t \in ToSet(PaneTabs(ws, p)) : CloseRuntimeTab(p, t)

SpaceNext ==
  \/ Load \/ SaveEnds
  \/ Command /\ (Use \/ Arrange \/ Close)

SpaceSpec == SpaceInit /\ [][SpaceNext]_spaceVars

\* --- properties ---------------------------------------------------------

\* What is saved comes back as it was: a start never has to repair the row that
\* an earlier page stored, whenever that page was left.
\* Code: start_workspace, ensure_usable_workspace.
StoredNeedsNoRepair ==
  origin # "Recovered" /\ (spaceRow # NoRow => EnsureUsable(spaceRow.value) = spaceRow.value)

\* Opening, converting, focusing and arranging take no tab away, and no pane
\* disappears before its last tab left it: within a page, that is a close.
\* Code: commands.rs, move_tab.rs.
OnlyClosingLosesTabs ==
  [][/\ loads' = loads /\ ws' # ws
     /\ \/ ~(DOMAIN ws.tabs \subseteq DOMAIN ws'.tabs)
        \/ \E p \in PaneIds(ws.layout) \ PaneIds(ws'.layout) : Len(PaneTabs(ws, p)) > 1
     => Close]_spaceVars

\* A page that could not read the storage works in memory only: the workspace
\* an earlier page stored, not a fallback like its own, is still there for the
\* next one.
\* Code: state.rs, persist; docs/operations/data-safety.md.
FallbackKeepsStoredRow ==
  [][/\ origin = "StorageUnavailable"
     /\ spaceRow # NoRow
     /\ DOMAIN RecoveredWorkspace.tabs \cap DOMAIN spaceRow.value.tabs = {}
     => UNCHANGED spaceRow]_spaceVars
=============================================================================
