---------------------------- MODULE TabWorkspace ----------------------------
(***************************************************************************)
(* The workspace record and its reducers (lkjstr-domain, workspace/): a    *)
(* layout of panes, the tab group each pane shows, the tabs, and the       *)
(* focused pane and tab.  A tab is its kind and the key of its             *)
(* configuration (a public key, an event id).  Titles, timestamps, pinned  *)
(* tabs and the list of closed tabs are left out: no reducer reads them.   *)
(***************************************************************************)
EXTENDS PaneLayout

CONSTANT Startup    \* the kinds of the startup tabs of the main pane, in order

ASSUME StartupAssumption ==
  Startup \in Seq(ToSet(Startup)) /\ Startup # <<>> /\ IsInjective(Startup)

NoPane == "no pane"
NoTab == <<"no tab", 0>>
NoKey == "no key"

Put(map, key, value) == [k \in DOMAIN map \cup {key} |-> IF k = key THEN value ELSE map[k]]

\* --- groups -------------------------------------------------------------

NewGroup(t) == [ids |-> <<t>>, active |-> t]
Has(group, t) == t \in ToSet(group.ids)
Activate(group, t) == IF Has(group, t) THEN [group EXCEPT !.active = t] ELSE group
AddTab(group, t) ==
  IF Has(group, t) THEN Activate(group, t)
                   ELSE [ids |-> Append(group.ids, t), active |-> t]

LastOf(ids) == IF ids = <<>> THEN NoTab ELSE Last(ids)

\* A tab that leaves its group hands the activity to the last one.
Without(group, t) ==
  LET ids == Filtered(group.ids, ToSet(group.ids) \ {t})
  IN [ids |-> ids, active |-> IF group.active = t THEN LastOf(ids) ELSE group.active]

InsertMoved(group, t, index) ==
  LET ids == Filtered(group.ids, ToSet(group.ids) \ {t})
      at == IF index < Len(ids) THEN index ELSE Len(ids)
  IN [ids |-> InsertAt(ids, at + 1, t), active |-> t]

\* --- workspaces ---------------------------------------------------------

Tab(kind, key) == [kind |-> kind, key |-> key]
GroupOf(ws, p) == FindPane(ws.layout, p).group
HasGroup(ws, p) == p \in PaneIds(ws.layout) /\ GroupOf(ws, p) \in DOMAIN ws.groups
PaneTabs(ws, p) == ws.groups[GroupOf(ws, p)].ids

EmptyWorkspace ==
  [layout |-> NoLayout, groups |-> <<>>, tabs |-> <<>>, pane |-> NoPane, tab |-> NoTab]

\* One Welcome tab in one pane, with the fixed ids of a recovery.
RecoveredWorkspace ==
  [layout |-> <<Pane("recovered", "recovered", <<>>)>>,
   groups |-> Put(<<>>, "recovered", NewGroup(<<"recovered", "welcome">>)),
   tabs |-> Put(<<>>, <<"recovered", "welcome">>, Tab("welcome", NoKey)),
   pane |-> "recovered", tab |-> <<"recovered", "welcome">>]

BootstrapWorkspace ==
  LET ids == [i \in DOMAIN Startup |-> <<"bootstrap", Startup[i]>>]
      welcome == <<"bootstrap", "welcome">>
      root == <<Split("root", "vertical")>>
  IN [layout |-> <<Pane("welcome", "welcome", root), Pane("main", "main", root)>>,
      groups |-> Put(Put(<<>>, "welcome", NewGroup(welcome)), "main", [ids |-> ids, active |-> ids[1]]),
      tabs |-> [id \in ToSet(ids) \cup {welcome} |-> Tab(id[2], NoKey)],
      pane |-> "welcome", tab |-> welcome]

\* --- recovery -----------------------------------------------------------

\* The ids of a pane's group that name a tab.
LiveIds(ws, p) == Filtered(PaneTabs(ws, p), DOMAIN ws.tabs)

Usable(ws) ==
  /\ ws.layout # NoLayout
  /\ \A p \in PaneIds(ws.layout) : HasGroup(ws, p) /\ LiveIds(ws, p) # <<>>

\* Records no pane shows are dropped, and a group whose active tab is gone
\* shows its first.
Normalized(ws) ==
  LET panes == PaneIds(ws.layout)
      shown == {GroupOf(ws, p) : p \in panes}
      live(g) == Filtered(ws.groups[g].ids, DOMAIN ws.tabs)
      pane == IF ws.pane \in panes THEN ws.pane ELSE FirstPane(ws.layout)
      groups == [g \in shown |->
                   [ids |-> live(g),
                    active |-> IF ws.groups[g].active \in ToSet(live(g))
                               THEN ws.groups[g].active ELSE live(g)[1]]]
  IN [ws EXCEPT !.tabs = Restrict(@, UNION {ToSet(live(g)) : g \in shown}),
                !.groups = groups,
                !.pane = pane,
                !.tab = IF @ \in DOMAIN ws.tabs THEN @ ELSE groups[GroupOf(ws, pane)].active]

\* One pane without a usable group costs the whole workspace.
EnsureUsable(ws) == IF Usable(ws) THEN Normalized(ws) ELSE RecoveredWorkspace

\* --- commands -----------------------------------------------------------

\* The pane an open aims at: the one asked for, else the focused one, else the first.
TargetPane(ws, p) ==
  CASE p # NoPane -> p
    [] p = NoPane /\ ws.pane # NoPane -> ws.pane
    [] OTHER -> FirstPane(ws.layout)

GroupFor(ws, g) ==
  IF g \in DOMAIN ws.groups THEN ws.groups[g] ELSE [ids |-> <<>>, active |-> NoTab]

\* The id of the new tab is not compared with those the workspace holds.
OpenTab(ws, p, t, tab) ==
  LET target == TargetPane(ws, p)
      g == GroupOf(ws, target)
  IN IF ws.layout = NoLayout \/ target \notin PaneIds(ws.layout) THEN ws
     ELSE [ws EXCEPT !.groups = Put(@, g, AddTab(GroupFor(ws, g), t)),
                     !.tabs = Put(@, t, tab), !.pane = target, !.tab = t]

Holds(ws, p, t) == HasGroup(ws, p) /\ Has(ws.groups[GroupOf(ws, p)], t)

FocusTab(ws, p, t) ==
  IF ~Holds(ws, p, t) THEN ws
  ELSE [ws EXCEPT !.groups[GroupOf(ws, p)] = Activate(@, t), !.pane = p, !.tab = t]

\* A conversion keeps the id, so the tab keeps its place and its snapshot.
ConvertTab(ws, p, t, tab) ==
  IF Holds(ws, p, t) /\ t \in DOMAIN ws.tabs
  THEN [FocusTab(ws, p, t) EXCEPT !.tabs[t] = tab] ELSE ws

SplitFocusedPane(ws, dir, p, t) ==
  IF ws.layout = NoLayout \/ ws.pane = NoPane THEN ws
  ELSE [ws EXCEPT !.layout = SplitPane(@, ws.pane, Split(p, dir), p, p),
                  !.groups = Put(@, p, NewGroup(t)),
                  !.tabs = Put(@, t, Tab("new-tab", NoKey)), !.pane = p, !.tab = t]

(* Mutant: an emptied pane keeps its place and its group. *)
WithoutPaneLeft(ws, p) == [ws EXCEPT !.groups[GroupOf(ws, p)].ids = <<>>]

\* The last tab of a pane takes the pane with it.
WithoutPane(ws, p) ==
  [ws EXCEPT !.groups = Restrict(@, DOMAIN @ \ {GroupOf(ws, p)}),
             !.layout = RemovePane(@, p)]

CloseTab(ws, p, t) ==
  LET g == GroupOf(ws, p)
      next == Without(ws.groups[g], t)
      dropped == [ws EXCEPT !.tabs = Restrict(@, DOMAIN @ \ {t})]
      closed == IF next.ids = <<>>
                THEN [WithoutPane(dropped, p) EXCEPT !.pane = NoPane, !.tab = NoTab]
                ELSE [dropped EXCEPT !.groups[g] = next, !.pane = p, !.tab = next.active]
  IN EnsureUsable(IF HasGroup(ws, p) /\ t \in DOMAIN ws.tabs THEN closed ELSE ws)

\* The source holds the tab, and the two panes do not share a group.
Movable(ws, from, to, t) ==
  /\ Holds(ws, from, t) /\ t \in DOMAIN ws.tabs
  /\ HasGroup(ws, to)
  /\ from = to \/ GroupOf(ws, from) # GroupOf(ws, to)

(* Mutant: the pane goes while one tab is left. *)
LeaveSourceEarly(ws, from, t) ==
  LET next == Without(ws.groups[GroupOf(ws, from)], t)
  IN IF Len(next.ids) > 1 THEN [ws EXCEPT !.groups[GroupOf(ws, from)] = next]
     ELSE WithoutPane(ws, from)

\* What a move leaves of the source: its group without the tab, or no pane.
LeaveSource(ws, from, t) ==
  LET next == Without(ws.groups[GroupOf(ws, from)], t)
  IN IF next.ids # <<>> THEN [ws EXCEPT !.groups[GroupOf(ws, from)] = next]
     ELSE WithoutPane(ws, from)

MoveTab(ws, from, to, t, index) ==
  LET landed == [ws EXCEPT !.groups[GroupOf(ws, to)] = InsertMoved(@, t, index),
                           !.pane = to, !.tab = t]
  IN CASE ~Movable(ws, from, to, t) -> ws
       [] Movable(ws, from, to, t) /\ from = to -> landed
       [] OTHER -> LeaveSource(landed, from, t)

MoveTabToEdge(ws, from, to, t, edge, p) ==
  LET left == LeaveSource(ws, from, t)
      alone == from = to /\ Len(PaneTabs(ws, from)) <= 1
  IN IF ~Movable(ws, from, to, t) \/ alone THEN ws
     ELSE [left EXCEPT !.layout = InsertPane(@, to, Split(p, EdgeDirection(edge)),
                                              BeforeEdge(edge), p, p),
                       !.groups = Put(@, p, NewGroup(t)), !.pane = p, !.tab = t]
=============================================================================
