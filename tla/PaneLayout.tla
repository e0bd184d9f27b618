----------------------------- MODULE PaneLayout -----------------------------
(***************************************************************************)
(* The layout tree of a workspace (lkjstr-domain, workspace/layout.rs and  *)
(* layout_insert.rs).  A leaf is a pane, which shows one tab group; an     *)
(* inner node is a split with a direction.  The tree is kept flat, as the  *)
(* sequence of its panes in the order of pane_ids, each with the splits    *)
(* around it, the outermost first: the children of a split are the panes   *)
(* and the splits right below it.  Ratios and minimum sizes are left out:  *)
(* nothing reads them back.                                                *)
(***************************************************************************)
EXTENDS SequencesExt, FiniteSets, Integers

Directions == {"horizontal", "vertical"}
Edges == {"left", "right", "top", "bottom"}

NoLayout == <<>>
Pane(p, g, splits) == [id |-> p, group |-> g, splits |-> splits]
Split(s, dir) == [id |-> s, dir |-> dir]

\* The entries of a sequence that are in a set, in their order.
Filtered(entries, kept) ==
  LET first[n \in 0..Len(entries)] ==
        IF n = 0 THEN <<>>
        ELSE IF entries[n] \in kept THEN Append(first[n - 1], entries[n]) ELSE first[n - 1]
  IN first[Len(entries)]

PaneIds(layout) == {layout[i].id : i \in DOMAIN layout}
PlaceOf(layout, p) == CHOOSE i \in DOMAIN layout : layout[i].id = p
FindPane(layout, p) == layout[PlaceOf(layout, p)]
FirstPane(layout) == layout[1].id
SplitIds(layout) == UNION {{split.id : split \in ToSet(layout[i].splits)} : i \in DOMAIN layout}

\* The pane is wrapped with the new one, whatever split it already belongs to.
SplitLeaf(layout, p, split, before, new, g) ==
  LET i == PlaceOf(layout, p)
      around == Append(layout[i].splits, split)
  IN InsertAt([layout EXCEPT ![i].splits = around],
              IF before THEN i ELSE i + 1, Pane(new, g, around))

\* The tile menu's split.
SplitPane(layout, p, split, new, g) ==
  IF p \in PaneIds(layout) THEN SplitLeaf(layout, p, split, FALSE, new, g) ELSE layout

Parent(pane) == IF pane.splits = <<>> THEN {} ELSE {Last(pane.splits)}

\* The splits with more than one child: a pane, or another split.
Branching(layout) ==
  LET panes == ToSet(layout)
      splits == UNION {ToSet(pane.splits) : pane \in panes}
      leaves(s) == {pane \in panes : s \in Parent(pane)}
      nested(s) == {t \in splits : \E pane \in panes : \E k \in 2..Len(pane.splits) :
                      pane.splits[k - 1] = s /\ pane.splits[k] = t}
  IN {s \in splits : Cardinality(leaves(s)) + Cardinality(nested(s)) > 1}

\* A split that keeps one child becomes that child, one that keeps none goes.
Compact(layout) ==
  LET branching == Branching(layout)
  IN [i \in DOMAIN layout |-> [layout[i] EXCEPT !.splits = Filtered(@, branching)]]

RemovePane(layout, p) == Compact(Filtered(layout, {pane \in ToSet(layout) : pane.id # p}))

EdgeDirection(edge) == IF edge \in {"left", "right"} THEN "horizontal" ELSE "vertical"
BeforeEdge(edge) == edge \in {"left", "top"}

\* A drop on a pane's edge: a sibling where the pane's split has the direction
\* of the edge, otherwise a split of the pane alone.
InsertPane(layout, p, split, before, new, g) ==
  LET i == PlaceOf(layout, p)
      direct == \E parent \in Parent(layout[i]) : parent.dir = split.dir
  IN CASE p \notin PaneIds(layout) -> layout
       [] p \in PaneIds(layout) /\ direct ->
            InsertAt(layout, IF before THEN i ELSE i + 1, Pane(new, g, layout[i].splits))
       [] OTHER -> SplitLeaf(layout, p, split, before, new, g)
=============================================================================
