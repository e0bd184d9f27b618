---------------------------- MODULE ResizeAnchor ----------------------------
(***************************************************************************)
(* The scroll position of the home feed while its rows grow, shrink and    *)
(* are replaced (crate lkjstr-ui, workspace/feed_resize_anchor and         *)
(* feed_scroll_anchor).  The browser is external: it lays rows out, calls  *)
(* the resize observers of a frame after its scroll event, and lets the    *)
(* user scroll between frames.  Lengths are in units larger than the two   *)
(* pixels within which a row counts as scrolled away.                      *)
(***************************************************************************)
EXTENDS Integers, FiniteSetsExt, SequencesExt

CONSTANTS
    FirstRows,     \* the rows shown first, in order
    NewRow,        \* a row that a later model puts before them
    MaxHeight,     \* bound: heights are 1 .. MaxHeight
    Viewport,      \* height of the scroll owner
    MaxScrolls, MaxLayouts   \* bounds

\* Rows have ids of their own.
ASSUME AnchorAssumption ==
    /\ FirstRows \in Seq(ToSet(FirstRows)) /\ NewRow \notin ToSet(FirstRows)
    /\ \A i, j \in DOMAIN FirstRows : FirstRows[i] = FirstRows[j] => i = j
    /\ MaxHeight \in Nat /\ Viewport \in Nat \ {0}

VARIABLES
    rows,          \* the rendered rows, in order
    height,        \* their layout heights
    known,         \* the height each observer saw last; 0 before it is ready
    top,           \* scrollTop
    event,         \* a scroll event is to be dispatched
    supp,          \* suppressed_scroll_top, or -1
    cur, prv,      \* the anchors of the batch, or <<>>
    later,         \* set_timeout(0) callbacks, in order
    reading,       \* ghost: row and offset the user scrolled to, or <<>>
    calm,          \* ghost: so far one change at a time: rows only grew, no
                   \* scroll or model came before the last change was settled
    down,          \* ghost: so far the user only scrolled down
    missed,        \* ghost: since the user scrolled last, a row grew so that it
                   \* ends just at scrollTop, which the code does not make up for
    scrolls, layouts

anchorVars == <<rows, height, known, top, event, supp, cur, prv, later, reading,
                calm, down, missed, scrolls, layouts>>

TopOf(rs, hs, i) == SumFunctionOnSet([j \in DOMAIN rs |-> hs[rs[j]]], 1 .. i - 1)
IndexOf(rs, r) == CHOOSE i \in DOMAIN rs : rs[i] = r
RowTop(rs, hs, r) == TopOf(rs, hs, IndexOf(rs, r))
MaxTop(rs, hs) == Max({TopOf(rs, hs, Len(rs) + 1) - Viewport, 0})
Scrolled(rs, hs, t) == Min({Max({t, 0}), MaxTop(rs, hs)})

\* The first row that ends below the top of the viewport.
FirstVisible(rs, hs, t) ==
    CHOOSE i \in DOMAIN rs :
        /\ TopOf(rs, hs, i) + hs[rs[i]] > t
        /\ \A j \in 1 .. i - 1 : TopOf(rs, hs, j) + hs[rs[j]] <= t

CaptureViewportAnchor(rs, hs, t) ==
    IF t = 0 THEN <<>>
    ELSE LET i == FirstVisible(rs, hs, t)
         IN <<[row |-> rs[i], offset |-> t - TopOf(rs, hs, i), at |-> t]>>

CaptureAnchor(rs, hs, t) == CaptureViewportAnchor(rs, hs, t)

AnchorTop(rs, hs, a) == Scrolled(rs, hs, RowTop(rs, hs, a.row) + a.offset)

-----------------------------------------------------------------------------
(* The callback of a resize observer, as a function of the part of the     *)
(* state it changes: s has top, event, supp and later.                      *)

Kept(r) == {a \in ToSet(cur) \cup ToSet(prv) : a.row # r}

ScrollTopExcept(s, r) ==
    IF s.supp # -1 THEN s.supp
    ELSE IF Kept(r) = {} THEN s.top ELSE Max({a.at : a \in Kept(r)})

SetTop(s, t) == [s EXCEPT !.top = t, !.event = @ \/ t # s.top]
Suppressed(s, t) == [SetTop(s, t) EXCEPT !.supp = t]

\* The anchor restore_anchor_except uses: one it stored, or the viewport's.
Restorable(s, hs, r) ==
    LET Usable(a) == a # <<>> /\ a[1].row # r /\ a[1].row \in ToSet(rows)
        seen      == CaptureViewportAnchor(rows, hs, s.top)
    IN  CASE Usable(cur)                  -> cur
          [] ~Usable(cur) /\ Usable(prv) -> prv
          [] OTHER -> IF seen # <<>> /\ seen[1].row # r THEN seen ELSE <<>>

SetLater(s, t) ==
    [s EXCEPT !.supp = Max({t, 0}), !.later = Append(@, <<"top", Max({t, 0})>>)]

\* A callback that moves the view by the growth of a visible row too.
ResizeCallbackAnyRow(s, hs, r) ==
    LET delta == hs[r] - known[r]
    IN IF delta = 0 THEN s ELSE Suppressed(s, Scrolled(rows, hs, s.top + delta))
ResizeCallback(s, hs, r) ==
    LET delta == hs[r] - known[r]
        comparison == ScrollTopExcept(s, r)
        before == RowTop(rows, hs, r) + known[r]
        after == RowTop(rows, hs, r) + hs[r]
        compensation == IF delta < 0 /\ after <= comparison
                        THEN Max({comparison, before}) ELSE comparison
    IN IF \/ delta = 0 \/ comparison = 0
          \/ delta > 0 /\ after = comparison
          \/ before > compensation
       THEN s
       ELSE IF delta > 0 /\ Restorable(s, hs, r) # <<>>
       THEN Suppressed(s, AnchorTop(rows, hs, Restorable(s, hs, r)[1]))
       ELSE IF delta > 0 /\ before < comparison /\ comparison < after
       THEN SetLater(s, after)
       ELSE SetLater(s, compensation + delta)

\* The first callback of an observer only makes it ready.
Observed(s, hs, r) == IF known[r] = 0 THEN s ELSE ResizeCallback(s, hs, r)

\* The observers of a frame are called in the order of their rows.
Batch(start, hs) == FoldLeft(LAMBDA s, r : Observed(s, hs, r), start, rows)

-----------------------------------------------------------------------------

Shown == ToSet(rows)

AnchorInit ==
    /\ rows = FirstRows
    /\ height = [r \in ToSet(FirstRows) \union {NewRow} |-> 1]
    /\ known = [r \in ToSet(FirstRows) \union {NewRow} |-> 0]
    /\ top = 0 /\ event = FALSE /\ supp = -1
    /\ cur = <<>> /\ prv = <<>> /\ later = <<>>
    /\ reading = <<>> /\ calm = TRUE /\ down = TRUE /\ missed = FALSE
    /\ scrolls = 0 /\ layouts = 0

AtRest == ~event /\ later = <<>>

UserScrolls ==
    /\ scrolls < MaxScrolls
    /\ \A r \in Shown : known[r] # 0
    /\ \E t \in 0 .. MaxTop(rows, height) :
          /\ t # top
          /\ top' = t
          /\ reading' = CaptureViewportAnchor(rows, height, t)
          /\ calm' = (calm /\ AtRest /\ supp = -1)
          /\ down' = (down /\ t > top)
    /\ missed' = FALSE
    /\ event' = TRUE
    /\ scrolls' = scrolls + 1
    /\ UNCHANGED <<rows, height, known, supp, cur, prv, later, layouts>>

\* note_scroll_top
NoteScrollTop ==
    LET next == CaptureViewportAnchor(rows, height, top)
        RowOf(a) == IF a = <<>> THEN "none" ELSE a[1].row
    IN /\ prv' = IF RowOf(cur) # RowOf(next) THEN cur ELSE prv
       /\ cur' = next

\* record_scroll_top
ScrollEvent ==
    /\ event
    /\ event' = FALSE
    /\ IF supp # -1 /\ top # supp
       THEN UNCHANGED <<supp, cur, prv>>
       ELSE supp' = -1 /\ NoteScrollTop
    /\ UNCHANGED <<rows, height, known, top, later, reading, calm, down, missed, scrolls,
                   layouts>>

\* A frame lays out rows whose content changed and calls their observers.
Layout ==
    /\ ~event
    /\ layouts < MaxLayouts
    /\ \E changed \in SUBSET {r \in Shown : known[r] # 0} : \E hs \in [changed -> 1 .. MaxHeight] :
          LET all == [r \in DOMAIN height |-> IF r \in changed THEN hs[r] ELSE height[r]]
              clamped == Scrolled(rows, all, top)
              start == [top |-> clamped, event |-> clamped # top, supp |-> supp,
                        later |-> later]
              s == Batch(start, all)
          IN /\ Cardinality(changed) <= 2
             /\ \A r \in changed : hs[r] # height[r]
             /\ changed # {} \/ \E r \in Shown : known[r] = 0
             /\ height' = all
             /\ known' = [r \in DOMAIN known |-> IF r \in Shown THEN all[r] ELSE 0]
             /\ top' = s.top /\ event' = s.event /\ supp' = s.supp
             /\ later' = s.later
             /\ calm' = (calm /\ later = <<>> /\ \A r \in changed : hs[r] > height[r])
             /\ missed' = (missed \/ \E r \in changed : RowTop(rows, all, r) + hs[r] = top)
    /\ layouts' = layouts + 1
    /\ UNCHANGED <<rows, cur, prv, reading, down, scrolls>>

\* set_preserving_anchor: the list is rendered anew, with new observers.
NewModel ==
    /\ NewRow \notin Shown
    /\ rows' = <<NewRow>> \o rows
    /\ known' = [r \in DOMAIN known |-> 0]
    /\ LET anchor == CaptureAnchor(rows, height, top)
       IN later' = IF anchor = <<>> THEN later
                    ELSE Append(later, <<"restore", anchor[1]>>)
    /\ calm' = (calm /\ AtRest)
    /\ UNCHANGED <<height, top, event, supp, cur, prv, reading, down, missed, scrolls,
                   layouts>>

\* set_scroll_top_after_resize and restore_after_render, when their time comes.
LaterFires ==
    /\ later # <<>>
    /\ LET timer == Head(later)
           s == [top |-> top, event |-> event, supp |-> supp]
           t == IF timer[1] = "top" THEN Scrolled(rows, height, timer[2])
                ELSE AnchorTop(rows, height, timer[2])
           next == IF timer[1] = "top" THEN Suppressed(s, t) ELSE SetTop(s, t)
       IN top' = next.top /\ event' = next.event /\ supp' = next.supp
    /\ later' = Tail(later)
    /\ UNCHANGED <<rows, height, known, cur, prv, reading, calm, down, missed, scrolls, layouts>>

AnchorNext == UserScrolls \/ ScrollEvent \/ Layout \/ NewModel \/ LaterFires

AnchorSpec == AnchorInit /\ [][AnchorNext]_anchorVars

-----------------------------------------------------------------------------

AtReading ==
    AtRest /\ reading # <<>> => top = AnchorTop(rows, height, reading[1])

\* A reader who only scrolls down keeps the line that was at the top while the
\* rows above, at and below it grow one after the other and a newer row is put
\* first, whatever the observers restore and the later set (feed_resize_anchor.rs,
\* feed_resize_anchor_batch.rs, feed_scroll_anchor.rs).  It is not about rows that
\* shrink, a change or a scroll before the last one is settled, a scroll up, nor,
\* until the next scroll, about growth of a row that makes it end just at
\* scrollTop: there feed_resize_anchor.rs:114 returns and the line is lost.
GrowthKeepsReading == calm /\ down /\ ~missed => AtReading
=============================================================================
