---------------------------- MODULE FeedCoverage ----------------------------
(***************************************************************************)
(* Which part of a feed the local store is proved to hold, from the        *)
(* coverage rows of the feed (crates/lkjstr-web/src/*_feed_coverage.rs,    *)
(* user_timeline_coverage.rs), and the sparse scan that looks for the      *)
(* first range of a profile whose emptiness is not proved                  *)
(* (profile_feed_sparse.rs, crates/lkjstr-app/src/profile_history.rs).     *)
(*                                                                         *)
(* A coverage row says that a relay was asked for [since, until) of one    *)
(* filter.  `clean` stands for complete_match: the row is complete, not    *)
(* dense, and of the feed, route group and filter at hand; `empty` for     *)
(* event_count = 0.  Each surface has one filter.  The ranges are          *)
(* half-open: docs/architecture/data/feed-coverage.md.                     *)
(***************************************************************************)
EXTENDS Naturals, FiniteSets

CONSTANTS Now,        \* now_sec
          Span,       \* INITIAL_SPAN_SECONDS, the recent range of every feed
          MaxSteps    \* MAX_SPARSE_STEPS

ASSUME SpanAssumption == Now \in Nat \ {0} /\ Span \in Nat \ {0} /\ MaxSteps \in Nat

(* As 2^32 * 30 seconds do: the steps of the scan reach the floor.         *)
ASSUME StepsAssumption == Span * (2^MaxSteps - 1) >= Now

CoverageRows(relays) ==
    [relay : relays, since : 0..Now, until : 0..Now, clean : BOOLEAN,
     empty : BOOLEAN]

Larger(m, n) == IF m >= n THEN m ELSE n

Minus(m, n) == IF m >= n THEN m - n ELSE 0

Recent == [since |-> Minus(Now, Span), until |-> Now]

Interval(since, until) == [since |-> since, until |-> until]

-----------------------------------------------------------------------------
(* The walk over the rows *)

Before(a, b) == a.since < b.since \/ (a.since = b.since /\ a.until < b.until)

Intervals(rows, relay) ==
    {Interval(row.since, row.until) :
        row \in {w \in rows : w.clean /\ w.relay = relay}}

(* The next interval of the sorted ones.                                   *)
First(intervals) ==
    CHOOSE i \in intervals : \A j \in intervals \ {i} : Before(i, j)

(* Mutant: a gap between two rows is stepped over.                         *)
AdvanceOverGaps(walk, until) ==
    LET next == First(walk.left)
    IN  IF walk.left = {} \/ walk.to >= until THEN walk
        ELSE [left |-> walk.left \ {next}, to |-> Larger(walk.to, next.until)]

(* One turn of the loop of coverage_covers, which ends at a gap, where the *)
(* end of the range is reached, and after the last interval.               *)
Advance(walk, until) ==
    LET next == First(walk.left)
    IN  IF walk.left = {} \/ walk.to >= until \/ next.since > walk.to THEN walk
        ELSE [left |-> walk.left \ {next}, to |-> Larger(walk.to, next.until)]

(* The loop, which takes each interval at most once.                       *)
Walked(intervals, range) ==
    LET walk[n \in 0..Cardinality(intervals)] ==
            IF n = 0 THEN [left |-> intervals, to |-> range.since]
            ELSE Advance(walk[n - 1], range.until)
    IN  walk[Cardinality(intervals)]

CoverageCovers(rows, relay, range) ==
    Walked(Intervals(rows, relay), range).to >= range.until

(* Every relay of the plan has its own requirement; no relay, no proof.    *)
RangeComplete(rows, relays, range) ==
    relays # {} /\ \A relay \in relays : CoverageCovers(rows, relay, range)

SourceOf(rows, relays) ==
    IF RangeComplete(rows, relays, Recent) THEN "CacheComplete" ELSE "Partial"

HomeCoverage(rows, selected) == SourceOf(rows, selected)

GlobalCoverage(rows, selected) == SourceOf(rows, selected)

NotificationsCoverage(rows, selected) == SourceOf(rows, selected)

TimelineCoverage(rows, selected, routes) == SourceOf(rows, selected \cup routes)

ProfileCoverage(rows, queried, routes) == SourceOf(rows, queried \cup routes)

-----------------------------------------------------------------------------
(* The sparse scan *)

RangeCompleteEmpty(rows, relays, range) ==
    RangeComplete({row \in rows : row.empty}, relays, range)

(* Where the scan stands after n ranges were proved empty, and the span of *)
(* its next range, which doubles from one range to the next.               *)
Scan[n \in 0..MaxSteps] ==
    IF n = 0 THEN [until |-> Now, span |-> Span]
    ELSE [until |-> Minus(Scan[n - 1].until, Scan[n - 1].span),
          span  |-> 2 * Scan[n - 1].span]

ScanRange(n) == Interval(Minus(Scan[n].until, Scan[n].span), Scan[n].until)

Decision(source, range) == [source |-> source, range |-> range]

(* plan_profile_sparse_scan of a range that is complete and empty.         *)
PlanScan(range, n) ==
    IF range.since = 0 THEN "EmptyProven" ELSE "ContinueOlder"

(* profile_sparse_decision, when the recent window is complete and empty.  *)
SparseScan(rows, relays) ==
    LET Stops(n) == \/ ~RangeCompleteEmpty(rows, relays, ScanRange(n))
                    \/ PlanScan(ScanRange(n), n) = "EmptyProven"
        stops == {n \in 0..(MaxSteps - 1) : Stops(n)}
        stop == CHOOSE n \in stops : \A m \in stops : n <= m
        range == ScanRange(stop)
    IN  IF stops = {} THEN Decision("SearchingOlder", ScanRange(MaxSteps))
        ELSE IF RangeCompleteEmpty(rows, relays, range)
        THEN Decision("EmptyProven", range)
        ELSE IF RangeComplete(rows, relays, range)
        THEN Decision("CacheComplete", range)
        ELSE Decision("SearchingOlder", range)

SparseDecision(source, windowEmpty, rows, relays) ==
    IF windowEmpty /\ source = "CacheComplete" THEN SparseScan(rows, relays)
    ELSE Decision(source, Recent)

-----------------------------------------------------------------------------
(* What the rows say, tick by tick: the reference for the walk *)

Covers(row, tick) == row.since <= tick /\ tick < row.until

Proved(rows, relays, range) ==
    \A relay \in relays, tick \in range.since..(range.until - 1) :
        \E row \in rows : row.clean /\ row.relay = relay /\ Covers(row, tick)

ProvedEmpty(rows, relays, range) ==
    Proved({row \in rows : row.empty}, relays, range)

=============================================================================
