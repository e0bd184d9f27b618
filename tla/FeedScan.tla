------------------------------ MODULE FeedScan ------------------------------
(***************************************************************************)
(* Adaptive scans of a relay's history (crates lkjstr-app/feed_scan,       *)
(* lkjstr-web/scan_model and the scan tables of lkjstr-storage).  A scan   *)
(* of one context (surface, route group, relay, filter, direction and      *)
(* route) plans a window from an edge, reads it, splits a part that hit    *)
(* the relay's limit and learns, from every read, how wide the next window *)
(* may be.  Windows are half-open ranges of seconds.  The estimate of a    *)
(* density is left open: a model with any evidence may propose any span.   *)
(***************************************************************************)
EXTENDS Integers, Sequences, SequencesExt, FiniteSets

CONSTANTS
    Contexts,      \* records of feed, group, relay, filter, dir and route
    Histories,     \* possible histories: [relay |-> [second |-> events]]
    LastSecond,    \* bound: the seconds are 0 .. LastSecond
    Limit,         \* effective_limit of a read
    MinSpan, MaxSpan, NeutralSpan, ChangeFactor,
    MaxSegments,   \* MAX_SEGMENTS_PER_PLAN
    MaxScans       \* bound: scans that may be planned

ASSUME SpanAssumption ==
    /\ LastSecond \in Nat /\ MaxSegments \in Nat
    /\ MinSpan \in Nat /\ MaxSpan \in Nat /\ NeutralSpan \in Nat
    /\ ChangeFactor \in Nat \ {0}

\* "elsewhere" stands for a relay that no context is about.
ASSUME ContextAssumption == \A c \in Contexts : c.relay # "elsewhere"

VARIABLES
    history,       \* the events the relays hold
    models,        \* feed_scan_density_models
    hints,         \* feed_scan_hints
    scans,         \* the running scan of each context, or <<>>
    planned        \* scans planned so far

scanVars == <<history, models, hints, scans, planned>>

Seconds == 0 .. LastSecond
MinOf(a, b) == IF a < b THEN a ELSE b
MaxOf(a, b) == IF a > b THEN a ELSE b
Clamp(n, low, high) == MinOf(MaxOf(n, low), high)
BoundedSpan(n) == Clamp(n, MinSpan, MaxSpan)

-----------------------------------------------------------------------------
(* Contexts, scopes and the keys of the models. *)

ScopeUses ==
    [Exact |-> {"feed", "group", "relay", "filter", "route"},
     RouteGroup |-> {"feed", "group"},
     RelayFilter |-> {"relay", "filter"},
     SurfaceFilter |-> {"feed", "filter"},
     Surface |-> {"feed"},
     Global |-> {}]
Scopes == DOMAIN ScopeUses

KeyForScope(c, scope) ==
    [f \in DOMAIN c |->
        IF f = "dir" \/ f \in ScopeUses[scope] THEN c[f] ELSE ""]

MatchesContext(m, c) ==
    /\ m.key.dir = c.dir
    /\ \A f \in ScopeUses[m.scope] : m.key[f] = c[f]

\* The storage crate builds the same key again for its rows.
StoredKey(c, scope) == KeyForScope(c, scope)

\* The rows select_context finds, which the caller hands to the planner.
StoredFor(c) == {m \in models : m.key = StoredKey(c, m.scope)}

SelectedModels(ms, c) == {m \in ms : MatchesContext(m, c)}

-----------------------------------------------------------------------------
(* Segments. *)

Segment(since, until) == [since |-> since, until |-> until]
Span(s) == MaxOf(s.until - s.since, 0)
SecondsOf(s) == s.since .. s.until - 1

CanSplit(s) == Span(s) > MinSpan /\ s.until > s.since + 1

\* A lower half that ends a second early.
SplitShort(s, dir) ==
    LET mid == s.since + Span(s) \div 2
        lower == Segment(s.since, MaxOf(mid - 1, s.since))
        upper == Segment(mid, s.until)
    IN IF dir = "older" THEN <<upper, lower>> ELSE <<lower, upper>>
Split(s, dir) ==
    LET mid == s.since + Span(s) \div 2
        lower == Segment(s.since, mid)
        upper == Segment(mid, s.until)
    IN IF dir = "older" THEN <<upper, lower>> ELSE <<lower, upper>>

SegmentFromEdge(dir, edge, span) ==
    IF dir = "older" THEN Segment(MaxOf(edge - span, 0), edge)
                     ELSE Segment(edge, edge + span)

-----------------------------------------------------------------------------
(* Proposing a span. *)

ChangeCapped(span, previous) ==
    BoundedSpan(Clamp(span, MaxOf(previous \div ChangeFactor, 1),
                            previous * ChangeFactor))

Compatibility(h, c) == IF ~h.fresh THEN "Expired"
                       ELSE IF h.context = c THEN "Compatible" ELSE "Incompatible"

HintStatus(h, c) ==
    IF h = <<>> THEN "Unavailable"
    ELSE [Compatible |-> "Used", Expired |-> "Expired",
          Incompatible |-> "Rejected"][Compatibility(h[1], c)]

\* The models whose decayed weight counts.
Contributing(ms) == {m \in ms : m.weighs}

\* The span a used hint holds is left open.
PreviousSpans(ms, hinted) ==
    IF hinted THEN MinSpan .. MaxSpan
    ELSE IF Contributing(ms) = {} THEN {NeutralSpan}
    ELSE {m.last : m \in Contributing(ms)}

\* The spans propose_scan_span may answer.
Proposals(ms, hinted) ==
    LET raw == IF Contributing(ms) = {} THEN {NeutralSpan} ELSE MinSpan .. MaxSpan
    IN {ChangeCapped(n, p) : n \in raw, p \in PreviousSpans(ms, hinted)}

-----------------------------------------------------------------------------
(* Learning from a read: outcome is "eose", "limit" or "broken". *)

Feedback(read) ==
    CASE read.limited -> "LimitHit"
      [] ~read.limited /\ ~read.complete -> "Incomplete"
      [] OTHER -> "Done"   \* UnderHalf and Balanced differ in wording only

EmptyModel(c, scope) ==
    [scope |-> scope, key |-> KeyForScope(c, scope),
     weighs |-> FALSE, last |-> 0, good |-> FALSE, from |-> {}]

GivesWeight(read) == read.limited \/ read.complete \/ read.count > 0

Learned(prior, c, scope, s, read) ==
    LET old == IF prior = {} THEN EmptyModel(c, scope) ELSE CHOOSE m \in prior : TRUE
    IN [old EXCEPT !.weighs = @ \/ GivesWeight(read),
                   !.last = IF read.complete \/ ~old.good THEN MaxOf(Span(s), 1) ELSE @,
                   !.good = @ \/ read.complete,
                   !.from = @ \union {c}]

UpdatedModels(c, s, read) ==
    {Learned({m \in StoredFor(c) : m.scope = scope}, c, scope, s, read) :
        scope \in Scopes}

\* An upsert replaces the row of the same scope and key.
Upserted(rows) ==
    rows \union {m \in models : \A r \in rows : <<r.scope, r.key>> # <<m.scope, m.key>>}

NewHint(c) == [context |-> c, fresh |-> TRUE]

FollowUps(s, dir, feedback) ==
    IF feedback = "LimitHit" /\ CanSplit(s) THEN Split(s, dir) ELSE <<>>

-----------------------------------------------------------------------------

ScanInit ==
    /\ history \in Histories
    /\ models = {} /\ hints = {}
    /\ scans = [c \in Contexts |-> <<>>]
    /\ planned = 0

\* The gaps a caller may hand over: two in the window, one at another relay.
Gap(since, until, relay) == [since |-> since, until |-> until, relay |-> relay]
GapLists(c) ==
    LET edge == LastSecond + 1
    IN {<<>>, <<Gap(0, edge, "elsewhere")>>,
        <<Gap(0, edge \div 2, c.relay), Gap(0, 1, "elsewhere"),
          Gap(edge \div 2 + 1, edge, c.relay)>>}

ShouldQuery(gap) == gap.until > gap.since

\* The positions of S in order, the first of them when they are many.
Positions(S) ==
    LET n == MinOf(Cardinality(S), MaxSegments)
    IN {f \in [1..n -> S] :
           /\ \A i, j \in 1..n : i < j => f[i] < f[j]
           /\ \A k \in S : n > 0 /\ k <= f[n] => \E i \in 1..n : f[i] = k}

\* The only member: the gaps of the relay of c that are not empty.
GapSegments(c, gaps) ==
    LET mine == {i \in DOMAIN gaps : gaps[i].relay = c.relay /\ ShouldQuery(gaps[i])}
    IN {[i \in DOMAIN f |-> Segment(gaps[f[i]].since, gaps[f[i]].until)] :
            f \in Positions(mine)}

\* The web bridge gives a hint it is handed the context of the plan and a
\* second to live, and hands over no gaps.
WebHint(h, c) == IF h = <<>> THEN <<>> ELSE <<[context |-> c, fresh |-> TRUE]>>
WebInputs(c, h) == {<<WebHint(h, c), <<>>>>}
AppInputs(c, h) == {<<h, gaps>> : gaps \in GapLists(c)}

Planned(segments) ==
    <<[window |-> UNION {SecondsOf(s) : s \in ToSet(segments)},
       todo |-> segments, done |-> {}, unresolved |-> {}, broken |-> {}]>>

\* plan_feed_scan, with a hint the caller stored, maybe of another context.
Plan(c) ==
    /\ planned < MaxScans
    /\ scans[c] = <<>>
    /\ \E h \in {<<>>} \union {<<x>> : x \in hints} :
       \E input \in WebInputs(c, h) \union AppInputs(c, h) :
       \E span \in Proposals(SelectedModels(StoredFor(c), c),
                            HintStatus(input[1], c) = "Used") :
       \E segments \in GapSegments(c, input[2]) :
          LET edge == IF c.dir = "older" THEN LastSecond + 1 ELSE 0
          IN scans' = [scans EXCEPT ![c] = Planned(
                 IF segments = <<>> THEN <<SegmentFromEdge(c.dir, edge, span)>>
                 ELSE segments)]
    /\ planned' = planned + 1
    /\ UNCHANGED <<history, models, hints>>

\* The caller reads the next segment (page_read, modelled elsewhere) and hands
\* the observation to reduce_scan_observation.
Events(c, s) ==
    FoldLeft(LAMBDA n, t : n + (IF t \in Seconds THEN history[c.relay][t] ELSE 0), 0,
             SetToSeq(SecondsOf(s)))

Reads(c, s) ==
    IF Events(c, s) >= Limit
    THEN {[limited |-> TRUE, complete |-> e, count |-> Limit] : e \in BOOLEAN}
         \union {[limited |-> FALSE, complete |-> FALSE, count |-> 0]}
    ELSE {[limited |-> FALSE, complete |-> TRUE, count |-> Events(c, s)]}
         \union {[limited |-> FALSE, complete |-> FALSE, count |-> n] :
                     n \in {0, Events(c, s)}}

\* The first part of the scan is done, halved, given up or broken.
AfterRead(scan, dir, feedback) ==
    LET s == Head(scan.todo)
        more == FollowUps(s, dir, feedback)
        part == SecondsOf(s)
    IN [scan EXCEPT
           !.todo = more \o Tail(@),
           !.done = IF feedback = "Done" THEN @ \union part ELSE @,
           !.unresolved = IF feedback = "LimitHit" /\ more = <<>>
                          THEN @ \union part ELSE @,
           !.broken = IF feedback = "Incomplete" THEN @ \union part ELSE @]

Reduce(c) ==
    /\ scans[c] # <<>> /\ scans[c][1].todo # <<>>
    /\ LET scan == scans[c][1]
           s == Head(scan.todo)
       IN \E read \in Reads(c, s) :
          /\ models' = Upserted(UpdatedModels(c, s, read))
          /\ hints' = {h \in hints : h.context # c} \union {NewHint(c)}
          /\ scans' = [scans EXCEPT ![c] = <<AfterRead(scan, c.dir, Feedback(read))>>]
    /\ UNCHANGED <<history, planned>>

Finish(c) ==
    /\ scans[c] # <<>> /\ scans[c][1].todo = <<>>
    /\ scans' = [scans EXCEPT ![c] = <<>>]
    /\ UNCHANGED <<history, models, hints, planned>>

\* expires_at_seconds passes.
Expire(h) ==
    /\ h.fresh
    /\ hints' = (hints \ {h}) \union {[h EXCEPT !.fresh = FALSE]}
    /\ UNCHANGED <<history, models, scans, planned>>

ScanNext == \/ \E c \in Contexts : Plan(c) \/ Reduce(c) \/ Finish(c)
            \/ \E h \in hints : Expire(h)

ScanSpec == ScanInit /\ [][ScanNext]_scanVars

-----------------------------------------------------------------------------

\* However often windows hit the limit and are split, every second of the
\* window a scan planned is read to its end, given up as unresolved or broken,
\* or still to be read, and no second is read to its end twice
\* (hint_update.rs, segment.rs).
WindowAccounted ==
    \A c \in Contexts : scans[c] # <<>> =>
        LET scan == scans[c][1]
            parts == [i \in 1 .. Len(scan.todo) |-> SecondsOf(scan.todo[i])]
        IN /\ scan.window = scan.done \union scan.unresolved \union scan.broken
                            \union UNION {parts[i] : i \in DOMAIN parts}
           /\ \A i \in DOMAIN parts : parts[i] \cap scan.done = {}
           /\ \A i, j \in DOMAIN parts : i # j => parts[i] \cap parts[j] = {}
=============================================================================
