----------------------------- MODULE RoutedReads -----------------------------
(***************************************************************************)
(* What a page read asks and of whom: the route plan of its authors and    *)
(* relays, the budget of its requests, the key under which equal reads     *)
(* share one registry entry, and the scores that order the relays of the   *)
(* next read (crates/lkjstr-relays/src/route_plan, route_evidence,         *)
(* request_budget, page_read and read_score).  The caller that plans a     *)
(* read, runs it and reports what it saw is outside the crates; it is      *)
(* modelled after the TypeScript ones (page-reads.ts, relay-read-score.ts).*)
(***************************************************************************)
EXTENDS Integers, FiniteSets, FiniteSetsExt, SequencesExt

CONSTANTS Owners, Intents,       \* who reads what; authors and hosts are numbers,
          RoutePool, Blockable,  \* their order that of the strings
          RelayMax,              \* max_limit of each relay, a set of at most one
          Observations,          \* what a read may tell of a relay
          MaxRouteRelays, MaxTargets, MaxAuthors,  \* 4, 12 and 50 in the code
          MaxChanges, MaxSamples, MaxClock         \* bounds of the instance

\* A relay's limit, an intent's limit and the seconds of an answer are optional.
Optional(S) == IsFiniteSet(S) /\ S \subseteq Nat /\ Cardinality(S) <= 1

\* Every url that is not broken names one of the relays.
ASSUME ReadsAssumption ==
    /\ IsFiniteSet(DOMAIN RelayMax) /\ DOMAIN RelayMax \subseteq Nat
    /\ \A w \in DOMAIN RelayMax : Optional(RelayMax[w])
    /\ \A r \in RoutePool : r.url.form # "broken" => r.url.host \in DOMAIN RelayMax
    /\ \A i \in Intents :
          /\ i.page \in Nat /\ i.filters \in Nat /\ Optional(i.limit)
          /\ \A u \in i.selected : u.form # "broken" => u.host \in DOMAIN RelayMax
    /\ \A o \in Observations :
          /\ Optional(o.first) /\ Optional(o.eose)
          /\ o.events \in Nat /\ o.unique \in Nat /\ o.final \in Nat

VARIABLES routes,    \* what is known of the authors' relays: [author, url, source, score]
          disabled,  \* urls
          changes,   \* steps of the two above so far
          flights,   \* InFlightPageReadRegistry: [key, asks, owners, aborted]
          shut,      \* it is closed
          joined,    \* what each attached owner asks for: [owner, key, asks]
          scores,    \* of each relay in one context: a row, or none yet
          clock      \* in units of six hours

readVars == <<routes, disabled, changes, flights, shut, joined, scores, clock>>

-----------------------------------------------------------------------------
(* The route plan.                                                         *)

\* normalize_relay_url over a set: a host has several spellings, and a broken
\* url none.
Hosts(urls) == {u.host : u \in {u \in urls : u.form # "broken"}}

BaseTrust == [receipt |-> 90, measured |-> 80, discovery |-> 65, hint |-> 50, nip65 |-> 35]

Group(source, relays, authors) ==
    [source |-> source, relays |-> relays, authors |-> authors]

AllowsAuthorRoutes(surface) ==
    surface \in {"home", "profile", "timeline", "thread", "notifications", "author"}

\* sorted, without duplicates, cut at n
Capped(S, n) == {x \in S : Cardinality({y \in S : y < x}) < n}

\* disabled and broken candidates do not count against the cap.
Candidates(a) ==
    {r \in routes : r.author = a /\ Hosts({r.url}) \cap Hosts(disabled) = {}
                    /\ r.url.form # "broken"}

\* By trust and score, then by url; a host with two routes counts once, at its
\* better one.
AuthorRelays(a) ==
    LET hosts == {r.url.host : r \in Candidates(a)}
        Trust(h) == Max({BaseTrust[r.source] + r.score :
                           r \in {r \in Candidates(a) : r.url.host = h}})
        Before(g, h) == Trust(g) > Trust(h) \/ (Trust(g) = Trust(h) /\ g < h)
    IN  {h \in hosts : Cardinality({g \in hosts : Before(g, h)}) < MaxRouteRelays}

\* The cap takes the first authors, with a route or without.
AuthorGroups(i) ==
    {Group("author-route", AuthorRelays(a), {a}) :
        a \in {a \in Capped(i.authors, MaxTargets) : AuthorRelays(a) # {}}}

PlanGroups(i) ==
    LET selected == Hosts(i.selected) \ Hosts(disabled) IN
    (IF AllowsAuthorRoutes(i.surface) THEN AuthorGroups(i) ELSE {})
    \cup (IF selected = {} THEN {}
          ELSE {Group("selected-fallback", selected, Capped(i.authors, MaxAuthors))})

\* The relays of a demand: those of all its groups.
Flattened(groups) == UNION {g.relays : g \in groups}

-----------------------------------------------------------------------------
(* The budget of a request; a page read is never of the live phase.        *)

EventsCap == 1000

\* A request of a page, of relay w.
BudgetInput(i, w) ==
    [purpose |-> i.purpose, page |-> i.page, requested |-> i.limit, filters |-> i.filters,
     exact |-> i.purpose = "lookup", relayMax |-> RelayMax[w]]

AppCap(purpose) ==
    CASE purpose \in {"metadata", "discovery"} -> 50
      [] purpose = "search" -> 100
      [] OTHER -> 500

\* A requested limit of zero is none.
Intended(q) == LET positive == {l \in q.requested : l > 0}
               IN IF positive = {} THEN q.page ELSE Max(positive)

FilterLimit(q) == Max({1, Min({Intended(q), AppCap(q.purpose)} \cup q.relayMax)})

MaxEvents(q) ==
    Min({EventsCap, IF q.exact THEN Max({1, q.page, Intended(q)})
                    ELSE FilterLimit(q) * Max({1, q.filters}) + Max({1, q.page})})

Budget(i, w) ==
    LET q == BudgetInput(i, w) IN [limit |-> FilterLimit(q), events |-> MaxEvents(q)]

\* apply_budget_to_filters: a filter keeps a smaller limit of its own.
SentLimit(i, w) == Min(i.limit \cup {Budget(i, w).limit})

\* Mutant: the largest budget stands for all.
MergedCapOfOne(i, relays) == Max({0} \cup {Budget(i, w).events : w \in relays})

\* merge_budgets_for_read
MergedCap(i, relays) ==
    Min({EventsCap, SumFunction([w \in relays |-> Budget(i, w).events])})

-----------------------------------------------------------------------------
(* The key of a read.                                                      *)

Bounds(i) ==
    IF i.before \cup i.after # {} THEN <<i.before, i.after>>
    ELSE CASE i.dir = "older" -> <<i.cursor, {}>>
           [] i.dir = "newer" -> <<{}, i.cursor>>
           [] OTHER           -> <<{}, {}>>

\* What the caller sends for an intent, and what it hopes to be answered.
Asks(i) == [groups |-> PlanGroups(i), bounds |-> Bounds(i), page |-> i.page,
            purpose |-> i.purpose]

\* Mutant: equal intents share, whatever their routes are by now.
KeyWithoutRoutes(i) ==
    <<i.surface, i.dir, i.authors, i.page, Bounds(i), i.selected, i.purpose, i.limit>>
\* page_read_semantic_key: the owner is left out; the filters stand for the limit.
SemanticKey(i) == <<KeyWithoutRoutes(i), PlanGroups(i)>>

-----------------------------------------------------------------------------
(* Scores, in ten-thousandths; latencies in seconds.                       *)

Full    == 10000
Neutral == 5000
Unit(n) == Max({0, Min({Full, n})})   \* clamp01

NewScore(at) ==
    [reliability |-> Neutral, first |-> Neutral, eose |-> Neutral, useful |-> Neutral,
     unique |-> Neutral, penalty |-> 0, samples |-> 0, at |-> at]

Failed(o) == o.flags \cap {"timeout", "closed", "auth", "error"} # {}

Reliability(o) ==
    CASE ~Failed(o) /\ o.eose # {}   -> Full
      [] Failed(o)                   -> 0
      [] ~Failed(o) /\ o.eose = {} /\ o.events > 0 -> 6500
      [] OTHER                       -> Neutral

Speed(seconds) == IF seconds = {} THEN 2500 ELSE Full - Min(seconds \cup {10}) * 1000
Ratio(n, m)    == IF m = 0 THEN 0 ELSE Unit((n * Full) \div m)
Useful(o)      == Ratio(o.events, IF o.final > 0 THEN o.final ELSE 10)
Unique(o)      == Ratio(o.unique, o.events)

Penalty(o) ==
    LET Flag(name, weight) == IF name \in o.flags THEN weight ELSE 0
    IN  Unit(Flag("timeout", 3500) + Flag("error", 3000) + Flag("closed", 2000)
             + Flag("auth", 2000) + Flag("full", 800))

SmoothingWeight(samples) == IF samples = 0 THEN 100 ELSE IF samples < 20 THEN 25 ELSE 10

\* update_relay_read_score
Updated(s, o, at) ==
    LET w == SmoothingWeight(s.samples)
        Smooth(old, new) == (old * (100 - w) + new * w) \div 100
    IN  [reliability |-> Smooth(s.reliability, Reliability(o)),
         first   |-> Smooth(s.first, Speed(o.first)),
         eose    |-> Smooth(s.eose, Speed(o.eose)),
         useful  |-> Smooth(s.useful, Useful(o)),
         unique  |-> Smooth(s.unique, Unique(o)),
         penalty |-> Smooth(s.penalty, Penalty(o)),
         samples |-> s.samples + 1, at |-> at]

\* fairness_credit: none for six hours, all of it after a day.
Credit(at, time) ==
    IF time - at <= 1 THEN 0 ELSE Unit(((time - at - 1) * Full) \div 3)

\* Of finalize_score, before it is clamped; the credit is that of the ordering.
Weighed(s) == s.reliability * 34 + s.first * 18 + s.eose * 12 + s.useful * 16
              + s.unique * 10 - s.penalty * 35

\* Mutant: the stored score orders, no credit is applied.
ScoreWithoutCredit(s, time) == Max({0, Weighed(s)})
ScoreAt(s, time) == Max({0, Weighed(s) + Credit(s.at, time) * 5})

RowOf(w) == IF scores[w] = {} THEN NewScore(clock) ELSE CHOOSE s \in scores[w] : TRUE

\* compare_relay_read_scores
Precedes(v, w) ==
    LET Rank(x) == LET s == RowOf(x)
                   IN  <<ScoreAt(s, clock), s.reliability, s.first, s.eose, -x>>
    IN  \E n \in 1..5 : /\ Rank(v)[n] > Rank(w)[n]
                        /\ \A m \in 1..(n - 1) : Rank(v)[m] = Rank(w)[m]

\* The n-th of the sorted relays is the one that n - 1 precede.
Ordered(relays) ==
    [n \in 1..Cardinality(relays) |->
        CHOOSE w \in relays : Cardinality({v \in relays : Precedes(v, w)}) = n - 1]

-----------------------------------------------------------------------------
ReadsInit ==
    /\ routes = {} /\ disabled = {} /\ changes = 0
    /\ flights = {} /\ shut = FALSE /\ joined = {}
    /\ scores = [w \in DOMAIN RelayMax |-> {}] /\ clock = 0

Learn(r) ==
    /\ changes < MaxChanges /\ r \notin routes
    /\ routes' = routes \cup {r} /\ changes' = changes + 1
    /\ UNCHANGED <<disabled, flights, shut, joined, scores, clock>>

\* The user disables a relay, or enables it again.
SetDisabled(u) ==
    /\ changes < MaxChanges
    /\ disabled' = IF u \in disabled THEN disabled \ {u} ELSE disabled \cup {u}
    /\ changes' = changes + 1
    /\ UNCHANGED <<routes, flights, shut, joined, scores, clock>>

Flight(k, i) == [key |-> k, asks |-> Asks(i), intent |-> i, owners |-> {}, aborted |-> FALSE]
Joined(f, o) == [f EXCEPT !.owners = @ \cup {o}]

\* The first owner of a key starts the read, a later one shares it.
AttachRead(o, i) ==
    LET k    == SemanticKey(i)
        mine == [owner |-> o, key |-> k, asks |-> Asks(i)]
        held == {f \in flights : f.key = k}
    IN  /\ ~shut /\ \A j \in joined : j.owner # o
        /\ flights' = (flights \ held) \cup
                      {Joined(f, o) : f \in IF held = {} THEN {Flight(k, i)} ELSE held}
        /\ joined' = joined \cup {mine}
        /\ UNCHANGED <<routes, disabled, changes, shut, scores, clock>>

\* One owner's signal aborts the read of all that share it; until it settles a
\* later owner shares an aborted read, and is told so.
Abort(f) ==
    /\ flights' = (flights \ {f}) \cup {[f EXCEPT !.aborted = TRUE]}
    /\ UNCHANGED <<routes, disabled, changes, shut, joined, scores, clock>>

\* The read ends with what it saw of its relays.  One that was aborted before it
\* was admitted saw none; one aborted later records them like any other.
Settle(f, seen) ==
    /\ flights' = flights \ {f}
    /\ joined' = {j \in joined : j.key # f.key}
    /\ scores' = [w \in DOMAIN scores |->
                     IF w \in DOMAIN seen THEN {Updated(RowOf(w), seen[w], clock)}
                     ELSE scores[w]]
    /\ UNCHANGED <<routes, disabled, changes, shut, clock>>

CloseReads ==
    /\ ~shut /\ shut' = TRUE /\ flights' = {} /\ joined' = {}
    /\ UNCHANGED <<routes, disabled, changes, scores, clock>>

TimePasses ==
    /\ clock < MaxClock /\ clock' = clock + 1
    /\ UNCHANGED <<routes, disabled, changes, flights, shut, joined, scores>>

MayBeSeen(w) == \A s \in scores[w] : s.samples < MaxSamples

ReadsNext ==
    \/ \E r \in RoutePool : Learn(r)
    \/ \E u \in Blockable : SetDisabled(u)
    \/ \E o \in Owners, i \in Intents : AttachRead(o, i)
    \/ \E f \in flights : Abort(f) \/ \E W \in SUBSET Flattened(f.asks.groups) :
          /\ \A w \in W : MayBeSeen(w)
          /\ \E seen \in [W -> Observations] : Settle(f, seen)
    \/ CloseReads \/ TimePasses

ReadsSpec == ReadsInit /\ [][ReadsNext]_readVars

-----------------------------------------------------------------------------
\* An owner that shares a read is answered what it asked for: the relays and
\* authors of its own plan, its bounds and its page, though routes were learned
\* and relays disabled since the read began (dedupe.rs:38-72, inflight.rs:90).
SharedReadIsOwn ==
    \A j \in joined : \E f \in flights :
        f.key = j.key /\ j.owner \in f.owners /\ f.asks = j.asks

\* A read never stops before it took what its requests may bring: the merged
\* cap on its events allows every filter of every relay its limit, up to the
\* thousand events of a page, and no limit exceeds what the relay announced.
\* (Exact lookups count their page alone.)  derive.rs:41-107, apply.rs:31-49.
RequestsFitTheCap ==
    \A f \in {f \in flights : f.intent.purpose # "lookup"} :
        LET relays == Flattened(f.asks.groups)
            wanted == [w \in relays |-> SentLimit(f.intent, w) * f.intent.filters]
        IN  /\ Min({EventsCap, SumFunction(wanted)}) <= MergedCap(f.intent, relays)
            /\ \A w \in relays : \A m \in RelayMax[w] :
                   m > 0 => SentLimit(f.intent, w) <= m

\* "Relays earn bounded retry credit after they have not been sampled for a
\* while" (relay-optimizer/relay-read-scoring.md:79): of two relays with one
\* record the one that waited longer is asked first, unless the other has all
\* of its credit too or the record is so bad that the clamp swallows the credit
\* (fairness.rs:6, score.rs:57-86).
WaitingIsRewarded ==
    LET known == {w \in DOMAIN scores : scores[w] # {}}
        order == Ordered(known)
    IN  \A v, w \in known :
            LET s == RowOf(v)
                t == RowOf(w)
            IN  ([s EXCEPT !.at = 0] = [t EXCEPT !.at = 0] /\ Weighed(s) > 0
                 /\ clock - s.at > 1 /\ s.at < t.at /\ clock - t.at < 4)
                => \E m, n \in DOMAIN order : m < n /\ order[m] = v /\ order[n] = w
=============================================================================
