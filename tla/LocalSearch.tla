----------------------------- MODULE LocalSearch -----------------------------
(***************************************************************************)
(* The local pages of the Rust Search tab: one query of the token table    *)
(* for each word, one after the other, a read of each event that was found *)
(* in all of them, and the page that is made of those.  Between any two    *)
(* calls of the store other tasks put and delete events.  A text is a      *)
(* sequence of words.  The window stays below its capacity and no relay is *)
(* selected.                                                               *)
(***************************************************************************)
EXTENDS FiniteSets, Sequences, Integers

CONSTANTS Posts,          \* events: records [id, at, shown, words]; shown: a displayed kind
          Query,          \* the submitted text
          PageSize,
          RowFactor, RowCap,   \* of the rows one token query returns
          MaxQueryTokens, MaxEventTokens,
          MaxChanges      \* bound: puts and deletions of other tasks

\* Ids are compared as texts; any numbers in that order stand for them.
ASSUME PostsAssumption ==
    /\ IsFiniteSet(Posts)
    /\ \A p \in Posts : p.at \in Int /\ p.id \in Int
    /\ \A p, q \in Posts : p.id = q.id => p = q
ASSUME SearchAssumption ==
    PageSize \in Nat /\ RowFactor \in Nat /\ RowCap \in Nat /\ MaxEventTokens \in Nat

VARIABLES stored,    \* the events stored, with their token rows
          steady,    \* those stored ever since the query was submitted
          phase,     \* "open", "querying", "fetching" or "failed"
          asked,     \* the tokens queried for this page
          found,     \* the events every token query so far returned
          fetched,   \* the events read so far
          cursor,    \* the oldest row of the window, if any
          listed,    \* the rows shown
          older,     \* whether the window says it has older rows
          changes

searchVars == <<stored, steady, phase, asked, found, fetched, cursor, listed, older, changes>>
pageVars   == <<asked, found, fetched>>

\* The rows of the token table an event has for a token.
Places(p, t) == {i \in 1..MaxEventTokens : i <= Len(p.words) /\ p.words[i] = t}
QueryTokens ==
    {Query[i] : i \in {j \in DOMAIN Query :
                         Cardinality({Query[k] : k \in 1..(j - 1)}) < MaxQueryTokens}}
FirstAt(t) == CHOOSE i \in DOMAIN Query : Query[i] = t /\ \A j \in 1..(i - 1) : Query[j] # t

\* Mutant: the id does not order events of one second.
BeforeSecond(p) == \A c \in cursor : c.at > p.at
\* By time descending, then by id.
Newer(p, q) == p.at > q.at \/ (p.at = q.at /\ p.id < q.id)
BeforeCursor(p) == \A c \in cursor : Newer(c, p)
Newest(S, n) == {p \in S : Cardinality({q \in S : Newer(q, p)}) < n}

Limit == PageSize + 1
RowLimit == LET many == IF RowFactor * Limit < RowCap THEN RowFactor * Limit ELSE RowCap
            IN  IF Limit > many THEN Limit ELSE many

\* by_token and by_token_before: an event has a row for each place of the
\* token, and the newest rows are returned.
RowsFor(t) ==
    LET with     == {p \in stored : Places(p, t) # {} /\ BeforeCursor(p)}
        Above(p) == {r \in with \X (1..MaxEventTokens) :
                        Newer(r[1], p) /\ r[2] \in Places(r[1], t)}
    IN  {p \in with : Cardinality(Above(p)) < RowLimit}

\* The upsert of an event replaces its token rows; its deletion takes them away.
SaveEvent ==
    /\ changes < MaxChanges /\ changes' = changes + 1
    /\ \E p \in Posts \ stored : stored' = stored \cup {p}
    /\ UNCHANGED <<steady, phase, pageVars, cursor, listed, older>>
DeleteEvent ==
    /\ changes < MaxChanges /\ changes' = changes + 1
    /\ \E p \in stored : stored' = stored \ {p} /\ steady' = steady \ {p}
    /\ UNCHANGED <<phase, pageVars, cursor, listed, older>>

StartPage ==
    /\ phase' = (IF QueryTokens = {} THEN "fetching" ELSE "querying")
    /\ asked' = {} /\ found' = {} /\ fetched' = {}
    /\ UNCHANGED <<stored, steady, cursor, listed, older, changes>>
\* The next page only while the window says so, and from its oldest row on.
RequestOlder == phase = "open" /\ older /\ cursor # {} /\ StartPage

QueryToken ==
    /\ phase = "querying"
    /\ \E t \in QueryTokens \ asked :
          /\ \A u \in QueryTokens \ asked : FirstAt(t) <= FirstAt(u)
          /\ LET both == IF asked = {} THEN RowsFor(t) ELSE found \cap RowsFor(t)
                 last == QueryTokens = asked \cup {t}
             IN  /\ asked' = asked \cup {t}
                 /\ found' = IF last THEN Newest(both, Limit) ELSE both
                 /\ phase' = IF last THEN "fetching" ELSE "querying"
    /\ UNCHANGED <<stored, steady, fetched, cursor, listed, older, changes>>

\* The events are read newest first; one that is gone by now is left out.
FetchEvent ==
    /\ phase = "fetching"
    /\ \E p \in Newest(found, 1) :
          /\ found' = found \ {p}
          /\ fetched' = fetched \cup ({p} \cap stored)
    /\ UNCHANGED <<stored, steady, phase, asked, cursor, listed, older, changes>>

FinishPage ==
    /\ phase = "fetching" /\ found = {}
    /\ LET rows == {p \in fetched : p.shown}
           next == listed \cup Newest(rows, PageSize)
       IN  /\ listed' = next
           /\ cursor' = {p \in next : \A q \in next \ {p} : Newer(q, p)}
           /\ older' = (Cardinality(rows) > PageSize)
    /\ phase' = "open" /\ asked' = {} /\ fetched' = {}
    /\ UNCHANGED <<stored, steady, found, changes>>

\* A store call that fails ends the page without rows.
FailPage ==
    /\ phase \in {"querying", "fetching"}
    /\ phase' = "failed" /\ asked' = {} /\ found' = {} /\ fetched' = {}
    /\ UNCHANGED <<stored, steady, cursor, listed, older, changes>>
RetryOlder == phase = "failed" /\ older /\ cursor # {} /\ StartPage

SearchInit == /\ stored \in SUBSET Posts /\ steady = stored /\ phase = "querying"
              /\ asked = {} /\ found = {} /\ fetched = {} /\ cursor = {} /\ listed = {}
              /\ older = FALSE /\ changes = 0

SearchNext == \/ SaveEvent \/ DeleteEvent \/ RequestOlder \/ QueryToken \/ FetchEvent
              \/ FinishPage \/ FailPage \/ RetryOlder

SearchSpec == SearchInit /\ [][SearchNext]_searchVars

------------------------------------------------------------------------------
Matches(p) == p.shown /\ \A t \in QueryTokens : Places(p, t) # {}

\* The pages leave no gap: a displayed match that was stored all the time and
\* is not older than the oldest row shown is shown, whatever was put or deleted
\* between the calls a page is made of (local_search_event_ids_before,
\* search_row_before).
PagesLeaveNoGap == \A p \in steady : Matches(p) /\ ~BeforeCursor(p) /\ cursor # {} => p \in listed

\* What search.md:29 says of the queries, that they intersect all token
\* candidates: when the window says that nothing older is there, every match
\* that was stored all the time is shown.
EndMeansNoMore ==
    phase = "open" /\ ~older => \A p \in steady : Matches(p) => p \in listed
=============================================================================
