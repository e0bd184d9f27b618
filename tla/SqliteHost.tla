----------------------------- MODULE SqliteHost -----------------------------
(***************************************************************************)
(* The registry through which the Rust hosts share one SQLite store        *)
(* (crates/lkjstr-web/src/sqlite_host_store), its cooldown and its broker  *)
(* clients.  An entry is one opening of the store: a future shared by all  *)
(* who wait for it, which sends Open and then ApplySchema to the page's    *)
(* broker (SqliteKernel).  There is one database, so one key.              *)
(***************************************************************************)
EXTENDS Naturals, Sequences, FiniteSets

CONSTANTS Tasks,       \* the calls of with_sqlite_store
          MaxCloses,   \* bound on the calls of close_all
          MaxCooldowns \* bound on the cooldowns that run out

NoEntry == 0
Opened  == 1..(2 * Cardinality(Tasks))     \* each call opens at most twice

VARIABLES
    registry,  \* the entry of the key, or NoEntry
    entries,   \* the openings so far
    cooldown,  \* whether the owner cooldown runs
    expired,   \* cooldowns that ran out
    tasks,     \* where each call is, on which entry, and the close_alls it saw begin
    taken,   \* entries a close_all has taken out and not closed yet
    closes     \* calls of close_all so far

storeVars == <<registry, entries, cooldown, expired, tasks, taken, closes>>

Entry == [at : {"open", "schema", "store", "failed", "held"}, closed : BOOLEAN]

StoreInit ==
    /\ registry = NoEntry /\ entries = <<>>
    /\ cooldown = FALSE /\ expired = 0
    /\ tasks = [t \in Tasks |-> [pc |-> "idle", entry |-> NoEntry, saw |-> 0]]
    /\ taken = {} /\ closes = 0

Open(e)    == entries[e].at = "store" /\ ~entries[e].closed
Settled(e) == entries[e].at \notin {"open", "schema"}
LastEntry       == Len(entries)
Goto(t, pc, e) ==
    tasks' = [tasks EXCEPT ![t] = [pc |-> pc, entry |-> e,
                                   saw |-> IF @.pc = "idle" THEN closes ELSE @.saw]]

-----------------------------------------------------------------------------
\* create_entry: its future is polled at once by the task that made it, so
\* the Open is on its way.  A broker that is missing or of another key fails.
Create(t, pc) ==
    /\ \E at \in {"open", "failed"} :
          entries' = Append(entries, [at |-> at, closed |-> FALSE])
    /\ registry' = LastEntry + 1
    /\ Goto(t, pc, LastEntry + 1)

\* shared_entry of a task that looks at a registry holding reg.
SharedEntry(t, reg, pc) ==
    IF reg # NoEntry THEN Goto(t, pc, reg) /\ registry' = reg /\ UNCHANGED entries
                     ELSE Create(t, pc)

Begin(t) ==
    /\ tasks[t].pc = "idle"
    /\ IF cooldown THEN Goto(t, "busy", NoEntry) /\ UNCHANGED <<registry, entries>>
                   ELSE SharedEntry(t, registry, "waiting")
    /\ UNCHANGED <<cooldown, expired, taken, closes>>

\* The broker answers Open or ApplySchema; it refuses an Open when another
\* page owns the database or Web Locks are missing.
OpenAnswers(e) ==
    /\ e \in DOMAIN entries /\ entries[e].at = "open"
    /\ \E a \in {"schema", "failed", "held"} : entries' = [entries EXCEPT ![e].at = a]
    /\ UNCHANGED <<registry, cooldown, expired, tasks, taken, closes>>

SchemaAnswers(e) ==
    /\ e \in DOMAIN entries /\ entries[e].at = "schema"
    /\ \E a \in {"store", "failed"} : entries' = [entries EXCEPT ![e].at = a]
    /\ UNCHANGED <<registry, cooldown, expired, tasks, taken, closes>>

Waits(t, pc) == tasks[t].pc = pc /\ Settled(tasks[t].entry)

\* A store that was closed meanwhile is replaced once.
Replace(t) ==
    /\ Waits(t, "waiting") /\ entries[tasks[t].entry].at = "store"
    /\ entries[tasks[t].entry].closed
    /\ SharedEntry(t, NoEntry, "again")
    /\ UNCHANGED <<cooldown, expired, taken, closes>>

\* A failed opening is taken out of the registry by everyone who waited for
\* it, whatever the registry holds by then.
Give(t) ==
    LET e == tasks[t].entry IN
    /\ \/ Waits(t, "waiting") /\ ~(entries[e].at = "store" /\ entries[e].closed)
       \/ Waits(t, "again")
    /\ IF entries[e].at = "store"
       THEN Goto(t, "call", e) /\ UNCHANGED <<registry, cooldown>>
       ELSE /\ Goto(t, "failed", NoEntry)
            /\ cooldown' = (cooldown \/ entries[e].at = "held")
            /\ registry' = NoEntry
    /\ UNCHANGED <<entries, expired, taken, closes>>

\* The operation of with_sqlite_store is answered by the broker, or refused
\* by a client that is closed.
Call(t) ==
    /\ tasks[t].pc = "call"
    /\ Goto(t, IF Open(tasks[t].entry) THEN "answered" ELSE "canceled", NoEntry)
    /\ UNCHANGED <<registry, entries, cooldown, expired, taken, closes>>

CooldownEnds ==
    /\ cooldown /\ expired < MaxCooldowns
    /\ cooldown' = FALSE /\ expired' = expired + 1
    /\ UNCHANGED <<registry, entries, tasks, taken, closes>>

\* Mutant: the registry keeps what is closed.
CloseAllKeeping ==
    /\ closes < MaxCloses /\ closes' = closes + 1
    /\ taken' = taken \cup ({registry} \ {NoEntry})
    /\ UNCHANGED <<registry, entries, cooldown, expired, tasks>>

\* close_all_sqlite_stores empties the registry and closes each entry it
\* found there once it is open.
CloseAll ==
    /\ closes < MaxCloses /\ closes' = closes + 1
    /\ registry' = NoEntry
    /\ taken' = taken \cup ({registry} \ {NoEntry})
    /\ UNCHANGED <<entries, cooldown, expired, tasks>>

CloseTaken(e) ==
    /\ e \in taken /\ Settled(e)
    /\ taken' = taken \ {e}
    /\ entries' = [entries EXCEPT ![e].closed = (entries[e].at = "store")]
    /\ UNCHANGED <<registry, cooldown, expired, tasks, closes>>

-----------------------------------------------------------------------------
StoreNext ==
    \/ \E t \in Tasks : Begin(t) \/ Replace(t) \/ Give(t) \/ Call(t)
    \/ \E e \in Opened : OpenAnswers(e) \/ SchemaAnswers(e) \/ CloseTaken(e)
    \/ CooldownEnds \/ CloseAll

\* The broker settles every request (EverySendSettles of SqliteKernel) and a
\* task whose future is ready is polled.
StoreFairness ==
    /\ \A t \in Tasks : WF_storeVars(Replace(t) \/ Give(t)) /\ WF_storeVars(Call(t))
    /\ \A e \in Opened :
          WF_storeVars(OpenAnswers(e) \/ SchemaAnswers(e)) /\ WF_storeVars(CloseTaken(e))

StoreSpec == StoreInit /\ [][StoreNext]_storeVars /\ StoreFairness

-----------------------------------------------------------------------------
StoreTypeOK ==
    /\ entries \in Seq(Entry) /\ LastEntry <= Cardinality(Opened)
    /\ registry \in 0..LastEntry /\ taken \subseteq 1..LastEntry
    /\ cooldown \in BOOLEAN /\ expired \in 0..MaxCooldowns /\ closes \in 0..MaxCloses
    /\ tasks \in [Tasks -> [pc : {"idle", "busy", "waiting", "again", "call", "failed",
                                  "answered", "canceled"}, entry : 0..LastEntry,
                            saw : 0..MaxCloses]]

\* A call is refused by a closed store only when the page closed its stores
\* after the call had begun: later calls open the database anew, although
\* close_all still waits for openings that were under way and calls that
\* joined those openings are still to come (registry.rs:42-57, 80-95).
NoLateCancel ==
    \A t \in Tasks : tasks[t].pc = "canceled" => closes > tasks[t].saw

\* Not so: of two calls that wait for an opening that fails, the second takes
\* the next opening out of the registry, and a third opens the database a
\* second time beside it (registry.rs:53-56), although repeated opens are to
\* reuse the open owner (docs app-broker.md, owner-lifecycle.md:72-73).
OneOpenStore == closes = 0 => Cardinality({e \in DOMAIN entries : Open(e)}) <= 1
=============================================================================
