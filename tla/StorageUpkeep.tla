---------------------------- MODULE StorageUpkeep ----------------------------
(***************************************************************************)
(* The tables of the Rust store beside their cache ledger, and the upkeep  *)
(* of both: every repository write is one batch that stores a row and its  *)
(* ledger row; retention plans from the ledger's candidates under what the *)
(* statistics know, and a later batch deletes what was planned; repair     *)
(* lists targets, probes them and backfills ledger rows.  A batch that     *)
(* fails leaves everything as it was.  A row stands for its child rows,    *)
(* which go with it; its score and age are a rank.  No caller in the        *)
(* crates fetches candidates, dispatches, probes or backfills yet: when     *)
(* and with what that is done is left open.                                 *)
(***************************************************************************)
EXTENDS FiniteSets, FiniteSetsExt, Integers

CONSTANTS Healths,        \* of the store, as the statistics name it
          Resources,      \* what may be stored: records [kind, id]
          Bytes, Rank,      \* of each resource; a lower rank is pruned first
          TargetBytes,      \* what the site may use
          UnknownBytes,     \* used, and owned by no table
          CandidateLimit,   \* ledger rows one plan reads
          MaxWrites         \* repository writes of a behaviour

ASSUME ResourcesAssumption == \A r \in Resources : r = [kind |-> r.kind, id |-> r.id]

VARIABLES rows,      \* the resources stored
          working,   \* the stored jobs whose state is queued, running or pending
          ledger,    \* the ledger rows, one for an id at most
          pins,      \* resources the runtimes protect now
          snap,      \* the statistics the maintenance took, not yet planned with
          plan,      \* the retention plan not yet dispatched
          targets,   \* what repair listed and has not probed
          missing,   \* targets a probe found missing, to be backfilled
          writes

upkeepVars == <<rows, working, ledger, pins, snap, plan, targets, missing, writes>>

Of(kind) == {r \in Resources : r.kind = kind}
RowOf(e) == [kind |-> e.kind, id |-> e.id]

------------------------------------------------------------------------------
\* The schema: its tables by how they may be pruned.
ProtectedTables  == {"workspaces", "settings", "accounts", "local_account_secrets",
                     "relay_sets", "relay_route_blocks", "tweet_drafts"}
CacheTables      == {"events", "event_tags", "event_relays", "notifications",
                     "feed_cursors", "feed_coverage", "feed_scan_hints", "jobs"}
SearchTables     == {"event_search_tokens"}
OptimizerTables  == {"feed_scan_observations", "feed_scan_density_models",
                     "feed_scan_decision_traces", "feed_row_height_observations",
                     "feed_row_height_models"}
DiagnosticTables == {"relay_information", "relay_diagnostic_summaries",
                     "relay_read_observations", "relay_read_scores",
                     "relay_list_suggestions", "author_relay_routes",
                     "route_evidence_scores", "app_log"}
Recoverable(table) ==
    table \in CacheTables \cup SearchTables \cup OptimizerTables \cup DiagnosticTables

\* The tables whose rows the ledger accounts for, by resource kind; every kind
\* but the tab states has statements that delete and probe one resource.
TableOf ==
    [k \in {"nostr-event", "notification-record", "feed-cursor", "coverage-row",
            "scan-hint", "relay-summary", "relay-info", "relay-read-observation",
            "relay-read-score", "relay-list-suggestion", "author-relay-route",
            "route-evidence-score", "job-record"} |->
     CASE k = "nostr-event" -> "events"
       [] k = "notification-record" -> "notifications"
       [] k = "feed-cursor" -> "feed_cursors"
       [] k = "coverage-row" -> "feed_coverage"
       [] k = "scan-hint" -> "feed_scan_hints"
       [] k = "relay-summary" -> "relay_diagnostic_summaries"
       [] k = "relay-info" -> "relay_information"
       [] k = "relay-read-observation" -> "relay_read_observations"
       [] k = "relay-read-score" -> "relay_read_scores"
       [] k = "relay-list-suggestion" -> "relay_list_suggestions"
       [] k = "author-relay-route" -> "author_relay_routes"
       [] k = "route-evidence-score" -> "route_evidence_scores"
       [] k = "job-record" -> "jobs"]
LedgerKinds == DOMAIN TableOf \cup {"tab-state"}

DeleteRoute(e) ==
    IF e.table \in ProtectedTables THEN "protected"
    ELSE IF e.kind \in DOMAIN TableOf /\ TableOf[e.kind] = e.table THEN "known" ELSE "unknown"
ProbeRoute(kind, table) == kind \in DOMAIN TableOf /\ TableOf[kind] = table

------------------------------------------------------------------------------
\* A ledger row; its key in the table is the resource's id alone.
LedgerRow(r, table, protected) ==
    [kind |-> r.kind, id |-> r.id, table |-> table, bytes |-> Bytes[r],
     rank |-> Rank[r], protected |-> protected]

EventEntry(r)        == LedgerRow(r, "events", FALSE)
NotificationEntry(r) == LedgerRow(r, "notifications", FALSE)
FeedEntry(r, table)  == LedgerRow(r, table, FALSE)
RelayEntry(r, table) == LedgerRow(r, table, FALSE)
TabEntry(r)          == LedgerRow(r, "tab_states", FALSE)
JobEntry(r, active)  == LedgerRow(r, "jobs", active)

\* cache_ledger.upsert and cache_ledger.delete, by the id alone.
Upsert(entries)  == {e \in ledger : \A f \in entries : f.id # e.id} \cup entries
DeleteLedger(id) == {e \in ledger : e.id # id}

\* One batch: the rows and their ledger rows, each replacing what has its key.
Batch(entries) ==
    /\ writes < MaxWrites /\ writes' = writes + 1
    /\ rows' = rows \cup {RowOf(e) : e \in entries}
    /\ ledger' = Upsert(entries)
    /\ UNCHANGED <<pins, snap, plan, targets, missing>>

PutEvent        == \E r \in Of("nostr-event") : Batch({EventEntry(r)}) /\ UNCHANGED working
PutNotification == \E rs \in (SUBSET Of("notification-record")) \ {{}} :
                       Batch({NotificationEntry(r) : r \in rs}) /\ UNCHANGED working
PutCursor       == \E r \in Of("feed-cursor") :
                       Batch({FeedEntry(r, "feed_cursors")}) /\ UNCHANGED working
PutCoverage     == \E rs \in (SUBSET Of("coverage-row")) \ {{}} :
                       Batch({FeedEntry(r, "feed_coverage") : r \in rs}) /\ UNCHANGED working
PutHint         == \E r \in Of("scan-hint") :
                       Batch({FeedEntry(r, "feed_scan_hints")}) /\ UNCHANGED working
PutInformation  == \E r \in Of("relay-info") :
                       Batch({RelayEntry(r, "relay_information")}) /\ UNCHANGED working
PutSummary      == \E r \in Of("relay-summary") :
                       Batch({RelayEntry(r, "relay_diagnostic_summaries")}) /\ UNCHANGED working
PutSuggestions  == \E rs \in (SUBSET Of("relay-list-suggestion")) \ {{}} :
                       Batch({RelayEntry(r, "relay_list_suggestions") : r \in rs})
                       /\ UNCHANGED working
PutRoutes       == \E rs \in (SUBSET Of("author-relay-route")) \ {{}} :
                       Batch({RelayEntry(r, "author_relay_routes") : r \in rs})
                       /\ UNCHANGED working
PutTab          == \E r \in Of("tab-state") : Batch({TabEntry(r)}) /\ UNCHANGED working
PutJob ==
    \E r \in Of("job-record"), active \in BOOLEAN :
        /\ Batch({JobEntry(r, active)})
        /\ working' = IF active THEN working \cup {r} ELSE working \ {r}

DeleteTab ==
    \E r \in Of("tab-state") :
        /\ rows' = rows \ {r} /\ ledger' = DeleteLedger(r.id)
        /\ UNCHANGED <<working, pins, snap, plan, targets, missing, writes>>

Pin ==
    \E r \in rows :
        /\ pins' = IF r \in pins THEN {} ELSE {r}
        /\ UNCHANGED <<rows, working, ledger, snap, plan, targets, missing, writes>>

------------------------------------------------------------------------------
\* Retention.

\* What the runtimes protect when they are asked: what they use, the jobs at work.
Protections == pins \cup working

\* Why the statistics forbid a plan: the first reason that applies.
HealthBlock(s)    == IF s.health = "available" THEN {}
                     ELSE IF s.health \in {"temporary-memory", "unavailable"}
                          THEN {"storage-api-unavailable"} ELSE {s.health}
PressureBlock(s)  == IF s.pressure = "none" THEN {"not-recorded"} ELSE {}
InventoryBlock(s) == IF s.partial THEN {"inventory-incomplete"} ELSE {}
BlockingReason(s) ==
    IF HealthBlock(s) # {} THEN HealthBlock(s)
    ELSE IF PressureBlock(s) # {} THEN PressureBlock(s) ELSE InventoryBlock(s)

StoredBytes == MapThenSumSet(LAMBDA r : Bytes[r], rows)
UsageOf(pressure) == IF pressure = "usage" THEN {StoredBytes + UnknownBytes} ELSE {}

\* The health, the counts of the tables and the recorded pressure, as far as a
\* plan can tell them apart.
TakeSnapshot ==
    /\ \E health \in Healths, partial \in BOOLEAN, pressure \in {"none", "no-usage", "usage"} :
           snap' = {[reason |-> BlockingReason([health |-> health, partial |-> partial,
                                                pressure |-> pressure]),
                     usage |-> UsageOf(pressure)]}
    /\ UNCHANGED <<rows, working, ledger, pins, plan, targets, missing, writes>>

\* The ledger rows the candidates statement returns, the lowest ranks first.
Candidates ==
    {e \in ledger : Cardinality({f \in ledger : f.rank < e.rank}) < CandidateLimit}
Prunable(e) == /\ e.kind \in LedgerKinds /\ Recoverable(e.table) /\ ~e.protected
DynamicallyProtected(e) == \E r \in Protections : r.kind = e.kind /\ r.id = e.id
Kept(cands) == {e \in cands : Prunable(e) /\ ~DynamicallyProtected(e)}

SumBytes(es) == MapThenSumSet(LAMBDA e : e.bytes, es)

\* In rank order, until the bytes to free are reached.
Chosen(kept, toFree) ==
    {e \in kept : SumBytes({f \in kept : f.rank < e.rank}) < toFree}

StopReason(in, met, kept) ==
    CASE ~in.api -> {"storage-api-unavailable"}
      [] in.api /\ ~in.complete -> {"inventory-incomplete"}
      [] in.api /\ in.complete /\ in.usage = {} -> {"unknown-unowned-usage"}
      [] OTHER ->
           IF met THEN {}
           ELSE IF UnknownBytes > 0 THEN {"unknown-unowned-usage"}
           ELSE IF kept = {} /\ \E e \in in.cands : e.protected \/ DynamicallyProtected(e)
           THEN {"protected-only"} ELSE {"no-prunable-candidates"}

\* What a plan may use of the statistics, and the plan.
RetentionInput(s) ==
    [usage    |-> IF s.reason = {} THEN s.usage ELSE {},
     cands    |-> IF s.reason = {} THEN Candidates ELSE {},
     complete |-> "inventory-incomplete" \notin s.reason,
     api      |-> s.reason \cap {"storage-api-unavailable", "timeout", "blocked", "corrupt"} = {}]

PlanRetention(in) ==
    LET toFree == SumSet({u - TargetBytes : u \in {x \in in.usage : x > TargetBytes}})
        kept   == IF toFree > 0 /\ in.api /\ in.complete THEN Kept(in.cands) ELSE {}
        chosen == Chosen(kept, toFree)
    IN  [intents |-> chosen, stop |-> StopReason(in, SumBytes(chosen) >= toFree, kept)]

Plan ==
    /\ \E s \in snap : plan' = {PlanRetention(RetentionInput(s))}
    /\ snap' = {}
    /\ UNCHANGED <<rows, working, ledger, pins, targets, missing, writes>>

\* The intents nothing protects now, in one batch: each resource, and the
\* ledger row of its id.
Dispatched(intents) ==
    {e \in intents : ~DynamicallyProtected(e) /\ DeleteRoute(e) = "known"}
\* Mutant: the ledger rows of skipped intents are deleted too.
DispatchForgets ==
    /\ \E p \in plan :
           /\ rows' = rows \ {RowOf(e) : e \in Dispatched(p.intents)}
           /\ working' = working \cap rows'
           /\ ledger' = {e \in ledger : \A g \in p.intents : g.id # e.id}
    /\ plan' = {}
    /\ UNCHANGED <<pins, snap, targets, missing, writes>>
Dispatch ==
    /\ \E p \in plan :
           \/ LET gone == Dispatched(p.intents)
              IN  /\ rows' = rows \ {RowOf(e) : e \in gone}
                  /\ working' = working \cap rows'
                  /\ ledger' = {e \in ledger : \A g \in gone : g.id # e.id}
           \/ UNCHANGED <<rows, working, ledger>>
    /\ plan' = {}
    /\ UNCHANGED <<pins, snap, targets, missing, writes>>

------------------------------------------------------------------------------
\* Repair: its caller lists targets, then has them probed, then hands the
\* missing ones back.
ListTargets ==
    /\ targets' = {[kind |-> e.kind, id |-> e.id, table |-> e.table,
                    protected |-> e.protected] : e \in ledger}
    /\ missing' = {}
    /\ UNCHANGED <<rows, working, ledger, pins, snap, plan, writes>>

Finding(t) ==
    CASE ~ProbeRoute(t.kind, t.table) -> "unknown"
      [] ProbeRoute(t.kind, t.table) /\ RowOf(t) \in rows -> "present"
      [] OTHER -> IF t.protected THEN "skipped" ELSE "orphan-ledger-row"
Probe ==
    /\ targets # {}
    /\ \/ missing' = {t \in targets : Finding(t) = "orphan-ledger-row"}
       \/ missing' = {}                       \* the health or a query failed
    /\ targets' = {}
    /\ UNCHANGED <<rows, working, ledger, pins, snap, plan, writes>>

BackfillSafe(t) == ProbeRoute(t.kind, t.table) /\ ~t.protected
Backfill ==
    /\ missing # {}
    /\ \/ ledger' = Upsert({LedgerRow(RowOf(t), t.table, FALSE) : t \in {x \in missing : BackfillSafe(x)}})
       \/ UNCHANGED ledger                    \* the health or the batch failed
    /\ missing' = {}
    /\ UNCHANGED <<rows, working, pins, snap, plan, targets, writes>>

UpkeepInit ==
    /\ rows = {} /\ working = {} /\ ledger = {} /\ pins = {}
    /\ snap = {} /\ plan = {} /\ targets = {} /\ missing = {} /\ writes = 0

UpkeepNext ==
    \/ PutEvent \/ PutNotification \/ PutCursor \/ PutCoverage \/ PutHint \/ PutInformation
    \/ PutSummary \/ PutSuggestions \/ PutRoutes \/ PutTab \/ PutJob \/ DeleteTab \/ Pin
    \/ TakeSnapshot \/ Plan \/ Dispatch \/ ListTargets \/ Probe \/ Backfill

UpkeepSpec == UpkeepInit /\ [][UpkeepNext]_upkeepVars

------------------------------------------------------------------------------
\* A row whose id no other kind uses keeps a ledger row of its own kind through
\* every write, deletion, stale plan and backfill: without one, retention
\* never finds it again (the ledger step of every repository's batch).
Alone(r) == \A s \in Resources : s.id = r.id => s = r
Accounted(r) == \E e \in ledger : RowOf(e) = r
RowsStayAccounted == \A r \in rows : Alone(r) => Accounted(r)

\* The ledger as it is documented, "the shared byte-accounting and deletion
\* queue for every recoverable browser-local resource" (retention/ledger.md:5).
EveryRowAccounted == \A r \in rows : Accounted(r)
=============================================================================
