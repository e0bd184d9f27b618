# lkjstr in TLA+

lkjstr is a Nostr client that runs entirely in a browser tab: panes and tabs of
feeds, a pool of WebSocket connections to relays, and one SQLite database in
the origin-private file system. There is no server. What makes it hard is that
everything is concurrent inside one event loop, and between browser tabs: every
`await` is a place where anything else may happen, relays answer late, twice or
never, sockets fail while handlers run, tabs are hidden and closed while reads
are in flight, and several browser tabs compete for one database.

The shipped program is the TypeScript under `src/src/lib` with the worker under
`src/static`. The Rust crates under `src/crates` are the target of a migration:
pure reducers (`lkjstr-relays`, `lkjstr-app`, `lkjstr-domain`), statements
(`lkjstr-storage`) and the hosts that run them in a browser (`lkjstr-web`,
`lkjstr-ui`). Some Rust parts have no caller yet; their modules say so, and
follow the TypeScript for the missing caller.

This directory holds TLA+ modules of both, the TLC instances that check them,
and machine-checked proofs about nineteen of them. `PROJECT.json` is the index:
components, runs, the source lines behind every definition, hazards, findings,
theorems, and for each property a plausible bug of the code that breaks it.

    tlc -workers 2 -config MCReadLimiter.cfg MCReadLimiter
    tlapm ReadLimiterProofs.tla

Paths below are relative to the root of the repository (`src/...`).

## 1. The system

### 1.1 Inventory

TypeScript, under `src/src/lib`:

| component | state it keeps | operations | hard behaviour | what makes it correct |
|---|---|---|---|---|
| Paged-read limiter, `relays/read-limiter.ts` | count and waiter queue of each relay | `acquire`, release, abort of a waiter, `close` | an acquire takes its relays one `await` at a time; grants, aborts and the close fall between two of them | no circular wait, counts exact, no lost wake-up, every acquire settles, admission looks atomic |
| Live leases, `relays/orchestration/orchestrator-live.ts`, `demand-registry.ts` | registry of demands by owner, one lease by fingerprint, its wire (and listeners, left out) | attach, detach, pause, resume, release of an owner, close | tabs share a lease and come, hide and go in any order | a wire exactly while a visible owner needs it; nothing outlives its owner; no stream is cut under somebody else |
| Relay client, `relays/relay-client.ts`, `relay-req-scheduler.ts`, `relay-send-queue.ts` | one socket, two timers, send queue, scheduler of REQs, tables by subscription id | connect, subscribe, close of a subscription, close, socket events, timers, EOSE and CLOSED | listeners call back in the middle of a handler; events of an old socket arrive late; `release` starts REQs that refuse themselves | no subscription stranded, the relay's limit held, live REQs dropped last, nothing revives a closed client |
| Relay pool, `relays/relay-pool.ts`, `relay-publish-waiters.ts`, `relay-pool-idle.ts`, `relay-pool-health.ts` | clients by relay, publish waiters, pending events, idle counts and timers | publish, OK, timeout, resend on reconnect, subscribe, idle eviction, close | OK, timeout and close race to settle a publish; eviction races with new work | work counted once, no client evicted under work or forgotten, pending publishes are on the open connection |
| Paged reads, `relays/subscription-manager.ts`, `subscription-read-page.ts`, `shared-abort-controller.ts`, `relay-read-leases.ts` | reads in flight by dedupe key, shared abort controllers, leased subscription ids | read, join, abort, close, completion by EOSE or by loss of relays | callers join a read that settles or is aborted; handlers run before their handles are assigned | joined reads are running, ids unique, an abort is never lost, completion never missed, everybody gets a result |
| SQLite storage owner, `storage/sqlite-opfs/*.ts`, `static/sqlite-opfs-worker*.js` | open promise, client, Web Lock, cooldown, pending requests, the worker's queue and canceled ids | send, abort, close, open attempt, crash, timeouts | close and crash race with an attempt that awaits the lock; a late cancel; another browser tab owns the lock | one writer under one lock, a canceled statement never runs, answers are true, every call returns |

Rust, under `src/crates`:

| component | state it keeps | operations | hard behaviour | what makes it correct |
|---|---|---|---|---|
| Relay reads of feeds, `lkjstr-web/src/*_relay_read*.rs`, `lkjstr-relays/src/page_read` | status of each relay, merged events, sockets and a timer, the view last shown | start, socket events, events, EOSE, timer, release | the timer, the last EOSE, the event that fills the window and the release race; relays fail and repeat | a read ends, shows nothing afterwards, and claims an absence only when every relay proved it |
| Relay reads through the store, `followees_*`, `user_timeline_*`, `profile_feed_header_*` | as above, and the tasks that store and load | the same, and two awaits for each event | a task overtakes another, the store fails | Loading is shown only while something works on it |
| Feed sessions, `*_host.rs`, `*_host_commands.rs`, `lkjstr-ui/src/workspace` | mounts, leases, slots of reads, what the host remembers of an owner | mount, reload, close, older page | the model of a mount is awaited while the tab is closed, reloaded or paged | no read outlives its request, an owner of Home has one reader |
| Feed loads, `*_feed_host.rs`, `*_feed_coverage.rs` | none of their own: rows of the store | a chain of reads, a view, perhaps a relay read | each read may fail, the store changes between two | what is called complete is covered, a surface that may lack something reads |
| Workspace, `lkjstr-domain/src/workspace`, `lkjstr-app`, `lkjstr-ui` | pane tree, groups, tabs, focus; the stored record | open, close, move, split, reload, save | a save is lost, a page starts on a fallback | what is stored needs no repair, only closing loses tabs |
| Accounts and the follow button, `accounts_*.rs`, `profile_follow_*.rs` | account rows, secrets, selector; a publish in flight | add, remove, activate, reveal, import, follow | two commands alternate call by call, a call fails, a relay is silent | damage is repaired by the next command, the button becomes free |
| Relay settings, settings, upload, drafts, `*_host.rs` | rows and signals of a tab | load, save, reset, test | the same | a tab at rest shows what is stored |
| SQLite host store, `sqlite_host_store` | registry of opens, cooldown | call, replace, give up, close all | calls share an open that fails or is taken away | no call is cancelled that began after the last close; one open store |
| Storage worker client, `storage_worker` (its owned constructor has no product caller) | worker, lock lease, pending requests | construct, send, cancel, close | timeouts, crash and close around the lock | the lock is held by the page whose worker lives |
| Relay client reducer and runner, `lkjstr-relays/src/client`, `relay_host` | connection, queue, attempts; generations of an owner | connect, send, close, socket events, timers | events of a replaced generation, errors followed by closes | no queued frame is stranded |
| Live demands and leases, `lkjstr-app/src/feed`, `lkjstr-relays/src/demand`, `live_lease` | demands by owner, wires by fingerprint | attach, hide, release, change of view | owners that come to share a wire | a visible runtime has its wire |
| Window scans, `lkjstr-app/src/feed_scan`, `scan_model` | hints, models, segments of a window | plan, read, split, learn | a window full at the relay's limit, dense seconds | every event of a window is read once |
| Page reads: routes, budgets, sharing, scores, `lkjstr-relays/src` | routes, flights by key, scores | plan, attach, abort, observe | routes change under a shared read; caps meet | what is shared is what each asked, requests fit the cap, waiting is rewarded |
| Reading position, `feed_resize_anchor*.rs` | anchors, suppressed tops, timers | observe, batch, scroll, restore | scroll, resize and render of one frame | the line that is read stays |
| Public chat, `lkjstr-domain/src/public_chat` | channels, messages, moderation, publish | merge, hide, mute, select, publish | events in any order, twice, from many relays | the newest metadata wins, what was hidden stays hidden |
| Store upkeep, `lkjstr-storage`, `sqlite_store` | rows and their ledger | put, plan, dispatch, probe, backfill | plans are stale when they are run | every row stays accounted |
| Local search, `search_feed_cache.rs`, `lkjstr-storage/src/search.rs` | token rows, a cursor | page, older page | puts and deletes between the calls of a page | pages leave no gap |

Not modelled, with the reasons in `PROJECT.json`: the TypeScript feed runtimes,
coverage, compaction, workspace, routing and progressive reads, whose Rust
successors are; the job manager (a read, an await and a write back without a
check, of which nothing safe is left to show) and the unused task queue;
repositories, settings, log and protocol, which are single rows, parsing and
cryptography; rendering and layout; the static host, which keeps no state.

### 1.2 How the parts interact

TypeScript. A feed runtime asks the orchestrator for a *live demand* (attach,
with its owner id and visibility) or for a *page*. The orchestrator shares live
demands by fingerprint (`LiveLease`) and opens each as one subscription of the
subscription manager. A page goes through the manager's map of reads in flight
(`PageReads`), is admitted by the limiter (`ReadLimiter`), subscribes at the
pool and ends by EOSE, cap, abort or timer. The pool (`PoolPublish`) keeps one
client per relay (`RelayClient`), counts the work on each and evicts idle
clients. The client notifies the pool synchronously of every state change; its
listeners may call back into the same client before its handler is finished.
Independently of the network, every repository sends its statements to the
storage owner (`SqliteKernel`), which owns one worker under one Web Lock.

Rust. A tab mounts a surface (`FeedSession`), whose model is loaded from the
store with the coverage that tells what the store is proved to hold
(`FeedLoad`, `FeedCoverage`) and which starts a relay read (`WindowRead`,
`StoredRead`, both over `ProgressiveRead` and `FeedViews`). The session knows a
read by `ReadContract` only, and `WindowRead` is shown to keep it. The host's
commands on accounts and settings (`AccountHost`, `PanelHost`) and the saves of
the workspace (`WorkspaceSession` over `TabWorkspace` over `PaneLayout`) are
chains of calls on one shared store (`SqliteHost`), which in the shipped program
is a client of the page's broker (`new_app_broker`). `StorageWorker` is the
crate's other client, with a worker and a lock of its own (`new_owned_module`);
no code of the program constructs it yet, so it stands beside the others.

## 2. The modules

The rule for all of them: a stretch of code between two suspensions is one
action, because the event loop runs it so. A suspended function is a value of a
`phase` or `pc` variable, and its continuation is an action.

### 2.1 TypeScript

**ReadLimiter.** A reader is one call of `acquire` at a time: `idle`, `queued`
in `acquireOne`, `granted` (its promise resolved, the continuation to come),
`rejected` (the catch block to come) or `holding`. `active` and `queues` are
the two maps of the file. `Begin` is the call up to its first await,
`Continue` the loop after a grant, `Fail` the catch block, `Release` the
returned function, `Abort` the listener on the signal, `Close` the manager's
close. A relay is an integer, whose order stands for the sorted URLs. The
runtime counters are left out.

**ReadAdmission.** The same calls for somebody who does not look inside:
`Ask`, then `Admit` (to all relays at once) or `Refuse`, then `Leave`.
`ReadLimiter!Stage` is the refinement mapping: a call that owns one slot and
waits for the next is still asking.

**LiveLease.** `demand` is the registry, `lease` and `wire` the lease records
and those with a `releaseManager`. All
operations are synchronous, one action each: `Attach`, `Detach`, `Pause`,
`Resume`, `ReleaseOwner`, `Close`. `shown` is the visibility the tab last set,
read by `Attach` as the runtimes read it. An owner may attach again while it is
registered, as Home does with its follow lists, and whoever releases a handle
drops the registration of its owner and print, whichever attach gave it.
Listeners are left out: a handle removes its own, nothing else does, and no
operation on the records or wires looks at them.

**RelayClient.** `state`, `socket`, the timers and the tables carry the names
of the variables of the file. `pc` says where a handler is suspended:
`closing` and `erroring` while the listeners of `setState` run, `microtasks`
between the error and the close event of a socket. `Closes`/`AfterClosed` and
`Fails`/`AfterError` are the two halves of `onclose` and `onerror`;
`ConnectTimeout` shares the second half of the first. `Fill` is the loop of the
scheduler's `release` including the REQs that are refused for their size;
`Enqueue` its push at the cap. `StrayOpens` is an `onopen` of a socket the
variable `socket` no longer refers to, which the code does not exclude.
`Answer` is the relay. The names of sockets are used again once nothing of them
can happen any more.

**PoolPublish.** The pool's maps, with the client of a relay reduced to its
connection, the EVENT frames it holds and those it sent. `Publish`, `Settle`
(`resolvePublish`), `PublishTimeout`, `ReceiveOk`, `Subscribe`, `Unsubscribe`,
`IdleFires`, `Opens` (with the recorder's resend), `Drops`, `Reconnect`,
`Close`.

**PageReads.** A key is a dedupe key and stands for its execution: it awaits
the limiter, reads, is done (its promise resolved), has settled (the `finally`
of the manager to come). `Acquired` is the synchronous stretch of
`executeReadPage` from the admission to the subscription, including the
handler that `onState` calls at once. The limiter appears as its promise only:
it admits or, for an aborted read, rejects.

**SqliteKernel.** An attempt is one run of `createAndOpenSqliteStorage` with
its client and worker. `Send` is `sendSqliteStorage`, for one or two calls of
one task (two matter: the second one finds what the first one did in its
continuation); `Abort`, `Timeout`, `Close`, `CooldownEnds` are the rest of the
page; `Granted`, `Fails`, `Denied`, `LookedUp` the lock and its lookup;
`OpenTimeout`, `CloseTimeout`, `Crash`, `Deliver` the client; `Receive`,
`OpenEnds`, `EstimateEnds` the worker, whose `Works` runs the promise queue up to
the next job that awaits. `ran` and `revoked` are history variables.

### 2.2 Rust: reads, feeds and sessions

**ProgressiveRead**, **FeedViews.** Operators: the pure reducer of a page read
(status of each relay, count and provenance of the merged events, aggregate
status), and what a surface makes of a snapshot (status and footer of the view).

**ReadContract.** What a session relies on from any read: it begins, updates,
settles once, and shows nothing after its end or its release.

**WindowRead.** One read of one of nine kinds (eight windowed surfaces and the
follow list of Home). `Start`, `ReadStep` (open, error, close, event, EOSE,
NOTICE of one relay), `Timeout`, `Cancel`, and for Custom Request the awaited
row geometry. `eosed` is a history variable: the relays that really sent EOSE.

**StoredRead.** Followees, user timeline and profile header, whose events go
through the store; `tasks` are the spawned `publish_stored_event`, one await a
step (`TaskStep`). `storeFailed` is a history variable.

**FeedSession.** Mounts of a tab over ten surfaces, the leases, the slot that a
release cancels, and the owner the host remembers: `HomeMount`, `Mount`,
`Unmount`, `ModelLoaded`, `AskOlder`, `SearchOlderLoaded`, `Output` of a read.

**FeedCoverage**, **FeedLoad.** The walk over coverage rows and the sparse scan
of a profile; the chain of reads of the store, each of which may fail, up to
`Build`, the view and the read to start. Other tabs write between two reads, so
each finds any content.

**LocalSearch.** The pages of a search: one query a token, one fetch an event,
with puts and deletions between any two.

**PublicChat.** The reducers of channels, metadata, messages, moderation,
selection and publishing. `Ask`, `Arrive` and `Finish` are the reads, driven as
`public-chat-runtime.ts` drives them, since the Rust caller is missing. `met`
is a history variable: the metadata events that met their channel.

### 2.3 Rust: page, store and hosts

**PaneLayout**, **TabWorkspace**, **WorkspaceSession.** The pane tree, kept flat:
the sequence of its panes, each with the chain of splits around it, so that the
recursive walks of the code are operators on a sequence (`Compact` keeps the
splits with more than one child, as `compact_split` does on its way up); the
record of groups, tabs and focus with its reducers and its recovery; a page that
loads it, uses it, and saves every change in the background, over several page
loads, with saves and loads that fail.

**StorageUpkeep.** Every put of `sqlite_store` with its ledger row; `TakeSnapshot`,
`Plan`, `Dispatch` for retention, `ListTargets`, `Probe`, `Backfill` for repair.
The loop that calls them is not in the Rust sources: they come in any order.

**AccountHost**, **PanelHost.** A command is a chain of calls on the store, a
step is one call and the code up to the next. In `PanelHost` the store serves
calls in the order they are posted.

**SqliteHost.** `entries` are the openings so far, `registry` the one a new call
joins; `saw` of a task is a history field: the closes that had begun before it.

**StorageWorker.** The worker client of several pages that compete for one
lock, with what the worker was told and has not taken. It starts with
`new_owned_module`, which the program offers and does not call yet.

### 2.4 Rust: relays and position

**RelayEffects.** The client reducer, the runner that stamps effects with the
generation of an owner, and the browser's sockets and timers.

**LeaseRuntime.** The query of each surface, the fingerprint under which equal
demands share a wire, and `Attach`, `Release`, `SetVisibility` of a runtime.

**FeedScan.** Plans, splits, gaps and the six models a read teaches. A density
with evidence may propose any span, so that its arithmetic is left open.

**RoutedReads.** Routes and groups of an intent, the key of a demand, the
registry of reads in flight, budgets, and scores with the order they give.

**ResizeAnchor.** Rows, their heights as laid out and as last observed, the
scroll position, suppressed tops and the timers. `reading`, `calm`, `down`
and `missed` are history variables: what the reader looks at, what he and the
rows did so far, and whether a row grew to end exactly at the scroll position
since he last scrolled, which the code does not make up for (3.4).

### 2.5 Instances

`MCReadLimiter` runs one machine. The others run several: `part` (or `leasing`,
`stored`) is chosen in the initial state and never changes, the variables of
the machines that do not run keep one value, and the sets of behaviours are
disjoint. So one run asks the questions of related machines.

## 3. The runs

Sizes are distinct states.

| run | machines | shows | size |
|---|---|---|---|
| `limiter` | `ReadLimiter` | no lost wake-up, no circular wait, the promise of `ReadAdmission`, every acquire settles | 103,085 |
| `pool` | `SqliteKernel`, `PoolPublish`, `PageReads` | one writer under one lock, a revoked statement never runs, work counted once, every call and every paged read returns | 311,573 |
| `relays` | `LiveLease`, `RelayClient` | no wire without a visible owner, no record outlives its owner, no stream cut, no subscription stranded | 682,434 |
| `reads` | `WindowRead`, `StoredRead` | who is waited for can answer, absences are proved, Loading is worked on, `ReadContract`, every read ends | 199,675 |
| `feeds` | `FeedLoad`, `FeedSession`, `LocalSearch`, `PublicChat`, `WorkspaceSession`, `StorageUpkeep` | complete means covered, doubt means a read, no orphan read, one reader of Home, pages without a gap, newest metadata, moderation, rows accounted, stored workspaces usable, only closing loses tabs | 794,175 |
| `hosts` | `AccountHost`, `PanelHost`, `SqliteHost`, `StorageWorker` | a lone command repairs, a tab at rest shows what is stored, no late cancel, the lock follows the worker, the follow button is freed | 686,989 |
| `rust_relays` | `RelayEffects`, `LeaseRuntime`, `FeedScan`, `ResizeAnchor`, `RoutedReads` | no frame stranded, visible runtimes served, windows accounted, the reading line kept, shared reads are one's own, caps fit, waiting rewarded | 790,931 |
| `fallback_overwrites` | `WorkspaceSession` | finding 1 | |
| `open_race` | `SqliteHost` | finding 2 | |
| `lease_leak` | `LeaseRuntime` | finding 3 | |
| `search_ends_early` | `LocalSearch` | finding 4 | |
| `ledger_shared` | `StorageUpkeep` | finding 5 | |

### 3.1 Why the bounds are enough

* `limiter`: three reads over three relays with one slot each (the shipped
  value of `maxConcurrentReadPagesPerRelay`) is the smallest instance where a
  cycle of three waits could close, and where a released slot has a waiter with
  another one behind it. The proofs cover every other instance.
* `relays`: of three owners one may leave, one be hidden and one visible on the
  same lease; two demands let one call touch leases of both kinds (proved for
  every instance). Two sockets let an old one report while a new one is in use;
  one live and one paged id are the kinds the code tells apart, and with one
  place at the relay each start of one is caused by the end of the other.
* `pool`: two attempts are one that a close orphaned and the one after it; of
  three calls one awaits an attempt, one is canceled in the worker and one makes
  the worker await. Two events at two relays are two waiters of one event and
  two events of one relay. Two callers join or race on two keys that use one
  base id. `MaxSeq`, `MaxLeaks`, `MaxSubs` and `MaxFrames` stop counters.
* `reads`: of two relays one answers while the other fails, closes or is silent;
  a window of three fills only after both gave, a page of two fills with one;
  of two stored events one waits for its row while the other is loaded or shown.
* `feeds`: a session of two mounts is the old one and its successor; loads see
  every table over eight rows that overlap, touch, leave gaps, are unclean or of
  another relay; six posts contain two of one second, one undisplayed, one with
  a repeated token; the chat has two metadata events of one second and a message
  that tags two channels; two page loads with three commands include a start
  from a row that was left in the middle; the store has one resource of each
  kind, and two writes beside a plan make the plan stale.
* `hosts`: two commands are the smallest overlap, and one fault hits any call of
  either; tables start damaged, as earlier races leave them. Three calls share
  an opening, retry it and join the retry. Two pages compete for the lock.
* `rust_relays`: two registrations are an old generation and its successor, two
  frames over a queue of one fill it; five views of which two come to share a
  wire; a window of five seconds with a dense one; three rows are one above, at
  and below the line; two relays of which one limits what it serves.

### 3.2 Fairness

Only what the browser or the code guarantees is assumed, and only where a
liveness property needs it.

* `ReadLimiter`: a resolved or rejected promise runs its continuation
  (`Continue`, `Fail`), and a page read ends, because `executeReadPage` sets a
  timer and releases in its `finally` (`Release`). Nothing is assumed of new
  reads, aborts and the close.
* `SqliteKernel`: the lock manager decides every request, the lookup gives up by
  its own timer, the timers of the open and of each request fire. Nothing is
  assumed of the worker, which may hang, and nothing of other browser tabs.
* `PageReads`: the limiter decides (`EveryAcquireSettles`), the timer of the
  read fires, continuations run. Nothing is assumed of relays.
* `WindowRead`, `StoredRead`: the timer of a read fires, the geometry of its rows
  is loaded or fails, and its tasks go on, because the calls of the store have
  timeouts. Nothing is assumed of relays.
* `AccountHost`: the calls of a command end and the eight seconds of each relay
  of a publish run out. Nothing is assumed of relays and of the extension.

The fairness stated in `RelayClient`, `FeedSession`, `SqliteHost` and
`StorageWorker` is what their environments guarantee; no property of the runs
depends on it.

Deadlock is checked in `ledger_shared`, where something can always happen.
Elsewhere a read, a search, a closed component or a counted set of commands has
no step left in the end, which the configurations say.

### 3.3 Findings

Each is a run that stops at a counterexample; `PROJECT.json` quotes the sentence
of the documentation that the code does not keep.

1. `fallback_overwrites`: a page whose storage could not be read starts on a
   fallback workspace with the same persistence, and its first command saves
   the fallback over the stored workspace (`host_providers.rs:126`).
2. `open_race`: the second of two calls that waited for one failed opening
   removes whatever is registered, the retry of the first included
   (`registry.rs:53`); the next call opens a second store beside it.
3. `lease_leak`: a hidden runtime that attaches its own demand again keeps the
   wire without a visible owner (`demand/registry.rs:82`).
4. `search_ends_early`: undisplayed kinds are dropped after the page is cut, and
   only the newest rows of each token are intersected, so a search may end while
   older events match (`search_feed_cache.rs:61`, `search.rs:81`).
5. `ledger_shared`: the information and the summary of a relay have one ledger
   row between them (`diagnostics.rs:50`).

The passing runs and the proofs are about the same modules: with these
behaviours in them.

### 3.4 Known deviations without a run

Read in the code and kept in the models (unless said otherwise), but not stated
as properties. TypeScript:

* An owner that attaches while hidden has no lease record, so showing its tab
  opens nothing (`orchestrator-live.ts`). Home attaches its `follows` demand again
  while it is registered and keeps neither handle (`timeline-runtime-start.ts:86`,
  `timeline-runtime-network.ts:87`, `:117`): each attach adds a listener, and since
  only its handle removes one (`orchestrator-live.ts:110`), the listeners of a
  closed Home stay on a lease that other tabs share. Home reads the visibility for
  its notes before an `await` and attaches after it
  (`timeline-runtime-network-notes.ts:102`, `orchestrator.ts:74`), so the demand may be registered as
  visible after the tab was hidden, or after it was closed. When two starts
  overlap, the second replaces the first one's handle, whose release drops the
  registration the second has just made (`live-demand-handles.ts`), and Home may be
  without a wire. `timeoutConnect` and `onclose` notify
  listeners before they schedule the reconnect, so that a socket may be
  forgotten and survive `close()` (`relay-client.ts`). The resend of pending
  publishes runs before the send queue is drained, so an event may be sent twice
  (`relay-pool.ts`). `onState` calls its handler before `executeReadPage` has
  the handles that completion closes, so a read that completes at once leaks its
  subscription. A close during an undecided lock request leaves the attempt
  running, and the next call is told that another tab is busy
  (`kernel-client.ts`).
* A REQ that is queued before the connection opens stays in the send queue when
  its subscription is closed (`relay-client.ts:191`), and is sent on open
  (`:181`). An EOSE that arrives after the cleanup of its subscription puts the
  id back into `eoseBySub` (`:131`). A CLOSED with an empty reason counts as none
  (`protocol/messages.ts:51`), so the client sends a CLOSE after it.
* In temporary-memory mode a crash empties the database while the map of applied
  schemas still promises its tables (`kernel-client.ts:46`, `:54`; the map is not
  in the model). The worker keeps the ids of cancel messages that come after
  their request ran, until it closes (`sqlite-opfs-worker.js:34`); the close
  forgets them all, so an estimate that was canceled behind a close still runs,
  and changes nothing. `owner-lifecycle.md:58` says that a `messageerror` marks
  the client closed; `client.ts` handles `onerror` only.

Rust, reads and feeds:

* A late event after EOSE re-opens a relay on every surface but Home; an
  incomplete read with rows shows TerminalWithRows on search, author and profile
  (`docs/product/feeds/progressive-relay-rendering.md` says otherwise).
* Followees whose follow list cannot be read from the store say PartialFailure
  and ask no relay (`followees_host.rs:117-125`): the failed read does suppress
  the relay read there, and `ReadUnlessProved` exempts exactly that case. On the
  surfaces without session defaults a failed read of the settings leaves no relay
  to ask. The relay reads of followees and timeline look for the follow list only.
* A store failure in followees and timeline leaves Loading shown without a read;
  followees without relays and routes show Loading and never read; a profile
  that is complete and empty shows that it reads older rows and does not; a
  timeline task may overwrite the final view with older outcomes
  (`user_timeline_relay_read.rs:127`).
* Home, Global and Profile take a failed read of their events, with a complete
  cache, for an empty complete feed. A failed read of the settings is shown as
  having no relay on followees, author, custom and thread.
* Older pages of Global, Notifications and Thread and their running read
  overwrite each other's remembered window; the release of an old mount forgets
  the new mount's base on keyed surfaces; every scroll that asks for an older
  page cancels the one before it; cursors move to the merged oldest row even if
  the page was incomplete, and `until = oldest - 1` skips a second.
* Retention deletes events and leaves their coverage
  (`docs/architecture/data/storage/retention/deletion.md:42` says otherwise).
* The follow read takes the first list it gets. `FeedLoad` and `FeedCoverage`:
  no Rust host writes coverage yet.

Rust, accounts and panels:

* Removing an account races adding it: a local account without its secret may
  remain, a failed deletion leaves the secret. A settings import clears the
  active account. Adding a read-only account over a local one of the same key
  replaces the row and leaves the secret. A revealed secret stays in the map of
  the tab after the account is removed.
* The toggle publishes a list with only the target when the store has no list;
  of two toggles one update is lost; the content of a list is dropped; a
  publish that timed out may have been accepted and is not stored.
* Commands on relay sets lose concurrent updates and are not atomic; a seed that
  was broken off after the user's set never seeds discovery; any result
  overwrites a server that was typed and not saved; a late read of the draft
  hides what was typed.

Rust, stores and relays:

* The replacement of a closed store does not ask the cooldown.
* Registering an owner again makes the old generation's close effects vanish; an
  error followed by a close counts two attempts; a message that is not text sets
  the state to error while the socket stays open; with an empty queue no
  reconnect is scheduled. Live demands without a `since` share a wire only when
  they attach in one second.
* The scan model prior to a read is looked up by its scope only
  (`hint_update.rs:69`); the web bridge relabels any hint with the plan's context
  and passes no gaps.
* A score clamped at zero swallows the credit for waiting of a very bad relay
  (`docs/architecture/network/relay-optimizer/relay-read-scoring.md:78`); authors
  without routes count against the cap on groups; the fallback group asks the
  first 50 authors; exact lookups of several filters may be cut at the page; the
  abort of one owner aborts for all.
* The reading position jumps when the reader scrolls up while a row grows
  (`feed_resize_anchor_batch.rs:126`), and a scroll while a suppressed top is
  pending leaves it stuck (`:58`). A row above the line that grows until it ends
  exactly at `scrollTop` is not made up for: `feed_resize_anchor.rs:114` compares
  the new bottom, although the row was above the line before, and the line moves
  by what the row grew
  (`docs/architecture/data/feed-surface/height-reservation.md:45-48` says
  otherwise). `GrowthKeepsReading` leaves these out: it is about a reader who
  scrolls down, never while a suppressed top is pending, and rows that grow one at
  a time, none of which has come to end exactly at `scrollTop` since he last
  scrolled.

Rust, page and upkeep:

* Tab ids start again after a reload (`state.rs:163`), so an opened tab may take
  the id of a stored one; an unfocused pane shows its first tab; a split always
  wraps the leaf; an invalid record recovers to Welcome, where
  `workspace-layout-tree.md:32` says one timeline pane; a closed tab keeps its
  durable row.
* Backfill accepts only targets whose resource is missing
  (`repair/backfill.rs:78`, against `retention/repair.md:18`) and loses the
  protection of a job that became active; candidates are cut before protections
  are applied, so that a plan may find nothing although rows could go; bytes of
  rows that are already gone are counted; the probe's cursor repeats with
  duplicate ids.
* Messages tagged with two channels and late messages of another channel enter
  the list; metadata that comes before its channel is lost; nobody checks the
  author of metadata, hides and mutes; the publish result of one event settles
  the state of another; hides of a former account stay after a switch.

## 4. The proofs

Every statement below holds for every value of the constants, under these
assumptions: `Readers` is finite, `RelayCount` and `Max` are positive
(`ReadLimiter`); the bounds of `SqliteKernel` are naturals with at least one
attempt and `Estimates` are calls; a window has room and a page a size
(`WindowRead`); no page is called "nobody" (`StorageWorker`); the present and a
span are positive and steps a natural (`FeedCoverage`); the surfaces are the
ten of the code, the session defaults are relays and not none, the rows of
coverage and the events have their types (`FeedLoad`); mounts and older pages
are bounded by naturals (`FeedSession`); a resource is a kind and an id
(`StorageUpkeep`); seconds and spans are naturals, the factor of a change is at
least one, and "elsewhere" is the relay of no context (`FeedScan`); the events
are finitely many, ordered by whole seconds and by ids of their own, and the
limits naturals (`LocalSearch`); keys are finitely many, pages are drawn for
some of them, and the rows a command finds were stamped before (`AccountHost`);
no socket has the name of none, and the cap of pending REQs is positive
(`RelayClient`); the surfaces of a read through the store are the three of the
code (`StoredRead`); ids and times of events are positive and an id, being a
hash, names one event (`PublicChat`); the relays are finitely many numbers, every url
that is not broken names one of them, limits and seconds are optional naturals
(`RoutedReads`); rows have ids of their own, and the view a height (`ResizeAnchor`);
there is a startup tab, and no kind is listed twice (`TabWorkspace`).
`LiveLease`, `LeaseRuntime`, `RelayEffects`, `PoolPublish`,
`SqliteHost` and `PanelHost` assume nothing of their constants. `StepsAssumption` of
`FeedCoverage` says that the cap on the scan never cuts it short in an instance;
no proof uses it.

**`ReadLimiterProofs`.** `TypeOK` is not inductive: that a count never exceeds
`Max` and never falls below zero needs to know who owns the slots. The inductive
invariant `IInv` has six parts: `Shape` (types); `TargetInOrder` (a call asks
for the smallest relay it has not acquired: the sorted order); `QueuesMatchWaiters`
(a queue holds the suspended calls of its relay, once each); `SlotAccounting`
(a count is the number of owners); `Bounded`; `NoLostWakeup`. Each action
preserves it, by way of one lemma for `AcquireOne` and one for `ReleaseAll`;
the counting is in lemmas on how the set of holders changes. From it:

* `TypeCorrect`, `SlotsAccounted`, `WakeupsKept`: the three invariants.
* `DeadlockFree`: `NoCircularWait`. In a set of queued reads take one whose
  target is the largest; its relay is full, every owner of a slot there has its
  own target above, so it is not in the set.

* `LimiterImplementsAdmission`: the limiter implements `ReadAdmission` under
  the mapping `Stage`. `IInv` is strengthened by `CallsKnowTheirSlots` (a call
  that holds owns a slot at every relay it asked for; a rejected one was
  aborted). The step that matters is the last `Continue`: the call owns one of
  at most `Max` slots at each of its relays, all admitted calls own another
  one, so there is room for it (`RoomForLast`). The other steps of the loop are
  stutters.

**`LiveLeaseProofs`.** `WiresAreVisible`, `NothingOutlivesItsOwner` (no record
without a registered owner; listeners are not in the model) and
`StreamsAreNotCut`. `WireOnlyWhileVisible` and `LeaseHasOwner` are inductive
together with the types, with the fact that wires belong to records, and with
`Current`: a registered visibility is the one the tab last set.

Of `RelayClient`: `SubscriptionsAreServed`, no active subscription worth
restoring is stranded. `ClientInv` adds to the types what the handlers rely on:
`InUse` (the socket in use was opened, and the client takes it for open when it
is, except while the error handler runs), `FirstOpens` (before the first
connection all that is active is queued and no socket is open), `Places` (an
id is pending once, and not while it is known) and `AllServed`, which holds
between handlers and while continuations run, but not while `onclose` and
`onerror` are suspended in their listeners. `Places` is why the frames of one
handler do not undo each other: the CLOSE of a known id and the REQ of a pending
one that takes its place are about different ids.

**`PoolKernelProofs`.** Of `SqliteKernel`: `LockFollowsWorker` and `OneWriter`: a worker runs
exactly while the page holds the lock for it, is the one later calls reach, and
is the only one. `IInv` is `Shape`, `OwnerHoldsLock`, `ClientWasGranted` (the
client belongs to an attempt that was granted) and `NothingPendsOnTheDead`
(an attempt that does not run has nothing pending, so that no reply or timer
of it can reset the client of another one): the last is what makes an orphaned
attempt harmless.
`CanceledStaysCanceled` (`RevokedNeverRuns`) is about the queue of the worker:
a statement whose cancel message came before its turn never runs. `QInv` adds to
`IInv` what the queue holds: calls are numbered in order and sent once
(`SentOnce`, `WaitingAreUnsent`), a worker that does not run has no mail
(`IdleWorkers`), the open comes first (`OpenComesFirst`), and a revoked statement
in the queue is among the cancelled ids or, since a close forgets those, meets a
worker without a database and with no open to come (`RevokedIsBarred`). The
property exempts the estimate of the quota, which needs no database: see 3.4.
Of `PoolPublish`: `WorkIsCounted` (`ActiveCountsWork`). With the types and the
finiteness of the waiters it is inductive. A beginning adds one to the count and
to the work, and connects; an end takes one from both, and there is one to take,
because a settlement finds its waiter; eviction looks at a count that is right.

**`WindowReadProofs`.** `IInv` is the types, `AwaitedCanAnswer`, that a running
read is not cancelled, that a relay the reducer calls done really sent EOSE
(`EoseWasSent`) and that the view shown was made of such a snapshot
(`ViewsAreProved`): without the last two nothing ties what the reducer believes
to what happened. From it `NobodyWaitsInVain`, `NothingClaimedUnproved` and
`WindowReadKeepsContract`, the refinement of `ReadContract`: every handler of a
read that ended is a stutter.

Of `StoredRead`: `LoadingHasWork` and `StoredReadKeepsContract`. `StoredInv` is the
types, `StoredCanAnswer`, `TasksOfARead` (tasks belong to a read that began, and a
release stops it), `TasksWillShow` (while the store has not failed, a task that has
stored its row finds it, so the view it will deliver is not Loading),
`HeaderShows` and `SeenIsWorkedOn`: a read that saw an event ends without a word,
and it is this conjunct that knows the event's task has yet to speak or has spoken.
The contract needs that a handler finds the read running and that a task
delivers nothing after the release.

**`StorageHostProofs`.** Of `StorageWorker`: `LockIsTheWorkers` and
`OneWorkerAtATime`. A client has its lease exactly while its worker lives
(`LeaseOfTheLiving`), so that a second shutdown finds none and leaves the lock
to its new owner. Of `SqliteHost`: `CancelsAreNotLate`. Who joins an entry finds
one that no close has taken (`RegistryIsFresh`), so a call on a taken entry
began before the close that took it (`TakenLater`). Of `StorageUpkeep`:
`RowsKeepTheirLedgerRows` (`RowsStayAccounted`). Whatever names a row, be it in
the ledger, a plan or a list of repair, names a resource (`UpkeepTypes`); under
the id of a resource that no other kind uses there is then only its own ledger
row, so that an upsert replaces it by itself and a deletion takes both. Of
`AccountHost`: `LoneCommandsRepair` (`LoneCommandRepairs`). Nothing is assumed
of the tables a command finds; `Stage` says, call by call, what a command that is
alone and has not failed has done so far (`ReadyToList` when it comes to list the
accounts, `Repaired` when it has resolved them). A command that is alone is the
only one that runs (`AloneIsAlone`), so no other command's call can undo it; the
stamps of the rows are below the clock, so there is a newest one.

**`RelayRuntimeProofs`.** Of `LeaseRuntime`: `VisibleRuntimesAreServed`. A
runtime's one lease is the one it remembers (`LeaseIsLive`), and each visible
lease has its wire (`SeenIsOpen`); which demands share a wire does not matter.
Of `RelayEffects`: `FramesAreNotStranded`. Every reduction of the live client
leaves it served by the timers it arms and clears (`Served`: an attempt has its
deadline, an open client has no queue, frames wait for an attempt or a
reconnect); a final close is the exception and closes the owner's slot. A
generation is unused until it is registered (`NewUntilRegistered`), so that a
replaced owner's socket and timers disturb no later one. Of `RoutedReads`:
`SharedReadsAreOwn`. The key of a read tells what it asks (`AnsweredBy`): equal
keys stand for equal plans, bounds, pages and purposes, and a joined owner keeps
a flight of its key until that settles. `RequestsFit` is about sums over relays.
The library's sum is a recursive function; that it exists (`SumsExist`), takes its
elements in any order (`SumTakesAny`) and grows with them (`SumGrows`) is shown by
an induction whose hypothesis is a set of subsets (`UpToEverySubset`), which needs
no operator as a parameter. Either a relay's budget is the whole cap, or each
budget covers what its filters ask (`BudgetCoversItsFilters`). `WaitingPays`: the
comparison is a strict order whatever the rows hold (`PrecedesIsOrder`), since
hosts differ, so a relay that precedes another has a place of its own before it
(`OrderedPlaces`); longer waiting raises the score by more than rounding takes
away (`WaitingRaisesTheScore`). Of `FeedScan`: `WindowsAreAccounted`.
Halves partition the segment they come from (`HalvesPartition`), and the parts
left to read are disjoint from each other and from what is done (`Accounted`);
that gaps handed over do not overlap is `GapsAreApart`. The halving is integer
arithmetic, so the models must remember whole seconds (`ModelsMeasure`). Of
`ResizeAnchor`: `ReadingIsKept`, for any list of rows, any heights and any view.
While the history is calm, the reader's line is at the top and recorded
(`Settled`), at the top with the scroll event to come (`Moved`), or waits for the
one timer that restores it (`Restoring`); an unread list is at its beginning, and
`ReaderInv` says that no other state occurs. A row that grows to end exactly at
the scroll position moves nothing, so from then on, until the next scroll
(`missed`), the invariant keeps the same shape around another line (`Adrift`,
`Following`) and claims nothing of the reader's. The heights add up by the lemmas on
sums (`TopsAdd`), and what rows moved by rises from row to row (`GapsWiden`), so
the list still reaches below the line. The batch of a frame is a fold; it is
unfolded to one observer after the other (`BatchGoesDown`). The first row that
grew above the line moves the view to it, every later one finds it there, and
rows at the line or below compare as being below (`ObserverFollows`).

**`FeedProofs`.** `ReadsAreHeld` (`NoOrphanRead`) and `HomeHasOneReader`
(`HomeOwnerHasOneReader`). Three parts tie what runs to what is mounted: a read
that runs belongs to a lease that is held and is the one in the slot that lease
would cancel (`RunsHeld`); a lease is that of a mount or of the older page its
loader remembers (`HeldByMounts`, `MountsHold`); a remembered window belongs to
a mount (`BaseOfMounted`). `OwnerInv` is about Home, whose reads remember their
window by owner: the entry of the owner is that of the last mount, it is busy
while a read runs or the model is still to come, and a read that runs is of the
mount that the entry names. All reads of a Home mount share a slot, so there is
at most one. No bound on mounts, rows or pages is needed. Of `LocalSearch`:
`SearchLeavesNoGap`. What a token query returns is unbroken
(`RowsAreUnbroken`: newer rows are counted, so an event that is newer than one
returned is returned), and so are intersections and the newest of a set
(`NewestIsUnbroken`). While a page is made, a steady match is among the events
found or older than all of them (`PageIsUnbroken`); the cursor is the oldest row
(`CursorIsOldest`), so what the page cuts off lies beyond it. Of `PublicChat`:
`ChannelsShowTheNewest` and `ModerationIsKept`. The lists are sorted after each
change, so the proof needs that sorting loses no row and invents none: in a
finite set with a total order every element has a place of its own and every
place is taken (`PlacesAreTaken`, by way of a least element that has too few
before it), hence `InPlace` permutes a list without twins. `ChatInv` adds to the
two properties that a channel keeps the time of the metadata it shows, that no
id is listed twice, and that metadata that met a channel finds it listed.

Of `FeedLoad`: the walk over the intervals of a relay's coverage and the
sparse scan are recursive functions; what they compute is proved without
induction over data, by looking at the least step at which the claim fails.
`CoversIsProved`: the walk answers yes exactly when every second of the range is
in a clean row of the relay. `ScanIsRight`: a history that the scan calls empty
is proved empty down to its first second, although each row may cover a part
only, and a range that it calls complete is proved. The load itself: a load
passes only the stages of its surface (`OnPath`), coverage that could not be
read leaves `Partial` (`FailureIsPartial`), and the source state is tied to the
coverage that was read (`SourceIsProved`). From it
`CompletenessIsProved` (a view that says complete has the proof),
`TroubleIsNoProof` (a load that has a relay to ask asks it unless the store proved
the read needless, held the follow list, or the custom request is invalid; the
one failed read that suppresses the relay read is that of the follow list on
followees, see 3.4)
and `LoadingIsNoPretence` (a view that says Loading has a read that works on it,
but for the cases 3.4 names).

**`WorkspaceProofs`.** A workspace is `Sound` when no repair would change it: its
panes have names and groups of their own, the groups are those the panes show,
each lists existing tabs, every one once and one of them active, every tab is
listed, and the focus is on a pane and a tab that are there. Each reducer makes
a sound workspace of a sound one: `OpenIsSound`, `FocusIsSound`,
`ConvertIsSound`, `SplitIsSound`, `MoveIsSound`, `EdgeIsSound`, `CloseIsSound`.
Under them are lemmas on the sequences: what a filter keeps (`FilteredEntries`; a
filter is a recursive function, unfolded by way of the least length that breaks
the claim), where an insertion puts the rest (`InsertedEntries`), and what the
operations do to groups (`LeftGroup`, `MovedTab`) and panes (`PaneSplit`,
`PaneInserted`, `PaneRemoved`). A close ends with a repair, so it needs
`RepairedIsSound`: whatever a close hands it comes back sound. `SpaceInv` says
that the page's workspace, the stored row and every save under way are sound;
with `SoundIsKept` a start leaves a stored row as it is (`NoStoredRowIsRepaired`).
Tab ids need not be fresh: an open that meets its own id replaces that tab, and
the workspace stays sound. `TabsGoByClosing`: each reducer but the close `Keeps`
the tabs, and a move takes the source's pane only when it showed nothing else
(`SourceIsLeft`).
`WorkspacesStaySound` states `Sound` itself.

### 4.1 Only model-checked

* Liveness (`WorkRuns`, `EveryReadEnds` and the other properties under fairness)
  and what needs `ENABLED`: out of the prover's reach.
* That every split of a reachable layout has more than one child is neither a
  property of a run nor proved: no reducer relies on it, and a proof has to
  carry the order of the splits of every chain through each operation.

### 4.2 What to prove next

Every invariant and action property of the passing runs has its theorem. Beyond
them: that a layout's chains of splits form one tree whose splits branch, and
the liveness properties, for which the prover would need `ENABLED`.

## 5. What the models leave out

* `ReadLimiter`: counters and diagnostics. `LiveLease`: paged demands, which
  register and release themselves; gauges; listeners and their event filters;
  Home's attach for its notes, whose visibility was read before an `await` (3.4).
* `RelayClient`: wire aliases, a bijection of ids; tombstones, which silence a
  diagnostic; the refusal of long ids, which no caller makes; the cap of 64 of
  the send queue; a limit that arrives later with NIP-11. `PoolPublish`: health
  rows; state and event handlers; the cap of the recorder's maps. The shipped
  program never closes its pool, but the pool offers the operation.
* `PageReads`: progressive snapshots, read scores, the request budget, NIP-11
  filters. The cap on events is the step `Ends`.
* `SqliteKernel`: the map of applied schemas, statements that SQLite refuses,
  browsers without Worker or Web Locks, announcements between tabs, the worker's
  own timeout reply. Lock requests are decided in their order; the release of a
  lock takes effect at once; the estimate of the quota is the only job besides
  the open that awaits a task of its own.
* `WindowRead`, `StoredRead`: order and text of rows, diagnostics. `FeedSession`:
  what a row shows; the relays of Home are selected; windows stay below their
  capacity. `FeedLoad`: geometry models, parsing, ranking; a custom request is
  valid or not and names no relays of its own.
* `PaneLayout` to `WorkspaceSession`: sizes, titles, times, pinned tabs; close,
  split and move have no caller yet and are taken as commands.
* `AccountHost`, `PanelHost`: key formats, labels, addresses, values; a fetch
  has no timeout. `SqliteHost`, `StorageWorker`: SQL, a failing `postMessage`.
* `RelayEffects`: the driver, which is not in the repository
  (`docs/architecture/rust-wasm/cutover/relay-wiring.md`). `LeaseRuntime`: the
  events a wire delivers. `FeedScan`: density arithmetic; the caller follows
  `relay-page-scan.ts`. `RoutedReads`: decay, NIP-65 age and merged evidence,
  which have no caller; components in ten-thousandths; planning and attaching
  are one step. `ResizeAnchor`: sub-pixels; users scroll and rows change after
  the first frame of a row.
* `StorageUpkeep`: byte sizes beyond what a plan needs, chunks of probes.
  `LocalSearch`: a text is a sequence of words. `PublicChat`: content, reply
  context, provenance, titles, account switches.

Whole components that are not modelled are listed in `PROJECT.json` with the
reason.

