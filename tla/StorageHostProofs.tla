------------------------- MODULE StorageHostProofs -------------------------
(***************************************************************************)
(* The storage of a page in the Rust hosts.  The registry of opened stores *)
(* (SqliteHost), proved for every set of calls and any number of closes    *)
(* and cooldowns; the owner lock of the worker clients (StorageWorker),    *)
(* proved for every set of pages and of requests; the ledger of the stored *)
(* rows (StorageUpkeep), proved for any resources, sizes, ranks and        *)
(* writes; the account commands (AccountHost), proved for every set of     *)
(* keys and targets, any tables to start from and any number of commands   *)
(* and failures; the tabs over the tables (PanelHost), proved for any      *)
(* number of commands and failures.  A page is not called "nobody", which  *)
(* is the lock's name for having no holder.                                *)
(***************************************************************************)
EXTENDS SqliteHost, StorageWorker, StorageUpkeep, AccountHost, PanelHost, SequenceTheorems,
        FiniteSetTheorems, WellFoundedInduction, TLAPS

-----------------------------------------------------------------------------
(* The registry *)

\* close_all has taken the entry out of the registry, or closed it already.
Taken(e) == e \in taken \/ entries[e].closed

Joined(t) == tasks[t].pc \in {"waiting", "again", "call"}

StoreShape ==
    /\ entries \in Seq(Entry) /\ registry \in Nat
    /\ taken \subseteq DOMAIN entries /\ closes \in Nat
    /\ tasks \in [Tasks -> [pc : {"idle", "busy", "waiting", "again", "call", "failed",
                                  "answered", "canceled"}, entry : Nat, saw : Nat]]
    /\ \A t \in Tasks : Joined(t) => tasks[t].entry \in DOMAIN entries
    /\ \A t \in Tasks : tasks[t].saw <= closes

\* Whoever joins finds an entry that no close_all has taken.
RegistryIsFresh == registry # NoEntry => registry \in DOMAIN entries /\ ~Taken(registry)

\* A call on an entry that is taken away under it began before the close.
TakenLater ==
    \A t \in Tasks : Joined(t) /\ Taken(tasks[t].entry) => closes > tasks[t].saw

CallsAreOpen == \A t \in Tasks : tasks[t].pc = "call" => entries[tasks[t].entry].at = "store"

StoreInv == StoreShape /\ RegistryIsFresh /\ TakenLater /\ CallsAreOpen /\ NoLateCancel

LEMMA GotoMoves ==
  ASSUME StoreShape, NEW t \in Tasks, NEW pc, NEW e, Goto(t, pc, e)
  PROVE  /\ DOMAIN tasks' = Tasks
         /\ tasks'[t].pc = pc /\ tasks'[t].entry = e
         /\ tasks'[t].saw = IF tasks[t].pc = "idle" THEN closes ELSE tasks[t].saw
         /\ tasks'[t] = [pc |-> pc, entry |-> e, saw |-> tasks'[t].saw]
         /\ \A u \in Tasks : u # t => tasks'[u] = tasks[u]
BY DEF StoreShape, Goto

\* A call moves on, to an entry nobody has taken if it has one, or with what
\* it had; nothing else changes but the registry.
LEMMA MoveStep ==
  ASSUME StoreInv, NEW t \in Tasks, NEW pc \in {"busy", "waiting", "again", "call", "failed",
                                            "answered", "canceled"},
         NEW e \in Nat, Goto(t, pc, e), UNCHANGED <<entries, taken, closes>>,
         registry' \in {registry, NoEntry},
         pc \in {"waiting", "again", "call"} =>
             e \in DOMAIN entries /\ (~Taken(e) \/ (Joined(t) /\ e = tasks[t].entry)),
         pc = "call" => entries[e].at = "store",
         pc = "canceled" => closes > tasks[t].saw /\ tasks[t].pc # "idle"
  PROVE  StoreInv'
<1>1. /\ DOMAIN tasks' = Tasks
      /\ tasks'[t].pc = pc /\ tasks'[t].entry = e
      /\ tasks'[t].saw = IF tasks[t].pc = "idle" THEN closes ELSE tasks[t].saw
      /\ tasks'[t] = [pc |-> pc, entry |-> e, saw |-> tasks'[t].saw]
      /\ \A u \in Tasks : u # t => tasks'[u] = tasks[u]
  BY GotoMoves DEF StoreInv
<1>2. /\ tasks[t].saw \in Nat /\ tasks[t].saw <= closes /\ closes \in Nat
      /\ tasks'[t].saw \in Nat /\ tasks'[t].saw <= closes
  BY <1>1 DEF StoreInv, StoreShape
<1>3. StoreShape'
  <2>1. tasks' \in [Tasks -> [pc : {"idle", "busy", "waiting", "again", "call", "failed",
                                    "answered", "canceled"}, entry : Nat, saw : Nat]]
    <3> SUFFICES ASSUME NEW u \in Tasks
                 PROVE  tasks'[u] \in [pc : {"idle", "busy", "waiting", "again", "call", "failed",
                                             "answered", "canceled"}, entry : Nat, saw : Nat]
      BY <1>1 DEF StoreInv, StoreShape, Goto
    <3>1. CASE u = t
      BY <1>1, <1>2, <3>1
    <3>2. CASE u # t
      BY <1>1, <3>2 DEF StoreInv, StoreShape
    <3> QED BY <3>1, <3>2
  <2>2. \A u \in Tasks : Joined(u)' => tasks'[u].entry \in DOMAIN entries
    BY <1>1 DEF StoreInv, StoreShape, Joined
  <2>3. \A u \in Tasks : tasks'[u].saw <= closes
    BY <1>1, <1>2 DEF StoreInv, StoreShape
  <2>4. registry' \in Nat
    BY DEF StoreInv, StoreShape, NoEntry
  <2> QED BY <2>1, <2>2, <2>3, <2>4 DEF StoreInv, StoreShape
<1>4. RegistryIsFresh'
  BY DEF StoreInv, RegistryIsFresh, Taken
<1>5. TakenLater'
  <2> SUFFICES ASSUME NEW u \in Tasks, Joined(u)', Taken(tasks'[u].entry)
               PROVE  closes > tasks'[u].saw
    BY DEF TakenLater, Taken
  <2>1. CASE u = t
    <3>1. Joined(t) /\ e = tasks[t].entry /\ Taken(tasks[t].entry)
      BY <1>1, <2>1 DEF Joined
    <3> QED BY <1>1, <2>1, <3>1 DEF StoreInv, TakenLater, Joined
  <2>2. CASE u # t
    BY <1>1, <2>2 DEF StoreInv, TakenLater, Joined
  <2> QED BY <2>1, <2>2
<1>6. CallsAreOpen'
  BY <1>1 DEF StoreInv, CallsAreOpen
<1>7. NoLateCancel'
  BY <1>1 DEF StoreInv, NoLateCancel
<1> QED BY <1>3, <1>4, <1>5, <1>6, <1>7 DEF StoreInv

\* A call that opens the database anew has an entry of its own.
LEMMA CreateStep ==
  ASSUME StoreInv, NEW t \in Tasks, NEW pc \in {"waiting", "again"}, Create(t, pc),
         UNCHANGED <<taken, closes>>
  PROVE  StoreInv'
<1> DEFINE n == Len(entries) + 1
<1>1. /\ registry' = n /\ Goto(t, pc, n)
      /\ entries' \in Seq(Entry) /\ Len(entries') = n
      /\ \A e \in DOMAIN entries : entries'[e] = entries[e]
      /\ ~entries'[n].closed
  BY DEF Create, LastEntry, StoreInv, StoreShape, Entry
<1>2. /\ n \in Nat /\ n # NoEntry /\ n \in DOMAIN entries' /\ n \notin taken
      /\ DOMAIN entries \subseteq DOMAIN entries'
  BY <1>1 DEF StoreInv, StoreShape, NoEntry
<1> HIDE DEF n
<1>3. /\ DOMAIN tasks' = Tasks
      /\ tasks'[t].pc = pc /\ tasks'[t].entry = n
      /\ tasks'[t].saw = IF tasks[t].pc = "idle" THEN closes ELSE tasks[t].saw
      /\ tasks'[t] = [pc |-> pc, entry |-> n, saw |-> tasks'[t].saw]
      /\ \A u \in Tasks : u # t => tasks'[u] = tasks[u]
  BY <1>1, GotoMoves DEF StoreInv
<1>4. tasks'[t].saw \in Nat /\ tasks'[t].saw <= closes
  BY <1>3 DEF StoreInv, StoreShape
<1>5. StoreShape'
  <2>1. tasks' \in [Tasks -> [pc : {"idle", "busy", "waiting", "again", "call", "failed",
                                    "answered", "canceled"}, entry : Nat, saw : Nat]]
    <3> SUFFICES ASSUME NEW u \in Tasks
                 PROVE  tasks'[u] \in [pc : {"idle", "busy", "waiting", "again", "call", "failed",
                                             "answered", "canceled"}, entry : Nat, saw : Nat]
      BY <1>1 DEF StoreInv, StoreShape, Goto
    <3>1. CASE u = t
      BY <1>2, <1>3, <1>4, <3>1
    <3>2. CASE u # t
      BY <1>3, <3>2 DEF StoreInv, StoreShape
    <3> QED BY <3>1, <3>2
  <2>2. \A u \in Tasks : Joined(u)' => tasks'[u].entry \in DOMAIN entries'
    BY <1>2, <1>3 DEF StoreInv, StoreShape, Joined
  <2>3. \A u \in Tasks : tasks'[u].saw <= closes
    BY <1>3, <1>4 DEF StoreInv, StoreShape
  <2> QED BY <1>1, <1>2, <2>1, <2>2, <2>3 DEF StoreInv, StoreShape
<1>6. RegistryIsFresh'
  BY <1>1, <1>2 DEF RegistryIsFresh, Taken
<1>7. TakenLater'
  <2> SUFFICES ASSUME NEW u \in Tasks, Joined(u)', Taken(tasks[u].entry)'
               PROVE  closes > tasks'[u].saw
    BY DEF TakenLater
  <2>1. u # t
    BY <1>1, <1>2, <1>3 DEF Taken
  <2>2. Joined(u) /\ tasks'[u] = tasks[u] /\ tasks[u].entry \in DOMAIN entries
    BY <1>3, <2>1 DEF StoreInv, StoreShape, Joined
  <2>3. Taken(tasks[u].entry)
    BY <1>1, <2>2 DEF Taken
  <2> QED BY <2>2, <2>3 DEF StoreInv, TakenLater
<1>8. CallsAreOpen'
  <2> SUFFICES ASSUME NEW u \in Tasks, tasks'[u].pc = "call"
               PROVE  entries'[tasks'[u].entry].at = "store"
    BY DEF CallsAreOpen
  <2>1. u # t /\ tasks'[u] = tasks[u]
    BY <1>3
  <2>2. tasks[u].entry \in DOMAIN entries
    BY <2>1 DEF StoreInv, StoreShape, Joined
  <2> QED BY <1>1, <2>1, <2>2 DEF StoreInv, CallsAreOpen
<1>9. NoLateCancel'
  BY <1>3 DEF StoreInv, NoLateCancel
<1> QED BY <1>5, <1>6, <1>7, <1>8, <1>9 DEF StoreInv

LEMMA BeginStep ==
  ASSUME StoreInv, NEW t \in Tasks, Begin(t)
  PROVE  StoreInv'
<1>1. CASE cooldown
  <2>1. Goto(t, "busy", NoEntry) /\ UNCHANGED <<registry, entries, taken, closes>>
    BY <1>1 DEF Begin
  <2> QED BY <2>1, MoveStep DEF NoEntry
<1>2. CASE ~cooldown /\ registry # NoEntry
  <2>1. Goto(t, "waiting", registry) /\ UNCHANGED <<registry, entries, taken, closes>>
    BY <1>2 DEF Begin, SharedEntry
  <2>2. registry \in Nat /\ registry \in DOMAIN entries /\ ~Taken(registry)
    BY <1>2 DEF StoreInv, StoreShape, RegistryIsFresh
  <2> QED BY <2>1, <2>2, MoveStep
<1>3. CASE ~cooldown /\ registry = NoEntry
  <2>1. Create(t, "waiting") /\ UNCHANGED <<taken, closes>>
    BY <1>3 DEF Begin, SharedEntry
  <2> QED BY <2>1, CreateStep
<1> QED BY <1>1, <1>2, <1>3

LEMMA ReplaceStep ==
  ASSUME StoreInv, NEW t \in Tasks, Replace(t)
  PROVE  StoreInv'
<1>1. Create(t, "again") /\ UNCHANGED <<taken, closes>>
  BY DEF Replace, SharedEntry
<1> QED BY <1>1, CreateStep

LEMMA GiveStep ==
  ASSUME StoreInv, NEW t \in Tasks, Give(t)
  PROVE  StoreInv'
<1> DEFINE e == tasks[t].entry
<1>1. /\ Joined(t) /\ UNCHANGED <<entries, taken, closes>>
      /\ \/ /\ Goto(t, "call", e) /\ registry' = registry /\ entries[e].at = "store"
         \/ Goto(t, "failed", NoEntry) /\ registry' = NoEntry
  BY DEF Give, Waits, Joined
<1>2. e \in Nat /\ e \in DOMAIN entries
  BY <1>1 DEF StoreInv, StoreShape
<1> HIDE DEF e
<1>3. e = tasks[t].entry
  BY DEF e
<1>4. CASE Goto(t, "call", e) /\ registry' = registry /\ entries[e].at = "store"
  BY <1>1, <1>2, <1>3, <1>4, MoveStep
<1>5. CASE Goto(t, "failed", NoEntry) /\ registry' = NoEntry
  BY <1>1, <1>5, MoveStep DEF NoEntry
<1> QED BY <1>1, <1>4, <1>5

\* The store of a call is open, or was taken away under it.
LEMMA CallStep ==
  ASSUME StoreInv, NEW t \in Tasks, Call(t)
  PROVE  StoreInv'
<1> DEFINE pc == IF Open(tasks[t].entry) THEN "answered" ELSE "canceled"
<1>1. /\ tasks[t].pc = "call" /\ Goto(t, pc, NoEntry)
      /\ UNCHANGED <<registry, entries, taken, closes>>
  BY DEF Call
<1>2. Joined(t) /\ entries[tasks[t].entry].at = "store"
  BY <1>1 DEF StoreInv, CallsAreOpen, Joined
<1>3. pc = "canceled" => closes > tasks[t].saw
  BY <1>2 DEF StoreInv, TakenLater, Taken, Open
<1>4. pc \in {"answered", "canceled"}
  OBVIOUS
<1> HIDE DEF pc
<1> QED BY <1>1, <1>3, <1>4, MoveStep DEF NoEntry

\* An answer of the broker settles an opening and closes none.
LEMMA AnswerStep ==
  ASSUME StoreInv, NEW e, OpenAnswers(e) \/ SchemaAnswers(e)
  PROVE  StoreInv'
<1>1. PICK a \in {"schema", "failed", "held", "store"} : entries' = [entries EXCEPT ![e].at = a]
  BY DEF OpenAnswers, SchemaAnswers
<1>2. /\ e \in DOMAIN entries /\ entries[e].at # "store"
      /\ UNCHANGED <<registry, tasks, taken, closes>>
  BY DEF OpenAnswers, SchemaAnswers
<1>3. entries' \in Seq(Entry) /\ DOMAIN entries' = DOMAIN entries
  <2>1. entries[e] \in Entry /\ entries \in Seq(Entry)
    BY <1>2 DEF StoreInv, StoreShape
  <2> DEFINE answered == [entries[e] EXCEPT !.at = a]
  <2>2. answered \in Entry
    BY <2>1, <1>1, <1>2 DEF Entry
  <2>3. entries' = [entries EXCEPT ![e] = answered]
    BY <1>1
  <2> HIDE DEF answered
  <2> QED BY <1>2, <2>1, <2>2, <2>3
<1>4. /\ \A x \in DOMAIN entries : entries'[x].closed = entries[x].closed
      /\ \A x \in DOMAIN entries : entries[x].at = "store" => entries'[x].at = "store"
  BY <1>1, <1>2 DEF StoreInv, StoreShape, Entry
<1>5. StoreShape'
  BY <1>2, <1>3 DEF StoreInv, StoreShape, Joined
<1>6. RegistryIsFresh'
  BY <1>2, <1>3, <1>4 DEF StoreInv, RegistryIsFresh, Taken
<1>7. TakenLater'
  BY <1>2, <1>4 DEF StoreInv, StoreShape, TakenLater, Taken, Joined
<1>8. CallsAreOpen'
  BY <1>2, <1>4 DEF StoreInv, StoreShape, CallsAreOpen, Joined
<1>9. NoLateCancel'
  BY <1>2 DEF StoreInv, NoLateCancel
<1> QED BY <1>5, <1>6, <1>7, <1>8, <1>9 DEF StoreInv

\* What is closed was taken before.
LEMMA CloseTakenStep ==
  ASSUME StoreInv, NEW e, CloseTaken(e)
  PROVE  StoreInv'
<1>1. /\ e \in taken /\ e \in DOMAIN entries
      /\ entries' = [entries EXCEPT ![e].closed = (entries[e].at = "store")]
      /\ taken' = taken \ {e} /\ UNCHANGED <<registry, tasks, closes>>
  BY DEF CloseTaken, StoreInv, StoreShape
<1>2. entries' \in Seq(Entry) /\ DOMAIN entries' = DOMAIN entries
  <2>1. entries[e] \in Entry /\ entries \in Seq(Entry)
    BY <1>1 DEF StoreInv, StoreShape
  <2> DEFINE shut == [entries[e] EXCEPT !.closed = (entries[e].at = "store")]
  <2>2. shut \in Entry
    BY <2>1 DEF Entry
  <2>3. entries' = [entries EXCEPT ![e] = shut]
    BY <1>1
  <2> HIDE DEF shut
  <2> QED BY <1>1, <2>1, <2>2, <2>3
<1>3. /\ \A x \in DOMAIN entries : entries'[x].at = entries[x].at
      /\ \A x \in DOMAIN entries : x \in taken' \/ entries'[x].closed => Taken(x)
  BY <1>1 DEF StoreInv, StoreShape, Entry, Taken
<1>4. StoreShape'
  BY <1>1, <1>2 DEF StoreInv, StoreShape, Joined
<1>5. RegistryIsFresh'
  <2>1. registry \in DOMAIN entries =>
           (registry \in taken' \/ entries'[registry].closed => Taken(registry))
    BY <1>3
  <2> QED BY <1>1, <1>2, <2>1 DEF StoreInv, RegistryIsFresh, Taken
<1>6. TakenLater'
  <2> SUFFICES ASSUME NEW u \in Tasks, Joined(u), Taken(tasks[u].entry)'
               PROVE  closes > tasks[u].saw
    BY <1>1 DEF TakenLater, Joined
  <2>1. tasks[u].entry \in DOMAIN entries
    BY DEF StoreInv, StoreShape
  <2>2. Taken(tasks[u].entry)
    BY <1>1, <1>3, <2>1 DEF Taken
  <2> QED BY <2>2 DEF StoreInv, TakenLater
<1>7. CallsAreOpen'
  BY <1>1, <1>3 DEF StoreInv, StoreShape, CallsAreOpen, Joined
<1>8. NoLateCancel'
  BY <1>1 DEF StoreInv, NoLateCancel
<1> QED BY <1>4, <1>5, <1>6, <1>7, <1>8 DEF StoreInv

\* Every call that is under way began before this close.
LEMMA CloseAllStep ==
  ASSUME StoreInv, CloseAll
  PROVE  StoreInv'
<1>1. /\ closes' = closes + 1 /\ registry' = NoEntry
      /\ taken' = taken \cup ({registry} \ {NoEntry})
      /\ UNCHANGED <<entries, tasks>>
  BY DEF CloseAll
<1>2. \A u \in Tasks : closes' > tasks[u].saw
  BY <1>1 DEF StoreInv, StoreShape
<1>3. taken' \subseteq DOMAIN entries
  BY <1>1 DEF StoreInv, StoreShape, RegistryIsFresh
<1>4. StoreShape'
  BY <1>1, <1>2, <1>3 DEF StoreInv, StoreShape, Joined, NoEntry
<1>5. RegistryIsFresh'
  BY <1>1 DEF RegistryIsFresh
<1>6. TakenLater' /\ NoLateCancel'
  BY <1>1, <1>2 DEF TakenLater, NoLateCancel
<1>7. CallsAreOpen'
  BY <1>1 DEF StoreInv, CallsAreOpen
<1> QED BY <1>4, <1>5, <1>6, <1>7 DEF StoreInv

\* No call is refused by a closed store unless the page closed its stores
\* after the call began, however many openings are under way and shared.
THEOREM CancelsAreNotLate == StoreSpec => []NoLateCancel
<1>1. StoreInit => StoreInv
  BY DEF StoreInit, StoreInv, StoreShape, RegistryIsFresh, TakenLater, CallsAreOpen, NoLateCancel,
         Joined, NoEntry
<1>2. StoreInv /\ [StoreNext]_storeVars => StoreInv'
  <2> SUFFICES ASSUME StoreInv, [StoreNext]_storeVars PROVE StoreInv'
    OBVIOUS
  <2>1. ASSUME NEW t \in Tasks, Begin(t) \/ Replace(t) \/ Give(t) \/ Call(t) PROVE StoreInv'
    BY <2>1, BeginStep, ReplaceStep, GiveStep, CallStep
  <2>2. ASSUME NEW e \in Opened, OpenAnswers(e) \/ SchemaAnswers(e) \/ CloseTaken(e) PROVE StoreInv'
    BY <2>2, AnswerStep, CloseTakenStep
  <2>3. CASE CloseAll
    BY <2>3, CloseAllStep
  <2>4. CASE CooldownEnds \/ UNCHANGED storeVars
    <3>1. UNCHANGED <<registry, entries, tasks, taken, closes>>
      BY <2>4 DEF CooldownEnds, storeVars
    <3> QED BY <3>1 DEF StoreInv, StoreShape, RegistryIsFresh, TakenLater, CallsAreOpen,
                        NoLateCancel, Joined, Taken
  <2> QED BY <2>1, <2>2, <2>3, <2>4 DEF StoreNext
<1>3. StoreInv => NoLateCancel
  BY DEF StoreInv
<1> QED BY <1>1, <1>2, <1>3, PTL DEF StoreSpec

-----------------------------------------------------------------------------
(* The owner lock *)

\* What Shutdown relies on: a client has its lease exactly while its worker
\* lives, so that a second shutdown finds none and leaves the lock alone.
LeaseOfTheLiving == \A c \in Clients : lease[c] <=> phase[c] = "live"

WorkerShape == /\ lock \in Clients \cup {Nobody}
         /\ phase \in [Clients -> {"none", "asking", "live", "closed", "gone"}]
         /\ lease \in [Clients -> BOOLEAN]

WorkerInv == WorkerShape /\ LeaseOfTheLiving /\ LockFollowsWorker

\* A client that ends, by an error, a close or with its page, gives the lock
\* back if it was its own, and takes it from nobody if it was not.
LEMMA EndStep ==
  ASSUME WorkerInv, Nobody \notin Clients, NEW c \in Clients,
         NEW p \in {"closed", "gone"}, phase' = [phase EXCEPT ![c] = p], Shutdown(c)
  PROVE  WorkerInv'
<1>1. /\ lease' = [lease EXCEPT ![c] = FALSE]
      /\ lock' = IF lease[c] THEN Nobody ELSE lock
  BY DEF Shutdown
<1>2. WorkerShape'
  BY <1>1 DEF WorkerInv, WorkerShape
<1>3. LeaseOfTheLiving'
  <2> SUFFICES ASSUME NEW d \in Clients PROVE lease'[d] <=> phase'[d] = "live"
    BY DEF LeaseOfTheLiving
  <2> QED BY <1>1 DEF WorkerInv, WorkerShape, LeaseOfTheLiving
<1>4. LockFollowsWorker'
  <2> SUFFICES ASSUME NEW d \in Clients PROVE lock' = d <=> phase'[d] = "live"
    BY DEF LockFollowsWorker
  <2>1. CASE d = c
    BY <1>1, <2>1 DEF WorkerInv, WorkerShape, LeaseOfTheLiving, LockFollowsWorker
  <2>2. CASE d # c
    BY <1>1, <2>2 DEF WorkerInv, WorkerShape, LeaseOfTheLiving, LockFollowsWorker
  <2> QED BY <2>1, <2>2
<1> QED BY <1>2, <1>3, <1>4 DEF WorkerInv

\* Only a free lock is granted.
LEMMA GrantStep ==
  ASSUME WorkerInv, Nobody \notin Clients, NEW c \in Clients, LockGranted(c)
  PROVE  WorkerInv'
<1>1. phase[c] = "asking" /\ lock = Nobody
  BY DEF LockGranted
<1>2. CASE /\ phase' = [phase EXCEPT ![c] = "live"]
           /\ lease' = [lease EXCEPT ![c] = TRUE] /\ lock' = c
  <2>1. WorkerShape'
    BY <1>2 DEF WorkerInv, WorkerShape
  <2>2. LeaseOfTheLiving'
    BY <1>2 DEF WorkerInv, WorkerShape, LeaseOfTheLiving
  <2>3. \A d \in Clients : phase[d] # "live"
    BY <1>1 DEF WorkerInv, LockFollowsWorker
  <2>4. LockFollowsWorker'
    BY <1>2, <2>3 DEF WorkerInv, WorkerShape, LockFollowsWorker
  <2> QED BY <2>1, <2>2, <2>4 DEF WorkerInv
<1>3. CASE phase' = [phase EXCEPT ![c] = "none"] /\ UNCHANGED <<lock, lease>>
  BY <1>1, <1>3 DEF WorkerInv, WorkerShape, LeaseOfTheLiving, LockFollowsWorker
<1> QED BY <1>2, <1>3 DEF LockGranted

\* Asking for the lock, and being refused, touch neither lock nor worker.
LEMMA AskStep ==
  ASSUME WorkerInv, NEW c \in Clients, Construct(c) \/ LockRefused(c)
  PROVE  WorkerInv'
<1>1. PICK p \in {"none", "asking"} : phase' = [phase EXCEPT ![c] = p]
  BY DEF Construct, LockRefused
<1>2. phase[c] \in {"none", "asking"} /\ UNCHANGED <<lock, lease>>
  BY DEF Construct, LockRefused
<1> QED BY <1>1, <1>2 DEF WorkerInv, WorkerShape, LeaseOfTheLiving, LockFollowsWorker

\* No message, timer or cancellation touches them.
LEMMA MessageStep ==
  ASSUME WorkerInv, NEW c \in Clients, NEW r \in Ids,
         \/ Send(c, r) \/ Cancel(c, r) \/ WorkerRuns(c) \/ Answer(c, r) \/ Timeout(c, r)
  PROVE  WorkerInv'
<1>1. UNCHANGED <<lock, phase, lease>>
  BY DEF Send, Cancel, WorkerRuns, Answer, Timeout
<1> QED BY <1>1 DEF WorkerInv, WorkerShape, LeaseOfTheLiving, LockFollowsWorker

LEMMA WorkerInvIsInductive ==
  ASSUME Nobody \notin Clients, WorkerInv, [Next]_vars
  PROVE  WorkerInv'
<1>1. ASSUME NEW c \in Clients, Step(c) PROVE WorkerInv'
  <2>1. CASE Construct(c) \/ LockRefused(c)
    BY <2>1, AskStep
  <2>2. CASE LockGranted(c)
    BY <2>2, GrantStep
  <2>3. CASE WorkerRuns(c)
    <3>1. "close1" \in Ids
      BY DEF Ids, Closers
    <3> QED BY <2>3, <3>1, MessageStep
  <2>4. CASE WorkerError(c)
    BY <2>4, EndStep DEF WorkerError, Finish
  <2>5. CASE \E r \in Ids : Request(c, r) \/ Cancel(c, r) \/ Answer(c, r) \/ Timeout(c, r)
    BY <2>5, MessageStep DEF Request
  <2> QED BY <1>1, <2>1, <2>2, <2>3, <2>4, <2>5 DEF Step
<1>2. ASSUME NEW c \in Clients, NEW k \in Closers, Close(c, k) PROVE WorkerInv'
  <2>1. k \in Ids /\ Send(c, k)
    BY <1>2 DEF Close, Ids
  <2> QED BY <2>1, MessageStep
<1>3. ASSUME NEW c \in Clients, NEW k \in Closers, CloseEnds(c, k) PROVE WorkerInv'
  BY <1>3, EndStep DEF CloseEnds, Finish
<1>4. ASSUME NEW c \in Clients, Leave(c) PROVE WorkerInv'
  BY <1>4, EndStep DEF Leave
<1>5. CASE UNCHANGED vars
  BY <1>5 DEF vars, WorkerInv, WorkerShape, LeaseOfTheLiving, LockFollowsWorker
<1> QED BY <1>1, <1>2, <1>3, <1>4, <1>5 DEF Next

\* The lock is held exactly while the worker it was taken for lives: however
\* often a client is shut down, and whoever owns the lock by then.
THEOREM LockIsTheWorkers ==
  ASSUME Nobody \notin Clients
  PROVE  Spec => []LockFollowsWorker
<1>1. Init => WorkerInv
  BY DEF Init, WorkerInv, WorkerShape, LeaseOfTheLiving, LockFollowsWorker
<1>2. WorkerInv /\ [Next]_vars => WorkerInv'
  BY WorkerInvIsInductive
<1>3. WorkerInv => LockFollowsWorker
  BY DEF WorkerInv
<1> QED BY <1>1, <1>2, <1>3, PTL DEF Spec

\* Two pages never have a worker at the database together.
THEOREM OneWorkerAtATime ==
  ASSUME Nobody \notin Clients
  PROVE  Spec => [](\A c, d \in Clients : phase[c] = "live" /\ phase[d] = "live" => c = d)
<1>1. LockFollowsWorker => \A c, d \in Clients : phase[c] = "live" /\ phase[d] = "live" => c = d
  BY DEF LockFollowsWorker
<1> QED BY <1>1, LockIsTheWorkers, PTL

-----------------------------------------------------------------------------
(* The upkeep of the store *)

\* Rows, and whatever names them, are of resources: ledger rows, what a plan
\* chose and what repair listed.
NamesResources(S) == \A e \in S : RowOf(e) \in Resources
UpkeepTypes ==
    /\ rows \subseteq Resources
    /\ NamesResources(ledger) /\ NamesResources(targets) /\ NamesResources(missing)
    /\ \A p \in plan : NamesResources(p.intents)

UpkeepInv == UpkeepTypes /\ RowsStayAccounted

LEMMA RowIsItself ==
  ASSUME NEW r \in Resources PROVE RowOf(r) = r /\ r.id = RowOf(r).id
BY ResourcesAssumption DEF RowOf

\* Under the id of a row that is alone, ledger rows are its own.
LEMMA AloneIsItsId ==
  ASSUME NEW r \in Resources, Alone(r), NEW e, RowOf(e) \in Resources, e.id = r.id
  PROVE  RowOf(e) = r
<1>1. RowOf(e).id = r.id
  BY DEF RowOf
<1> QED BY <1>1 DEF Alone

\* An upsert by id loses no row that is alone, and accounts for its own.
LEMMA UpsertAccounts ==
  ASSUME UpkeepTypes, NEW written, NamesResources(written), ledger' = Upsert(written),
         NEW r \in Resources, Alone(r),
         Accounted(r) \/ \E f \in written : RowOf(f) = r
  PROVE  Accounted(r)'
<1>1. ledger' = {e \in ledger : \A f \in written : f.id # e.id} \cup written
  BY DEF Upsert
<1>2. ASSUME NEW f \in written, RowOf(f) = r PROVE Accounted(r)'
  BY <1>1, <1>2 DEF Accounted, RowOf
<1>3. ASSUME NEW e \in ledger, RowOf(e) = r PROVE Accounted(r)'
  <2>1. CASE e \in ledger'
    BY <1>3, <2>1 DEF Accounted, RowOf
  <2>2. CASE e \notin ledger'
    <3>1. PICK f \in written : f.id = e.id
      BY <1>1, <2>2
    <3>2. e.id = r.id
      BY <1>3 DEF RowOf
    <3>3. RowOf(f) = r
      BY <3>1, <3>2, AloneIsItsId DEF NamesResources
    <3> QED BY <1>2, <3>3
  <2> QED BY <2>1, <2>2
<1> QED BY <1>2, <1>3 DEF Accounted

\* A write accounts for what it stores.
LEMMA BatchUpkeepInv ==
  ASSUME UpkeepInv, NEW written, NamesResources(written), Batch(written)
  PROVE  UpkeepInv'
<1>1. /\ rows' = rows \cup {RowOf(e) : e \in written} /\ ledger' = Upsert(written)
      /\ UNCHANGED <<plan, targets, missing>>
  BY DEF Batch
<1>2. UpkeepTypes'
  BY <1>1 DEF UpkeepInv, UpkeepTypes, NamesResources, Upsert, RowOf
<1>3. ASSUME NEW r \in rows', Alone(r) PROVE Accounted(r)'
  <2>1. r \in Resources
    BY <1>2 DEF UpkeepTypes
  <2>2. Accounted(r) \/ \E f \in written : RowOf(f) = r
    BY <1>1, <1>3 DEF UpkeepInv, RowsStayAccounted
  <2> QED BY <1>1, <1>3, <2>1, <2>2, UpsertAccounts DEF UpkeepInv
<1> QED BY <1>2, <1>3 DEF UpkeepInv, RowsStayAccounted, Alone

LEMMA LedgerRowIsOf ==
  ASSUME NEW r \in Resources, NEW table, NEW protected
  PROVE  RowOf(LedgerRow(r, table, protected)) = r
<1>1. /\ LedgerRow(r, table, protected).kind = r.kind
      /\ LedgerRow(r, table, protected).id = r.id
  BY DEF LedgerRow
<1>2. RowOf(LedgerRow(r, table, protected)) = [kind |-> r.kind, id |-> r.id]
  BY <1>1 DEF RowOf
<1> QED BY <1>2, ResourcesAssumption

LEMMA EntriesNameResources ==
  ASSUME NEW r \in Resources
  PROVE  /\ RowOf(EventEntry(r)) = r /\ RowOf(NotificationEntry(r)) = r
         /\ RowOf(TabEntry(r)) = r
         /\ \A table : RowOf(FeedEntry(r, table)) = r /\ RowOf(RelayEntry(r, table)) = r
         /\ \A active : RowOf(JobEntry(r, active)) = r
BY LedgerRowIsOf DEF EventEntry, NotificationEntry, TabEntry, FeedEntry, RelayEntry, JobEntry

LEMMA WriteUpkeepInv ==
  ASSUME UpkeepInv,
         \/ PutEvent \/ PutNotification \/ PutCursor \/ PutCoverage \/ PutHint
         \/ PutInformation \/ PutSummary \/ PutSuggestions \/ PutRoutes \/ PutTab \/ PutJob
  PROVE  UpkeepInv'
<1>1. \A k : Of(k) \subseteq Resources
  BY DEF Of
<1>2. PICK written : NamesResources(written) /\ Batch(written)
  <2>1. CASE PutEvent \/ PutCursor \/ PutHint \/ PutInformation \/ PutSummary \/ PutTab \/ PutJob
    <3>1. ASSUME NEW r \in Resources, NEW e, RowOf(e) = r, Batch({e})
          PROVE  \E written : NamesResources(written) /\ Batch(written)
      BY <3>1 DEF NamesResources
    <3>2. CASE PutEvent
      BY <1>1, <3>1, <3>2, EntriesNameResources DEF PutEvent
    <3>3. CASE PutCursor
      <4>1. PICK r \in Resources : Batch({FeedEntry(r, "feed_cursors")})
        BY <1>1, <3>3 DEF PutCursor
      <4>2. RowOf(FeedEntry(r, "feed_cursors")) = r
        BY EntriesNameResources
      <4> QED BY <3>1, <4>1, <4>2
    <3>4. CASE PutHint
      <4>1. PICK r \in Resources : Batch({FeedEntry(r, "feed_scan_hints")})
        BY <1>1, <3>4 DEF PutHint
      <4>2. RowOf(FeedEntry(r, "feed_scan_hints")) = r
        BY EntriesNameResources
      <4> QED BY <3>1, <4>1, <4>2
    <3>5. CASE PutInformation
      <4>1. PICK r \in Resources : Batch({RelayEntry(r, "relay_information")})
        BY <1>1, <3>5 DEF PutInformation
      <4>2. RowOf(RelayEntry(r, "relay_information")) = r
        BY EntriesNameResources
      <4> QED BY <3>1, <4>1, <4>2
    <3>6. CASE PutSummary
      <4>1. PICK r \in Resources : Batch({RelayEntry(r, "relay_diagnostic_summaries")})
        BY <1>1, <3>6 DEF PutSummary
      <4>2. RowOf(RelayEntry(r, "relay_diagnostic_summaries")) = r
        BY EntriesNameResources
      <4> QED BY <3>1, <4>1, <4>2
    <3>7. CASE PutTab
      BY <1>1, <3>1, <3>7, EntriesNameResources DEF PutTab
    <3>8. CASE PutJob
      <4>1. PICK r \in Resources, active \in BOOLEAN : Batch({JobEntry(r, active)})
        BY <1>1, <3>8 DEF PutJob
      <4>2. RowOf(JobEntry(r, active)) = r
        BY EntriesNameResources
      <4> QED BY <3>1, <4>1, <4>2
    <3> QED BY <2>1, <3>2, <3>3, <3>4, <3>5, <3>6, <3>7, <3>8
  <2>2. CASE PutNotification
    <3>1. PICK rs \in SUBSET Resources : Batch({NotificationEntry(r) : r \in rs})
      BY <1>1, <2>2 DEF PutNotification
    <3>2. NamesResources({NotificationEntry(r) : r \in rs})
      BY EntriesNameResources DEF NamesResources
    <3> QED BY <3>1, <3>2
  <2>3. CASE PutCoverage
    <3>1. PICK rs \in SUBSET Resources : Batch({FeedEntry(r, "feed_coverage") : r \in rs})
      BY <1>1, <2>3 DEF PutCoverage
    <3>2. NamesResources({FeedEntry(r, "feed_coverage") : r \in rs})
      BY EntriesNameResources DEF NamesResources
    <3> QED BY <3>1, <3>2
  <2>4. CASE PutSuggestions
    <3>1. PICK rs \in SUBSET Resources :
             Batch({RelayEntry(r, "relay_list_suggestions") : r \in rs})
      BY <1>1, <2>4 DEF PutSuggestions
    <3>2. NamesResources({RelayEntry(r, "relay_list_suggestions") : r \in rs})
      BY EntriesNameResources DEF NamesResources
    <3> QED BY <3>1, <3>2
  <2>5. CASE PutRoutes
    <3>1. PICK rs \in SUBSET Resources :
             Batch({RelayEntry(r, "author_relay_routes") : r \in rs})
      BY <1>1, <2>5 DEF PutRoutes
    <3>2. NamesResources({RelayEntry(r, "author_relay_routes") : r \in rs})
      BY EntriesNameResources DEF NamesResources
    <3> QED BY <3>1, <3>2
  <2> QED BY <2>1, <2>2, <2>3, <2>4, <2>5
<1> QED BY <1>2, BatchUpkeepInv

\* A deletion takes the ledger row of the id, so with it only a row that
\* shares its id.
LEMMA DeletionUpkeepInv ==
  ASSUME UpkeepInv, NEW gone, NamesResources(gone),
         rows' = rows \ {RowOf(e) : e \in gone},
         ledger' = {e \in ledger : \A g \in gone : g.id # e.id},
         UNCHANGED <<targets, missing>>, plan' \subseteq plan
  PROVE  UpkeepInv'
<1>1. UpkeepTypes'
  BY DEF UpkeepInv, UpkeepTypes, NamesResources
<1>2. ASSUME NEW r \in rows', Alone(r) PROVE Accounted(r)'
  <2>1. r \in Resources /\ r \in rows
    BY <1>1 DEF UpkeepTypes
  <2>2. PICK e \in ledger : RowOf(e) = r
    BY <1>2, <2>1 DEF UpkeepInv, RowsStayAccounted, Accounted
  <2>3. ASSUME NEW g \in gone, g.id = e.id PROVE FALSE
    <3>1. g.id = r.id
      BY <2>2, <2>3 DEF RowOf
    <3>2. RowOf(g) = r
      BY <1>2, <2>1, <3>1, AloneIsItsId DEF NamesResources
    <3> QED BY <3>2
  <2>4. e \in ledger'
    BY <2>3
  <2> QED BY <2>2, <2>4 DEF Accounted, RowOf
<1> QED BY <1>1, <1>2 DEF UpkeepInv, RowsStayAccounted, Alone

LEMMA DeleteTabUpkeepInv == ASSUME UpkeepInv, DeleteTab PROVE UpkeepInv'
<1>1. PICK r \in Resources : /\ rows' = rows \ {r} /\ ledger' = DeleteLedger(r.id)
                             /\ UNCHANGED <<targets, missing, plan>>
  BY DEF DeleteTab, Of
<1>2. RowOf(r) = r
  BY RowIsItself
<1> DEFINE gone == {r}
<1>3. /\ NamesResources(gone) /\ rows' = rows \ {RowOf(e) : e \in gone}
      /\ ledger' = {e \in ledger : \A g \in gone : g.id # e.id}
      /\ UNCHANGED <<targets, missing>> /\ plan' \subseteq plan
  BY <1>1, <1>2 DEF NamesResources, DeleteLedger
<1> HIDE DEF gone
<1> QED BY <1>3, DeletionUpkeepInv

\* A plan chooses from the ledger; a stale one deletes what it chose.
LEMMA RetentionUpkeepInv == ASSUME UpkeepInv, Plan \/ Dispatch PROVE UpkeepInv'
<1>1. CASE Plan
  <2>1. PICK s \in snap : plan' = {PlanRetention(RetentionInput(s))}
    BY <1>1 DEF Plan
  <2>2. PlanRetention(RetentionInput(s)).intents \subseteq ledger
    BY DEF PlanRetention, RetentionInput, Candidates, Kept, Chosen
  <2>3. UNCHANGED <<rows, ledger, targets, missing>>
    BY <1>1 DEF Plan
  <2>4. UpkeepTypes'
    BY <2>1, <2>2, <2>3 DEF UpkeepInv, UpkeepTypes, NamesResources
  <2> QED BY <2>3, <2>4 DEF UpkeepInv, RowsStayAccounted, Accounted, Alone
<1>2. CASE Dispatch
  <2>1. UNCHANGED <<targets, missing>> /\ plan' = {}
    BY <1>2 DEF Dispatch
  <2>2. CASE UNCHANGED <<rows, working, ledger>>
    BY <2>1, <2>2 DEF UpkeepInv, UpkeepTypes, RowsStayAccounted, Accounted, Alone
  <2>3. ASSUME NEW p \in plan,
               rows' = rows \ {RowOf(e) : e \in Dispatched(p.intents)},
               ledger' = {e \in ledger : \A g \in Dispatched(p.intents) : g.id # e.id}
        PROVE  UpkeepInv'
    <3>1. NamesResources(Dispatched(p.intents))
      BY DEF UpkeepInv, UpkeepTypes, NamesResources, Dispatched
    <3> QED BY <2>1, <2>3, <3>1, DeletionUpkeepInv
  <2> QED BY <1>2, <2>2, <2>3 DEF Dispatch
<1> QED BY <1>1, <1>2

LEMMA RepairUpkeepInv == ASSUME UpkeepInv, ListTargets \/ Probe \/ Backfill PROVE UpkeepInv'
<1>1. CASE ListTargets \/ Probe
  <2>1. UNCHANGED <<rows, ledger, plan>>
    BY <1>1 DEF ListTargets, Probe
  <2>2. NamesResources(targets') /\ NamesResources(missing')
    <3>1. CASE ListTargets
      <4>1. \A e \in ledger : RowOf([kind |-> e.kind, id |-> e.id, table |-> e.table,
                                     protected |-> e.protected]) = RowOf(e)
        BY DEF RowOf
      <4> QED BY <3>1, <4>1 DEF ListTargets, UpkeepInv, UpkeepTypes, NamesResources
    <3>2. CASE Probe
      BY <3>2 DEF Probe, UpkeepInv, UpkeepTypes, NamesResources
    <3> QED BY <1>1, <3>1, <3>2
  <2>3. UpkeepTypes'
    BY <2>1, <2>2 DEF UpkeepInv, UpkeepTypes, NamesResources
  <2> QED BY <2>1, <2>3 DEF UpkeepInv, RowsStayAccounted, Accounted, Alone
<1>2. CASE Backfill
  <2> DEFINE written == {LedgerRow(RowOf(t), t.table, FALSE) : t \in {x \in missing : BackfillSafe(x)}}
  <2>1. UNCHANGED <<rows, plan, targets>> /\ missing' = {}
    BY <1>2 DEF Backfill
  <2>2. NamesResources(written)
    <3>1. ASSUME NEW t \in missing PROVE RowOf(LedgerRow(RowOf(t), t.table, FALSE)) \in Resources
      <4>1. RowOf(t) \in Resources
        BY DEF UpkeepInv, UpkeepTypes, NamesResources
      <4> DEFINE q == RowOf(t)
      <4> HIDE DEF q
      <4>2. q \in Resources
        BY <4>1 DEF q
      <4>3. RowOf(LedgerRow(q, t.table, FALSE)) = q
        BY <4>2, LedgerRowIsOf
      <4> QED BY <4>1, <4>3 DEF q
    <3> QED BY <3>1 DEF NamesResources
  <2>3. ledger' = Upsert(written) \/ ledger' = ledger
    BY <1>2 DEF Backfill
  <2> HIDE DEF written
  <2>4. UpkeepTypes'
    BY <2>1, <2>2, <2>3 DEF UpkeepInv, UpkeepTypes, NamesResources, Upsert
  <2>5. ASSUME NEW r \in rows', Alone(r) PROVE Accounted(r)'
    <3>1. r \in Resources /\ Accounted(r)
      BY <2>1, <2>5 DEF UpkeepInv, UpkeepTypes, RowsStayAccounted
    <3>2. CASE ledger' = ledger
      BY <3>1, <3>2 DEF Accounted
    <3>3. CASE ledger' = Upsert(written)
      BY <2>2, <2>5, <3>1, <3>3, UpsertAccounts DEF UpkeepInv
    <3> QED BY <2>3, <3>2, <3>3
  <2> QED BY <2>4, <2>5 DEF UpkeepInv, RowsStayAccounted, Alone
<1> QED BY <1>1, <1>2

\* No write, deletion, stale plan or backfill leaves a row without its ledger
\* row, unless another kind uses its id.
THEOREM RowsKeepTheirLedgerRows == UpkeepSpec => []RowsStayAccounted
<1>1. UpkeepInit => UpkeepInv
  BY DEF UpkeepInit, UpkeepInv, UpkeepTypes, NamesResources, RowsStayAccounted
<1>2. UpkeepInv /\ [UpkeepNext]_upkeepVars => UpkeepInv'
  <2> SUFFICES ASSUME UpkeepInv, [UpkeepNext]_upkeepVars PROVE UpkeepInv'
    OBVIOUS
  <2>1. CASE \/ PutEvent \/ PutNotification \/ PutCursor \/ PutCoverage \/ PutHint
             \/ PutInformation \/ PutSummary \/ PutSuggestions \/ PutRoutes \/ PutTab
             \/ PutJob
    BY <2>1, WriteUpkeepInv
  <2>2. CASE DeleteTab
    BY <2>2, DeleteTabUpkeepInv
  <2>3. CASE Plan \/ Dispatch
    BY <2>3, RetentionUpkeepInv
  <2>4. CASE ListTargets \/ Probe \/ Backfill
    BY <2>4, RepairUpkeepInv
  <2>5. CASE Pin \/ TakeSnapshot \/ UNCHANGED upkeepVars
    <3>1. UNCHANGED <<rows, ledger, plan, targets, missing>>
      BY <2>5 DEF Pin, TakeSnapshot, upkeepVars
    <3> QED BY <3>1 DEF UpkeepInv, UpkeepTypes, RowsStayAccounted, Accounted, Alone
  <2> QED BY <2>1, <2>2, <2>3, <2>4, <2>5 DEF UpkeepNext
<1>3. UpkeepInv => RowsStayAccounted
  BY DEF UpkeepInv
<1> QED BY <1>1, <1>2, <1>3, PTL DEF UpkeepSpec

-----------------------------------------------------------------------------
(* Account commands *)

CmdFields == {"op", "id", "to", "follow", "pc", "list", "pick", "active", "noted", "ok",
              "freed", "tags", "votes", "alone", "clean"}
Listed    == [id : AccountIds, at : Nat]
Adders    == {"add_local", "add_readonly", "nip07"}

TablesTyped ==
    /\ accounts \in [Keys -> {NoRow} \cup [kind : Kinds, at : Nat]] /\ clock \in Nat
    /\ \A k \in Keys : accounts[k].at <= clock
    /\ panel.list \subseteq AccountIds

CommandTypes(r) ==
    /\ DOMAIN r = CmdFields
    /\ r.id \in AccountIds \cup {NoId} /\ r.list \subseteq Listed
    /\ r.pc = "add" => r.id \in AccountIds

CommandsTyped ==
    /\ DOMAIN cmds = Slots
    /\ \A c \in Slots : CommandTypes(cmds[c])

\* While a command runs that is alone, no other does.
AloneIsAlone == \A c, d \in Running : cmds[c].alone => c = d

\* What a command has done by then, the selector left aside.
DoneSoFar(c) == LET r == cmds[c] IN
    /\ r.op = "add_local" => KeyOf(r.id) \in secrets
    /\ r.op = "remove" => accounts[KeyOf(r.id)] = NoRow /\ KeyOf(r.id) \notin secrets

\* What it has done when it comes to list the accounts.
ReadyToList(c) == LET r == cmds[c] IN
    /\ DoneSoFar(c)
    /\ r.op \in Adders => selector = r.id /\ r.id \in IdsOf(Stored)
    /\ r.op = "activate" => selector \in IdsOf(Stored) /\ KeyOf(selector) = KeyOf(r.id)
    /\ r.freed => selector = NoId /\ legacy = NoId

Repaired(c) == LET r == cmds[c] IN
    /\ r.list = Stored
    /\ IF Stored = {} THEN r.active = NoId
       ELSE r.active = selector /\ selector \in IdsOf(Stored)
    /\ r.op \in Adders => r.active = r.id
    /\ r.op = "activate" => KeyOf(r.active) = KeyOf(r.id)
    /\ r.freed /\ Stored # {} => r.active = Newest(Stored)
    /\ DoneSoFar(c)

\* A command that runs alone and without a failure, call by call.
Stage(c) == LET r == cmds[c] IN
    \/ r.pc = "add" /\ r.op \in Adders /\ r.id \in AccountIds /\ r.list = {} /\ ~r.freed
       /\ (r.op = "add_local" => r.id[1] = "local")
    \/ r.pc = "signer" /\ r.op = "nip07" /\ r.list = {} /\ ~r.freed
    \/ r.pc = "get" /\ r.op = "activate" /\ r.id \in AccountIds /\ r.list = {} /\ ~r.freed
    \/ /\ r.pc \in {"probe", "save"} /\ r.list = {} /\ ~r.freed
       /\ r.op \in Adders \cup {"activate"} /\ DoneSoFar(c) /\ r.pick \in IdsOf(Stored)
       /\ IF r.op \in Adders THEN r.pick = r.id ELSE KeyOf(r.pick) = KeyOf(r.id)
    \/ r.pc = "drop" /\ r.op = "remove" /\ r.id \in AccountIds /\ ~r.freed
    \/ /\ r.pc = "forget" /\ r.op = "remove" /\ r.id \in AccountIds /\ ~r.freed
       /\ r.ok /\ accounts[KeyOf(r.id)] = NoRow
    \/ /\ r.pc \in {"unselect", "deselect"} /\ r.op = "remove" /\ ~r.freed /\ DoneSoFar(c)
    \/ r.pc = "reveal" /\ r.op = "reveal" /\ ~r.freed
    \/ r.pc = "list" /\ ReadyToList(c)
    \/ r.pc = "selector" /\ r.list = Stored /\ Stored # {} /\ ReadyToList(c)
    \/ /\ r.pc \in {"probe", "save"} /\ r.list # {} /\ r.list = Stored
       /\ r.op \notin Adders \cup {"activate"} /\ DoneSoFar(c) /\ r.pick \in IdsOf(Stored)
       /\ r.freed => r.pick = Newest(Stored)
    \/ r.pc = "resolved" /\ Repaired(c)

Lone(c) == /\ cmds[c].alone /\ cmds[c].clean /\ cmds[c].op \in AccountOps
           /\ cmds[c].pc \notin {"idle", "done"}

LoneWorks == \A c \in Slots : Lone(c) => Stage(c)

AccountInv == TablesTyped /\ CommandsTyped /\ AloneIsAlone /\ LoneWorks

LEMMA IdsArePairs ==
  ASSUME TablesTyped
  PROVE  /\ NoId \notin AccountIds /\ NoId \notin IdsOf(Stored)
         /\ Stored \subseteq Listed /\ IdsOf(Stored) \subseteq AccountIds
         /\ \A k \in Keys : accounts[k] # NoRow => <<accounts[k].kind, k>> \in IdsOf(Stored)
<1>1. NoId \notin AccountIds
  <2>1. \A id \in AccountIds : Len(id) = 2
    BY DEF AccountIds
  <2>2. Len(NoId) = 0
    BY DEF NoId
  <2> QED BY <2>1, <2>2
<1>2. \A k \in Keys : accounts[k] # NoRow => accounts[k] \in [kind : Kinds, at : Nat]
  BY DEF TablesTyped
<1>3. Stored \subseteq Listed
  BY <1>2 DEF Stored, Listed, AccountIds
<1>4. IdsOf(Stored) \subseteq AccountIds
  BY <1>3 DEF IdsOf, Listed
<1>5. ASSUME NEW k \in Keys, accounts[k] # NoRow
      PROVE  <<accounts[k].kind, k>> \in IdsOf(Stored)
  <2>1. [id |-> <<accounts[k].kind, k>>, at |-> accounts[k].at] \in Stored
    BY <1>5 DEF Stored
  <2> QED BY <2>1 DEF IdsOf
<1> QED BY <1>1, <1>3, <1>4, <1>5

\* The accounts that are stored have a newest one.
LEMMA NewestIsStored ==
  ASSUME TablesTyped, Stored # {} PROVE Newest(Stored) \in IdsOf(Stored)
<1>1. \A a \in Stored : a.at \in Nat /\ a.at <= clock
  BY IdsArePairs DEF TablesTyped, Stored, Listed
<1> DEFINE ages == {clock - a.at : a \in Stored}
<1>2. ages \in SUBSET Nat /\ ages # {}
  BY <1>1 DEF TablesTyped
<1>3. PICK n \in ages : \A m \in ages : n <= m
  <2> HIDE DEF ages
  <2>1. PICK n \in ages : \A m \in ages : ~ (<<m, n>> \in OpToRel(<, Nat))
    BY <1>2, NatLessThanWellFounded, WFMin
  <2>2. \A m \in ages : ~ (m < n)
    BY <1>2, <2>1 DEF OpToRel
  <2> QED BY <1>2, <2>2
<1>4. PICK a \in Stored : n = clock - a.at
  OBVIOUS
<1>5. ASSUME NEW b \in Stored PROVE b.at <= a.at
  <2>1. clock - a.at <= clock - b.at
    BY <1>3, <1>4
  <2> HIDE DEF ages
  <2> QED BY <1>1, <2>1 DEF TablesTyped
<1>6. (CHOOSE x \in Stored : \A b \in Stored : b.at <= x.at) \in Stored
  BY <1>5
<1> QED BY <1>6 DEF Newest, IdsOf


\* A step of one command: what others do alone is not touched, because then
\* this one would not run.
LEMMA StepKeeps ==
  ASSUME AccountInv, NEW c \in Slots, cmds[c].pc \notin {"idle", "done"},
         NEW r, cmds' = [cmds EXCEPT ![c] = r], TablesTyped', CommandTypes(r),
         r.alone = cmds[c].alone \/ r.pc = "done", (Lone(c) => Stage(c))'
  PROVE  AccountInv'
<1>1. /\ DOMAIN cmds = Slots /\ DOMAIN cmds' = Slots /\ cmds'[c] = r
      /\ \A d \in Slots : d # c => cmds'[d] = cmds[d]
  BY DEF AccountInv, CommandsTyped
<1>2. CommandsTyped'
  BY <1>1 DEF AccountInv, CommandsTyped
<1>3. c \in Running /\ \A d \in Running' : d \in Running
  BY <1>1 DEF Running
<1>4. AloneIsAlone'
  <2> SUFFICES ASSUME NEW d \in Running', NEW e \in Running', cmds'[d].alone PROVE d = e
    BY DEF AloneIsAlone
  <2>1. cmds[d].alone
    BY <1>1 DEF Running
  <2> QED BY <1>3, <2>1 DEF AccountInv, AloneIsAlone
<1>5. LoneWorks'
  <2> SUFFICES ASSUME NEW d \in Slots, Lone(d)' PROVE Stage(d)'
    BY DEF LoneWorks
  <2>1. CASE d = c
    BY <2>1
  <2>2. CASE d # c
    <3>1. d \in Running /\ cmds[d].alone
      BY <1>1, <2>2 DEF Lone, Running
    <3> QED BY <1>3, <2>2, <3>1 DEF AccountInv, AloneIsAlone
  <2> QED BY <2>1, <2>2
<1> QED BY <1>2, <1>4, <1>5 DEF AccountInv

\* The same of a command that goes on: a call that failed ends its claim.
LEMMA MoveKeeps ==
  ASSUME AccountInv, NEW c \in Slots, cmds[c].pc \notin {"idle", "done"},
         NEW r, cmds' = [cmds EXCEPT ![c] = r], TablesTyped', CommandTypes(r),
         r.alone = cmds[c].alone, r.op = cmds[c].op, r.clean => cmds[c].clean,
         r.clean /\ Lone(c) => Stage(c)'
  PROVE  AccountInv'
<1>1. cmds'[c] = r
  BY DEF AccountInv, CommandsTyped
<1>2. (Lone(c) => Stage(c))'
  BY <1>1 DEF Lone
<1> QED BY <1>2, StepKeeps

LEMMA DoneIsTyped ==
  /\ DOMAIN Done = CmdFields /\ Done.pc = "done" /\ Done.id = NoId /\ Done.list = {}
  /\ DOMAIN Idle = CmdFields /\ Idle.pc = "idle" /\ Idle.id = NoId /\ Idle.list = {}
  /\ ~Idle.freed /\ Idle.clean
BY DEF Done, Idle, CmdFields

LEMMA DoneKeeps ==
  ASSUME AccountInv, NEW c \in Slots, cmds[c].pc \notin {"idle", "done"},
         cmds' = [cmds EXCEPT ![c] = Done], TablesTyped'
  PROVE  AccountInv'
<1>1. cmds'[c] = Done
  BY DEF AccountInv, CommandsTyped
<1>2. ~Lone(c)'
  BY <1>1, DoneIsTyped DEF Lone
<1> QED BY <1>2, DoneIsTyped, StepKeeps DEF CommandTypes

\* What the invariant says of a command before its step.
LEMMA CommandTyped ==
  ASSUME AccountInv, NEW c \in Slots
  PROVE  /\ CommandTypes(cmds[c]) /\ DOMAIN cmds = Slots
         /\ TablesTyped /\ (Lone(c) => Stage(c))
BY DEF AccountInv, CommandsTyped, LoneWorks

LEMMA GivenKeeps ==
  ASSUME AccountInv, NEW op \in Ops, NEW id \in AccountIds \cup {NoId}, NEW t, NEW follow,
         Given(op, id, t, follow), UNCHANGED <<tables, panel>>,
         op \in Adders \cup {"activate", "remove"} /\ op # "nip07" => id \in AccountIds,
         op = "add_local" => id[1] = "local"
  PROVE  AccountInv'
<1> DEFINE new(a) == [Idle EXCEPT !.op = op, !.id = id, !.to = t, !.follow = follow,
                                  !.pc = First(op), !.alone = a]
<1>1. PICK c \in Slots :
        /\ At(c, "idle")
        /\ cmds' = [d \in Slots |-> IF d = c THEN new(Running = {})
                                    ELSE [cmds[d] EXCEPT !.alone = @ /\ d \notin Running]]
  BY DEF Given
<1>2. \A a : /\ DOMAIN new(a) = CmdFields /\ new(a).op = op /\ new(a).id = id
             /\ new(a).pc = First(op) /\ new(a).list = {} /\ ~new(a).freed
             /\ new(a).alone = a
  BY DoneIsTyped DEF CmdFields
<1> HIDE DEF new
<1>3. \A d \in Slots : d # c =>
        /\ DOMAIN cmds'[d] = CmdFields
        /\ \A f \in CmdFields \ {"alone"} : cmds'[d][f] = cmds[d][f]
        /\ cmds'[d].alone => cmds[d].alone /\ d \notin Running
  BY <1>1, CommandTyped DEF CommandTypes, CmdFields
<1>4. cmds'[c] = new(Running = {}) /\ DOMAIN cmds' = Slots
  BY <1>1
<1>5. CommandsTyped'
  <2> SUFFICES ASSUME NEW d \in Slots PROVE CommandTypes(cmds'[d])
    BY <1>4 DEF CommandsTyped
  <2>1. CASE d = c
    <3>1. op \in AllOps
      BY AccountAssumption
    <3>2. First(op) = "add" => op \in {"add_local", "add_readonly"}
      BY <3>1 DEF First, AllOps, AccountOps
    <3>3. First(op) = "add" => id \in AccountIds
      BY <3>2 DEF Adders
    <3> QED BY <1>2, <1>4, <2>1, <3>3 DEF CommandTypes
  <2>2. CASE d # c
    <3>1. CommandTypes(cmds[d])
      BY CommandTyped
    <3> QED BY <1>3, <2>2, <3>1 DEF CommandTypes, CmdFields
  <2> QED BY <2>1, <2>2
<1>6. \A d \in Slots : d # c => (d \in Running' <=> d \in Running)
  BY <1>3 DEF Running, CmdFields
<1>7. AloneIsAlone'
  <2> SUFFICES ASSUME NEW d \in Running', NEW e \in Running', cmds'[d].alone PROVE d = e
    BY DEF AloneIsAlone
  <2>1. d \in Slots /\ e \in Slots
    BY DEF Running
  <2>2. d = c
    BY <1>3, <1>6, <2>1
  <2>3. Running = {}
    BY <1>2, <1>4, <2>2
  <2> QED BY <1>6, <2>1, <2>2, <2>3
<1>8. LoneWorks'
  <2> SUFFICES ASSUME NEW d \in Slots, Lone(d)' PROVE Stage(d)'
    BY DEF LoneWorks
  <2>1. d = c
    <3>1. d # c => d \in Running' /\ cmds'[d].alone
      BY DEF Lone, Running
    <3> QED BY <1>3, <1>6, <3>1
  <2>2. /\ cmds'[c].op = op /\ cmds'[c].id = id /\ cmds'[c].pc = First(op)
        /\ cmds'[c].list = {} /\ ~cmds'[c].freed /\ op \in AccountOps
    BY <1>2, <1>4, <2>1 DEF Lone
  <2>3. CASE op \in {"add_local", "add_readonly"}
    <3>1. First(op) = "add"
      BY <2>3 DEF First
    <3> QED BY <2>1, <2>2, <2>3, <3>1 DEF Stage, Adders
  <2>4. CASE op = "nip07"
    <3>1. First(op) = "signer"
      BY <2>4 DEF First
    <3> QED BY <2>1, <2>2, <2>4, <3>1 DEF Stage
  <2>5. CASE op = "activate"
    <3>1. First(op) = "get"
      BY <2>5 DEF First
    <3> QED BY <2>1, <2>2, <2>5, <3>1 DEF Stage
  <2>6. CASE op = "remove"
    <3>1. First(op) = "drop"
      BY <2>6 DEF First
    <3> QED BY <2>1, <2>2, <2>6, <3>1 DEF Stage
  <2>7. CASE op = "reveal"
    <3>1. First(op) = "reveal"
      BY <2>7 DEF First
    <3> QED BY <2>1, <2>2, <2>7, <3>1 DEF Stage
  <2>8. CASE op = "load"
    <3>1. First(op) = "list"
      BY <2>8 DEF First
    <3>2. ReadyToList(c)'
      BY <2>2, <2>8 DEF ReadyToList, DoneSoFar, Adders
    <3> QED BY <2>1, <2>2, <2>8, <3>1, <3>2 DEF Stage
  <2> QED BY <2>2, <2>3, <2>4, <2>5, <2>6, <2>7, <2>8 DEF AccountOps
<1>9. TablesTyped'
  BY CommandTyped, <1>1 DEF TablesTyped, tables
<1> QED BY <1>5, <1>7, <1>8, <1>9 DEF AccountInv

LEMMA UserKeeps == ASSUME AccountInv, User PROVE AccountInv'
<1>1. CASE OpenTab \/ ConnectNip07 \/ Import
  <2>1. PICK op \in {"load", "page", "nip07", "import"} :
           Given(op, NoId, "none", FALSE) /\ UNCHANGED <<tables, panel>>
    BY <1>1 DEF OpenTab, ConnectNip07, Import
  <2>2. op \in Ops /\ op # "add_local" /\ NoId \in AccountIds \cup {NoId}
    BY <2>1 DEF Given
  <2>3. ~(op \in Adders \cup {"activate", "remove"} /\ op # "nip07")
    BY DEF Adders
  <2> QED BY <2>1, <2>2, <2>3, GivenKeeps
<1>2. CASE AddInput
  <2>1. PICK k \in Keys, op \in {"add_local", "add_readonly"} :
           /\ Given(op, <<IF op = "add_local" THEN "local" ELSE "readonly", k>>, "none", FALSE)
           /\ UNCHANGED <<tables, panel>>
    BY <1>2 DEF AddInput
  <2>2. op \in Ops
    BY <2>1 DEF Given
  <2> DEFINE id == <<IF op = "add_local" THEN "local" ELSE "readonly", k>>
  <2>3. id \in AccountIds /\ (op = "add_local" => id[1] = "local")
    BY DEF AccountIds, Kinds
  <2> HIDE DEF id
  <2> QED BY <2>1, <2>2, <2>3, GivenKeeps DEF id
<1>3. CASE RowCommand
  <2>1. PICK id \in panel.list, op \in {"activate", "remove", "reveal"} :
           Given(op, id, "none", FALSE) /\ UNCHANGED <<tables, panel>>
    BY <1>3 DEF RowCommand
  <2>2. op \in Ops /\ id \in AccountIds
    BY <2>1, CommandTyped DEF Given, AccountInv, TablesTyped
  <2> QED BY <2>1, <2>2, GivenKeeps
<1>4. CASE ShowButton \/ ClickButton
  <2>1. PICK t \in Targets, k \in PageKeys, op \in {"follow_state", "toggle"},
             follow \in BOOLEAN :
           Given(op, <<"local", k>>, t, follow) /\ UNCHANGED <<tables, panel>>
    BY <1>4 DEF ShowButton, ClickButton
  <2> DEFINE id == <<"local", k>>
  <2>2. op \in Ops /\ id \in AccountIds
    BY <2>1, AccountAssumption DEF Given, AccountIds, Kinds
  <2>3. ~(op \in Adders \cup {"activate", "remove"} /\ op # "nip07") /\ op # "add_local"
    BY DEF Adders
  <2> HIDE DEF id
  <2>4. Given(op, id, t, follow)
    BY <2>1 DEF id
  <2> QED BY <2>1, <2>2, <2>3, <2>4, GivenKeeps
<1> QED BY <1>1, <1>2, <1>3, <1>4 DEF User

-----------------------------------------------------------------------------
\* The calls that write.

LEMMA AddAccountKeeps == ASSUME AccountInv, NEW c \in Slots, AddAccount(c) PROVE AccountInv'
<1> DEFINE yes == [cmds[c] EXCEPT !.pc = "save", !.pick = cmds[c].id]
           no  == Broken([cmds[c] EXCEPT !.pc = "list"])
<1> SUFFICES AccountInv' OBVIOUS
<1>1. /\ cmds[c].pc = "add" /\ CommandTypes(cmds[c]) /\ TablesTyped
      /\ cmds[c].id \in AccountIds /\ (Lone(c) => Stage(c))
  BY CommandTyped DEF AddAccount, At, CommandTypes
<1>2. /\ CommandTypes(yes) /\ yes.pc = "save" /\ yes.pick = cmds[c].id
      /\ \A f \in CmdFields \ {"pc", "pick"} : yes[f] = cmds[c][f]
  BY <1>1 DEF CommandTypes, CmdFields
<1>3. /\ CommandTypes(no) /\ no.pc = "list" /\ ~no.clean
      /\ no.op = cmds[c].op /\ no.alone = cmds[c].alone
  BY <1>1 DEF CommandTypes, CmdFields, Broken
<1>4. /\ \/ cmds' = [cmds EXCEPT ![c] = yes] /\ PutAccount(cmds[c].id)
         \/ /\ cmds' = [cmds EXCEPT ![c] = no]
            /\ PutAccount(cmds[c].id) \/ UNCHANGED <<accounts, secrets, clock>>
      /\ UNCHANGED panel
  BY DEF AddAccount, Write, Continue
<1> HIDE DEF yes, no
<1>5. PutAccount(cmds[c].id) =>
        /\ TablesTyped' /\ cmds[c].id \in IdsOf(Stored)'
        /\ cmds[c].id[1] = "local" => KeyOf(cmds[c].id) \in secrets'
  <2> SUFFICES ASSUME PutAccount(cmds[c].id)
               PROVE  /\ TablesTyped' /\ cmds[c].id \in IdsOf(Stored)'
                      /\ cmds[c].id[1] = "local" => KeyOf(cmds[c].id) \in secrets'
    OBVIOUS
  <2>1. PICK k \in Keys, kd \in Kinds : cmds[c].id = <<kd, k>>
    BY <1>1 DEF AccountIds
  <2>2. /\ KeyOf(cmds[c].id) = k /\ cmds[c].id[1] = kd
        /\ NewRow(cmds[c].id) = [kind |-> kd, at |-> clock + 1]
    BY <2>1 DEF KeyOf, NewRow
  <2>3. accounts' = [accounts EXCEPT ![k] = [kind |-> kd, at |-> clock + 1]] /\ clock' = clock + 1
    BY <2>2 DEF PutAccount
  <2>4. clock \in Nat /\ \A x \in Keys : accounts[x].at \in Nat /\ accounts[x].at <= clock
    BY <1>1 DEF TablesTyped, NoRow
  <2>5. TablesTyped'
    <3>1. accounts' \in [Keys -> {NoRow} \cup [kind : Kinds, at : Nat]]
      BY <1>1, <2>3, <2>4 DEF TablesTyped
    <3>2. \A x \in Keys : accounts'[x].at <= clock'
      BY <1>1, <2>3, <2>4 DEF TablesTyped
    <3> QED BY <1>1, <1>4, <2>3, <2>4, <3>1, <3>2 DEF TablesTyped
  <2>6. accounts'[k] = [kind |-> kd, at |-> clock + 1]
    BY <1>1, <2>3 DEF TablesTyped
  <2>7. accounts'[k] # NoRow
    BY <2>6 DEF NoRow, Kinds
  <2>8. <<kd, k>> \in IdsOf(Stored)'
    <3>1. [id |-> <<kd, k>>, at |-> clock + 1] \in Stored'
      BY <2>6, <2>7 DEF Stored
    <3> QED BY <3>1 DEF IdsOf
  <2>9. cmds[c].id[1] = "local" => KeyOf(cmds[c].id) \in secrets'
    BY <2>2 DEF PutAccount
  <2> QED BY <2>1, <2>5, <2>8, <2>9
<1>6. TablesTyped'
  BY <1>1, <1>4, <1>5 DEF TablesTyped
<1>7. CASE cmds' = [cmds EXCEPT ![c] = no]
  BY <1>1, <1>3, <1>6, <1>7, MoveKeeps
<1>8. CASE cmds' = [cmds EXCEPT ![c] = yes] /\ PutAccount(cmds[c].id)
  <2>1. cmds'[c] = yes
    BY <1>8, CommandTyped
  <2>2. ASSUME Lone(c) PROVE Stage(c)'
    <3>1. /\ cmds[c].op \in Adders /\ cmds[c].list = {} /\ ~cmds[c].freed
          /\ cmds[c].op = "add_local" => cmds[c].id[1] = "local"
      BY <1>1, <2>2 DEF Stage
    <3>2. /\ yes.op = cmds[c].op /\ yes.list = {} /\ ~yes.freed /\ yes.id = cmds[c].id
      BY <1>2, <3>1 DEF CmdFields
    <3>3. DoneSoFar(c)'
      BY <1>5, <1>8, <2>1, <3>1, <3>2 DEF DoneSoFar, Adders
    <3> QED BY <1>2, <1>5, <1>8, <2>1, <3>1, <3>2, <3>3 DEF Stage
  <2>3. yes.alone = cmds[c].alone /\ yes.op = cmds[c].op /\ yes.clean = cmds[c].clean
    BY <1>2 DEF CmdFields
  <2> QED BY <1>1, <1>2, <1>6, <1>8, <2>2, <2>3, MoveKeeps
<1> QED BY <1>4, <1>7, <1>8

LEMMA SignerKeeps == ASSUME AccountInv, NEW c \in Slots, SignerAnswers(c) PROVE AccountInv'
<1>1. /\ cmds[c].pc = "signer" /\ CommandTypes(cmds[c]) /\ TablesTyped'
      /\ (Lone(c) => Stage(c))
  BY CommandTyped DEF SignerAnswers, At, TablesTyped, tables
<1>2. ASSUME cmds' = [cmds EXCEPT ![c] = Broken([cmds[c] EXCEPT !.pc = "list"])]
      PROVE  AccountInv'
  <2> DEFINE no == Broken([cmds[c] EXCEPT !.pc = "list"])
  <2>1. /\ CommandTypes(no) /\ ~no.clean /\ no.op = cmds[c].op /\ no.alone = cmds[c].alone
    BY <1>1 DEF CommandTypes, CmdFields, Broken
  <2>2. cmds' = [cmds EXCEPT ![c] = no]
    BY <1>2
  <2> HIDE DEF no
  <2> QED BY <1>1, <2>1, <2>2, MoveKeeps
<1>3. ASSUME NEW k \in Keys,
             cmds' = [cmds EXCEPT ![c] = [cmds[c] EXCEPT !.pc = "add", !.id = <<"nip07", k>>]]
      PROVE  AccountInv'
  <2> DEFINE yes == [cmds[c] EXCEPT !.pc = "add", !.id = <<"nip07", k>>]
  <2>1. <<"nip07", k>> \in AccountIds
    BY DEF AccountIds, Kinds
  <2>2. /\ CommandTypes(yes) /\ yes.pc = "add" /\ yes.id \in AccountIds
        /\ \A f \in CmdFields \ {"pc", "id"} : yes[f] = cmds[c][f]
    BY <1>1, <2>1 DEF CommandTypes, CmdFields
  <2>3. cmds' = [cmds EXCEPT ![c] = yes] /\ cmds'[c] = yes
    BY <1>3, CommandTyped
  <2> HIDE DEF yes
  <2>4. ASSUME Lone(c) PROVE Stage(c)'
    <3>1. cmds[c].op = "nip07" /\ cmds[c].list = {} /\ ~cmds[c].freed
      BY <1>1, <2>4 DEF Stage
    <3> QED BY <2>2, <2>3, <3>1 DEF Stage, CmdFields, Adders
  <2>5. yes.alone = cmds[c].alone /\ yes.op = cmds[c].op /\ yes.clean = cmds[c].clean
    BY <2>2 DEF CmdFields
  <2> QED BY <1>1, <2>2, <2>3, <2>4, <2>5, MoveKeeps
<1> QED BY <1>2, <1>3 DEF SignerAnswers, Continue

\* The command of c at another call, and what the other fields stay.
To(c, p) == [cmds[c] EXCEPT !.pc = p]

LEMMA ToFields ==
  ASSUME AccountInv, NEW c \in Slots, NEW p, p # "add"
  PROVE  /\ CommandTypes(To(c, p)) /\ To(c, p).pc = p
         /\ \A f \in CmdFields \ {"pc"} : To(c, p)[f] = cmds[c][f]
<1>1. CommandTypes(cmds[c])
  BY CommandTyped
<1> QED BY <1>1 DEF To, CommandTypes, CmdFields

\* A call that failed.
LEMMA BrokenKeeps ==
  ASSUME AccountInv, NEW c \in Slots, cmds[c].pc \notin {"idle", "done"}, TablesTyped',
         NEW r, cmds' = [cmds EXCEPT ![c] = Broken(r)], CommandTypes(r),
         r.alone = cmds[c].alone, r.op = cmds[c].op
  PROVE  AccountInv'
<1> DEFINE no == Broken(r)
<1>1. CommandTypes(no) /\ ~no.clean /\ no.op = cmds[c].op /\ no.alone = cmds[c].alone
  BY DEF CommandTypes, CmdFields, Broken
<1>2. cmds' = [cmds EXCEPT ![c] = no]
  OBVIOUS
<1> HIDE DEF no
<1> QED BY <1>1, <1>2, MoveKeeps

LEMMA BrokenToKeeps ==
  ASSUME AccountInv, NEW c \in Slots, cmds[c].pc \notin {"idle", "done"}, TablesTyped',
         NEW p, p # "add", cmds' = [cmds EXCEPT ![c] = Broken(To(c, p))]
  PROVE  AccountInv'
<1>1. To(c, p).alone = cmds[c].alone /\ To(c, p).op = cmds[c].op
  BY ToFields DEF CmdFields
<1> QED BY <1>1, ToFields, BrokenKeeps

LEMMA ToKeeps ==
  ASSUME AccountInv, NEW c \in Slots, cmds[c].pc \notin {"idle", "done"}, TablesTyped',
         NEW p, p # "add", cmds' = [cmds EXCEPT ![c] = To(c, p)], Lone(c) => Stage(c)'
  PROVE  AccountInv'
<1>1. /\ To(c, p).alone = cmds[c].alone /\ To(c, p).op = cmds[c].op
      /\ To(c, p).clean = cmds[c].clean
  BY ToFields DEF CmdFields
<1> QED BY <1>1, ToFields, MoveKeeps

LEMMA FindKeeps == ASSUME AccountInv, NEW c \in Slots, FindAccount(c) PROVE AccountInv'
<1> DEFINE found == AccountOf(KeyOf(cmds[c].id))
           yes   == [cmds[c] EXCEPT !.pick = found,
                                    !.pc = IF found[1] = "local" THEN "probe" ELSE "save"]
<1> SUFFICES AccountInv' OBVIOUS
<1>1. /\ cmds[c].pc = "get" /\ CommandTypes(cmds[c]) /\ TablesTyped /\ TablesTyped'
      /\ (Lone(c) => Stage(c)) /\ UNCHANGED tables
  BY CommandTyped DEF FindAccount, At, TablesTyped, tables
<1>2. /\ CommandTypes(yes) /\ yes.pc \in {"probe", "save"} /\ yes.pick = found
      /\ \A f \in CmdFields \ {"pc", "pick"} : yes[f] = cmds[c][f]
  BY <1>1 DEF CommandTypes, CmdFields
<1>3. \/ found # NoId /\ cmds' = [cmds EXCEPT ![c] = yes]
      \/ cmds' = [cmds EXCEPT ![c] = Broken(To(c, "list"))]
  BY DEF FindAccount, Continue, To
<1>4. cmds[c].id \in AccountIds /\ found # NoId =>
         found \in IdsOf(Stored) /\ KeyOf(found) = KeyOf(cmds[c].id)
  <2> SUFFICES ASSUME cmds[c].id \in AccountIds, found # NoId
               PROVE  found \in IdsOf(Stored) /\ KeyOf(found) = KeyOf(cmds[c].id)
    OBVIOUS
  <2>1. KeyOf(cmds[c].id) \in Keys
    BY DEF KeyOf, AccountIds
  <2>2. /\ accounts[KeyOf(cmds[c].id)] # NoRow
        /\ found = <<accounts[KeyOf(cmds[c].id)].kind, KeyOf(cmds[c].id)>>
    BY DEF AccountOf
  <2>3. KeyOf(found) = KeyOf(cmds[c].id)
    BY <2>2 DEF KeyOf
  <2> QED BY <1>1, <2>1, <2>2, <2>3, IdsArePairs
<1> HIDE DEF yes, found
<1>5. CASE cmds' = [cmds EXCEPT ![c] = Broken(To(c, "list"))]
  BY <1>1, <1>5, BrokenToKeeps
<1>6. CASE found # NoId /\ cmds' = [cmds EXCEPT ![c] = yes]
  <2>1. cmds'[c] = yes
    BY <1>6, CommandTyped
  <2>2. ASSUME Lone(c) PROVE Stage(c)'
    <3>1. /\ cmds[c].op = "activate" /\ cmds[c].list = {} /\ ~cmds[c].freed
          /\ cmds[c].id \in AccountIds
      BY <1>1, <2>2 DEF Stage
    <3>2. /\ yes.op = "activate" /\ yes.list = {} /\ ~yes.freed /\ yes.id = cmds[c].id
      BY <1>2, <3>1 DEF CmdFields
    <3>3. Stored' = Stored
      BY <1>1 DEF Stored, tables
    <3>4. DoneSoFar(c)'
      BY <2>1, <3>2 DEF DoneSoFar
    <3>5. yes.pick \in IdsOf(Stored') /\ KeyOf(yes.pick) = KeyOf(yes.id)
      BY <1>2, <1>4, <1>6, <3>1, <3>2, <3>3
    <3> QED BY <1>2, <2>1, <3>2, <3>3, <3>4, <3>5 DEF Stage, Adders
  <2>3. yes.alone = cmds[c].alone /\ yes.op = cmds[c].op /\ yes.clean = cmds[c].clean
    BY <1>2 DEF CmdFields
  <2> QED BY <1>1, <1>2, <1>6, <2>2, <2>3, MoveKeeps
<1> QED BY <1>3, <1>5, <1>6

LEMMA ProbeKeeps == ASSUME AccountInv, NEW c \in Slots, ProbeSecret(c) PROVE AccountInv'
<1>1. /\ cmds[c].pc = "probe" /\ TablesTyped' /\ (Lone(c) => Stage(c)) /\ UNCHANGED tables
      /\ cmds' = [cmds EXCEPT ![c] = To(c, "save")]
  BY CommandTyped DEF ProbeSecret, At, TablesTyped, tables, Continue, To
<1>2. cmds'[c] = To(c, "save") /\ Stored' = Stored
  BY <1>1, CommandTyped DEF Stored, tables
<1>3. /\ cmds'[c].pc = "save" /\ \A f \in CmdFields \ {"pc"} : cmds'[c][f] = cmds[c][f]
  BY <1>2, ToFields
<1>4. ASSUME Lone(c) PROVE Stage(c)'
  <2>1. /\ cmds'[c].op = cmds[c].op /\ cmds'[c].list = cmds[c].list
        /\ cmds'[c].freed = cmds[c].freed /\ cmds'[c].pick = cmds[c].pick
        /\ cmds'[c].id = cmds[c].id
    BY <1>3 DEF CmdFields
  <2>2. DoneSoFar(c) => DoneSoFar(c)'
    BY <1>1, <2>1 DEF DoneSoFar, tables
  <2> QED BY <1>1, <1>2, <1>3, <1>4, <2>1, <2>2 DEF Stage
<1> QED BY <1>1, <1>4, ToKeeps

LEMMA SaveKeeps == ASSUME AccountInv, NEW c \in Slots, SaveSelector(c) PROVE AccountInv'
<1> DEFINE next == IF Resolving(cmds[c])
                   THEN [cmds[c] EXCEPT !.pc = "resolved", !.active = cmds[c].pick]
                   ELSE To(c, "list")
           no   == [next EXCEPT !.noted = TRUE]
<1> SUFFICES AccountInv' OBVIOUS
<1>1. /\ cmds[c].pc = "save" /\ CommandTypes(cmds[c]) /\ TablesTyped' /\ (Lone(c) => Stage(c))
      /\ UNCHANGED <<accounts, secrets, clock, panel>>
  BY CommandTyped DEF SaveSelector, At, TablesTyped
<1>2. /\ CommandTypes(next) /\ next.pc \in {"resolved", "list"}
      /\ \A f \in CmdFields \ {"pc", "active"} : next[f] = cmds[c][f]
      /\ Resolving(cmds[c]) => next.pc = "resolved" /\ next.active = cmds[c].pick
      /\ ~Resolving(cmds[c]) => next.pc = "list"
  BY <1>1 DEF CommandTypes, CmdFields, To
<1>3. CommandTypes(no) /\ no.alone = cmds[c].alone /\ no.op = cmds[c].op
  <2> HIDE DEF next
  <2> QED BY <1>2 DEF CommandTypes, CmdFields
<1>4. \/ selector' = cmds[c].pick /\ cmds' = [cmds EXCEPT ![c] = next]
      \/ cmds' = [cmds EXCEPT ![c] = Broken(no)]
  BY DEF SaveSelector, Continue, To
<1> HIDE DEF next, no
<1>5. CASE cmds' = [cmds EXCEPT ![c] = Broken(no)]
  BY <1>1, <1>3, <1>5, BrokenKeeps
<1>6. CASE selector' = cmds[c].pick /\ cmds' = [cmds EXCEPT ![c] = next]
  <2>1. cmds'[c] = next /\ Stored' = Stored
    BY <1>1, <1>6, CommandTyped DEF Stored
  <2>2. /\ next.op = cmds[c].op /\ next.list = cmds[c].list /\ next.freed = cmds[c].freed
        /\ next.id = cmds[c].id /\ next.alone = cmds[c].alone /\ next.clean = cmds[c].clean
    BY <1>2 DEF CmdFields
  <2>3. DoneSoFar(c) => DoneSoFar(c)'
    BY <1>1, <2>1, <2>2 DEF DoneSoFar
  <2>4. ASSUME Lone(c) PROVE Stage(c)'
    <3>1. CASE cmds[c].list = {}
      <4>1. /\ ~cmds[c].freed /\ DoneSoFar(c) /\ cmds[c].pick \in IdsOf(Stored)
            /\ IF cmds[c].op \in Adders THEN cmds[c].pick = cmds[c].id
               ELSE KeyOf(cmds[c].pick) = KeyOf(cmds[c].id)
        BY <1>1, <2>4, <3>1 DEF Stage
      <4>2. next.pc = "list"
        BY <1>2, <3>1 DEF Resolving
      <4>3. ReadyToList(c)'
        BY <1>6, <2>1, <2>2, <2>3, <4>1 DEF ReadyToList, Adders
      <4> QED BY <2>1, <4>2, <4>3 DEF Stage
    <3>2. CASE cmds[c].list # {}
      <4>1. /\ cmds[c].list = Stored /\ cmds[c].op \notin Adders \cup {"activate"} /\ DoneSoFar(c)
            /\ cmds[c].pick \in IdsOf(Stored)
            /\ cmds[c].freed => cmds[c].pick = Newest(Stored)
        BY <1>1, <2>4, <3>2 DEF Stage
      <4>2. next.pc = "resolved" /\ next.active = cmds[c].pick
        BY <1>2, <3>2 DEF Resolving
      <4>3. Repaired(c)'
        BY <1>6, <2>1, <2>2, <2>3, <3>2, <4>1, <4>2 DEF Repaired
      <4> QED BY <2>1, <4>2, <4>3 DEF Stage
    <3> QED BY <3>1, <3>2
  <2> QED BY <1>1, <1>2, <1>6, <2>2, <2>4, MoveKeeps
<1> QED BY <1>4, <1>5, <1>6

LEMMA DropKeeps == ASSUME AccountInv, NEW c \in Slots, DropAccount(c) PROVE AccountInv'
<1> DEFINE yes == [cmds[c] EXCEPT !.pc = "forget", !.ok = TRUE]
<1> SUFFICES AccountInv' OBVIOUS
<1>1. /\ cmds[c].pc = "drop" /\ CommandTypes(cmds[c]) /\ TablesTyped /\ (Lone(c) => Stage(c))
      /\ UNCHANGED <<clock, panel>>
      /\ accounts' \in {[accounts EXCEPT ![KeyOf(cmds[c].id)] = NoRow], accounts}
  BY CommandTyped DEF DropAccount, At, Write, DeleteAccount
<1>2. TablesTyped'
  <2>1. clock \in Nat /\ NoRow.at <= clock
    BY <1>1 DEF TablesTyped, NoRow
  <2>2. accounts' \in [Keys -> {NoRow} \cup [kind : Kinds, at : Nat]]
    BY <1>1 DEF TablesTyped
  <2>3. \A k \in Keys : accounts'[k].at <= clock
    BY <1>1, <2>1 DEF TablesTyped
  <2> QED BY <1>1, <2>2, <2>3 DEF TablesTyped
<1>3. /\ CommandTypes(yes) /\ yes.pc = "forget" /\ yes.ok
      /\ \A f \in CmdFields \ {"pc", "ok"} : yes[f] = cmds[c][f]
  BY <1>1 DEF CommandTypes, CmdFields
<1>4. \/ cmds' = [cmds EXCEPT ![c] = yes] /\ DeleteAccount(KeyOf(cmds[c].id))
      \/ cmds' = [cmds EXCEPT ![c] = Broken(To(c, "forget"))]
  BY DEF DropAccount, Write, Continue, To
<1> HIDE DEF yes
<1>5. CASE cmds' = [cmds EXCEPT ![c] = Broken(To(c, "forget"))]
  BY <1>1, <1>2, <1>5, BrokenToKeeps
<1>6. CASE cmds' = [cmds EXCEPT ![c] = yes] /\ DeleteAccount(KeyOf(cmds[c].id))
  <2>1. cmds'[c] = yes
    BY <1>6, CommandTyped
  <2>2. /\ yes.op = cmds[c].op /\ yes.id = cmds[c].id /\ yes.freed = cmds[c].freed
        /\ yes.alone = cmds[c].alone /\ yes.clean = cmds[c].clean
    BY <1>3 DEF CmdFields
  <2>3. ASSUME Lone(c) PROVE Stage(c)'
    <3>1. cmds[c].op = "remove" /\ cmds[c].id \in AccountIds /\ ~cmds[c].freed
      BY <1>1, <2>3 DEF Stage
    <3>2. KeyOf(cmds[c].id) \in Keys
      BY <3>1 DEF KeyOf, AccountIds
    <3>3. accounts'[KeyOf(cmds[c].id)] = NoRow
      BY <1>1, <1>6, <3>2 DEF DeleteAccount, TablesTyped
    <3> QED BY <1>3, <2>1, <2>2, <3>1, <3>3 DEF Stage
  <2> QED BY <1>1, <1>2, <1>3, <1>6, <2>2, <2>3, MoveKeeps
<1> QED BY <1>4, <1>5, <1>6

LEMMA ForgetKeeps == ASSUME AccountInv, NEW c \in Slots, ForgetSecret(c) PROVE AccountInv'
<1> DEFINE p == IF cmds[c].ok THEN "unselect" ELSE "list"
<1> SUFFICES AccountInv' OBVIOUS
<1>1. /\ cmds[c].pc = "forget" /\ TablesTyped' /\ (Lone(c) => Stage(c))
      /\ UNCHANGED accounts /\ p # "add"
  BY CommandTyped DEF ForgetSecret, At, TablesTyped
<1>2. \/ cmds' = [cmds EXCEPT ![c] = To(c, p)] /\ DeleteSecret(KeyOf(cmds[c].id))
      \/ cmds' = [cmds EXCEPT ![c] = Broken(To(c, p))]
  BY DEF ForgetSecret, Write, Continue, To
<1>3. CASE cmds' = [cmds EXCEPT ![c] = Broken(To(c, p))]
  <2> HIDE DEF p
  <2> QED BY <1>1, <1>3, BrokenToKeeps
<1>4. CASE cmds' = [cmds EXCEPT ![c] = To(c, p)] /\ DeleteSecret(KeyOf(cmds[c].id))
  <2>1. /\ cmds'[c].pc = p /\ \A f \in CmdFields \ {"pc"} : cmds'[c][f] = cmds[c][f]
    <3> HIDE DEF p
    <3>1. cmds'[c] = To(c, p)
      BY <1>4, CommandTyped
    <3> QED BY <1>1, <3>1, ToFields
  <2>2. /\ cmds'[c].op = cmds[c].op /\ cmds'[c].id = cmds[c].id
        /\ cmds'[c].freed = cmds[c].freed
    BY <2>1 DEF CmdFields
  <2>3. ASSUME Lone(c) PROVE Stage(c)'
    <3>1. /\ cmds[c].op = "remove" /\ ~cmds[c].freed /\ cmds[c].ok
          /\ accounts[KeyOf(cmds[c].id)] = NoRow
      BY <1>1, <2>3 DEF Stage
    <3>2. KeyOf(cmds[c].id) \notin secrets'
      BY <1>4 DEF DeleteSecret
    <3>3. DoneSoFar(c)'
      BY <1>1, <2>2, <3>1, <3>2 DEF DoneSoFar
    <3> QED BY <2>1, <2>2, <3>1, <3>3 DEF Stage
  <2> HIDE DEF p
  <2> QED BY <1>1, <1>4, <2>3, ToKeeps
<1> QED BY <1>2, <1>3, <1>4

\* The tables a call that only reads or writes the selector leaves.
LEMMA SelectorStep ==
  ASSUME AccountInv, NEW c \in Slots, UNCHANGED <<accounts, secrets, clock, panel>>
  PROVE  /\ TablesTyped' /\ Stored' = Stored
         /\ \A p : p # "add" /\ cmds' = [cmds EXCEPT ![c] = To(c, p)] =>
              /\ cmds'[c].pc = p /\ \A f \in CmdFields \ {"pc"} : cmds'[c][f] = cmds[c][f]
              /\ DoneSoFar(c) => DoneSoFar(c)'
<1>1. TablesTyped' /\ Stored' = Stored
  BY CommandTyped DEF TablesTyped, Stored
<1>2. ASSUME NEW p, p # "add", cmds' = [cmds EXCEPT ![c] = To(c, p)]
      PROVE  /\ cmds'[c].pc = p /\ \A f \in CmdFields \ {"pc"} : cmds'[c][f] = cmds[c][f]
             /\ DoneSoFar(c) => DoneSoFar(c)'
  <2>1. cmds'[c].pc = p /\ \A f \in CmdFields \ {"pc"} : cmds'[c][f] = cmds[c][f]
    <3>1. cmds'[c] = To(c, p)
      BY <1>2, CommandTyped
    <3> QED BY <1>2, <3>1, ToFields
  <2>2. cmds'[c].op = cmds[c].op /\ cmds'[c].id = cmds[c].id
    BY <2>1 DEF CmdFields
  <2> QED BY <2>1, <2>2 DEF DoneSoFar
<1> QED BY <1>1, <1>2

LEMMA UnselectKeeps == ASSUME AccountInv, NEW c \in Slots, Unselect(c) PROVE AccountInv'
<1>1. /\ cmds[c].pc = "unselect" /\ TablesTyped' /\ (Lone(c) => Stage(c))
      /\ UNCHANGED <<accounts, secrets, clock, panel>>
  BY CommandTyped DEF Unselect, At, TablesTyped
<1>2. \/ \E p \in {"deselect", "list"} : cmds' = [cmds EXCEPT ![c] = To(c, p)]
      \/ cmds' = [cmds EXCEPT ![c] = Broken(To(c, "list"))]
  BY DEF Unselect, Continue, To
<1>3. CASE cmds' = [cmds EXCEPT ![c] = Broken(To(c, "list"))]
  BY <1>1, <1>3, BrokenToKeeps
<1>4. ASSUME NEW p \in {"deselect", "list"}, cmds' = [cmds EXCEPT ![c] = To(c, p)]
      PROVE  AccountInv'
  <2>1. ASSUME Lone(c) PROVE Stage(c)'
    <3>1. cmds[c].op = "remove" /\ ~cmds[c].freed /\ DoneSoFar(c)
      BY <1>1, <2>1 DEF Stage
    <3>2. /\ cmds'[c].pc = p /\ \A f \in CmdFields \ {"pc"} : cmds'[c][f] = cmds[c][f]
          /\ DoneSoFar(c)'
      BY <1>1, <1>4, <3>1, SelectorStep
    <3>3. cmds'[c].op = "remove" /\ ~cmds'[c].freed
      BY <3>1, <3>2 DEF CmdFields
    <3>4. ReadyToList(c)'
      BY <3>2, <3>3 DEF ReadyToList, Adders
    <3> QED BY <3>2, <3>3, <3>4 DEF Stage
  <2> QED BY <1>1, <1>4, <2>1, ToKeeps
<1> QED BY <1>2, <1>3, <1>4

LEMMA DeselectKeeps == ASSUME AccountInv, NEW c \in Slots, DeleteSelector(c) PROVE AccountInv'
<1> DEFINE yes == [cmds[c] EXCEPT !.pc = "list", !.freed = TRUE]
<1> SUFFICES AccountInv' OBVIOUS
<1>1. /\ cmds[c].pc = "deselect" /\ CommandTypes(cmds[c]) /\ TablesTyped'
      /\ (Lone(c) => Stage(c)) /\ UNCHANGED <<accounts, secrets, clock, panel>>
  BY CommandTyped DEF DeleteSelector, At, TablesTyped
<1>2. /\ CommandTypes(yes) /\ yes.pc = "list"
      /\ \A f \in CmdFields \ {"pc", "freed"} : yes[f] = cmds[c][f]
  BY <1>1 DEF CommandTypes, CmdFields
<1>3. \/ cmds' = [cmds EXCEPT ![c] = yes] /\ selector' = NoId /\ legacy' = NoId
      \/ cmds' = [cmds EXCEPT ![c] = Broken(To(c, "list"))]
  BY DEF DeleteSelector, Write, Continue, To, ClearedLegacy
<1> HIDE DEF yes
<1>4. CASE cmds' = [cmds EXCEPT ![c] = Broken(To(c, "list"))]
  BY <1>1, <1>4, BrokenToKeeps
<1>5. CASE cmds' = [cmds EXCEPT ![c] = yes] /\ selector' = NoId /\ legacy' = NoId
  <2>1. cmds'[c] = yes
    BY <1>5, CommandTyped
  <2>2. /\ yes.op = cmds[c].op /\ yes.id = cmds[c].id
        /\ yes.alone = cmds[c].alone /\ yes.clean = cmds[c].clean
    BY <1>2 DEF CmdFields
  <2>3. ASSUME Lone(c) PROVE Stage(c)'
    <3>1. cmds[c].op = "remove" /\ DoneSoFar(c)
      BY <1>1, <2>3 DEF Stage
    <3>2. ReadyToList(c)'
      BY <1>1, <1>5, <2>1, <2>2, <3>1 DEF ReadyToList, DoneSoFar, Adders
    <3> QED BY <1>2, <2>1, <3>2 DEF Stage
  <2> QED BY <1>1, <1>2, <1>5, <2>2, <2>3, MoveKeeps
<1> QED BY <1>3, <1>4, <1>5

LEMMA RevealKeeps == ASSUME AccountInv, NEW c \in Slots, RevealSecret(c) PROVE AccountInv'
<1> DEFINE yes == [cmds[c] EXCEPT !.pc = "list", !.ok = SecretHeld(KeyOf(cmds[c].id))]
<1> SUFFICES AccountInv' OBVIOUS
<1>1. /\ cmds[c].pc = "reveal" /\ CommandTypes(cmds[c]) /\ TablesTyped'
      /\ (Lone(c) => Stage(c))
  BY CommandTyped DEF RevealSecret, At, TablesTyped, tables
<1>2. /\ CommandTypes(yes) /\ yes.pc = "list"
      /\ \A f \in CmdFields \ {"pc", "ok"} : yes[f] = cmds[c][f]
  BY <1>1 DEF CommandTypes, CmdFields
<1>3. \/ cmds' = [cmds EXCEPT ![c] = yes]
      \/ cmds' = [cmds EXCEPT ![c] = Broken(To(c, "list"))]
  BY DEF RevealSecret, Continue, To
<1> HIDE DEF yes
<1>4. CASE cmds' = [cmds EXCEPT ![c] = Broken(To(c, "list"))]
  BY <1>1, <1>4, BrokenToKeeps
<1>5. CASE cmds' = [cmds EXCEPT ![c] = yes]
  <2>1. cmds'[c] = yes
    BY <1>5, CommandTyped
  <2>2. /\ yes.op = cmds[c].op /\ yes.freed = cmds[c].freed
        /\ yes.alone = cmds[c].alone /\ yes.clean = cmds[c].clean
    BY <1>2 DEF CmdFields
  <2>3. ASSUME Lone(c) PROVE Stage(c)'
    <3>1. cmds[c].op = "reveal" /\ ~cmds[c].freed
      BY <1>1, <2>3 DEF Stage
    <3>2. ReadyToList(c)'
      BY <2>1, <2>2, <3>1 DEF ReadyToList, DoneSoFar, Adders
    <3> QED BY <1>2, <2>1, <3>2 DEF Stage
  <2> QED BY <1>1, <1>2, <1>5, <2>2, <2>3, MoveKeeps
<1> QED BY <1>3, <1>4, <1>5

LEMMA ImportKeeps == ASSUME AccountInv, NEW c \in Slots, ImportSettings(c) PROVE AccountInv'
<1>1. /\ cmds[c].pc = "import" /\ TablesTyped' /\ (Lone(c) => Stage(c))
      /\ UNCHANGED <<accounts, secrets, clock, panel>>
  BY CommandTyped DEF ImportSettings, At, TablesTyped
<1> DEFINE no == Broken(Done)
<1>2. /\ CommandTypes(no) /\ no.pc = "done"
  BY DoneIsTyped DEF CommandTypes, CmdFields, Broken
<1>3. cmds' = [cmds EXCEPT ![c] = Done] \/ cmds' = [cmds EXCEPT ![c] = no]
  BY DEF ImportSettings, Write, Continue
<1> HIDE DEF no
<1>4. CASE cmds' = [cmds EXCEPT ![c] = no]
  <2>1. cmds'[c] = no
    BY <1>4, CommandTyped
  <2> QED BY <1>1, <1>2, <1>4, <2>1, StepKeeps DEF Lone
<1> QED BY <1>1, <1>3, <1>4, DoneKeeps

-----------------------------------------------------------------------------
\* The calls that resolve the active account.

\* The record Resolved makes, of whichever list was read.
LEMMA ResolvedFields ==
  ASSUME NEW r, CommandTypes(r), NEW id
  PROVE  /\ CommandTypes(Resolved(r, id)) /\ Resolved(r, id).pc = "resolved"
         /\ Resolved(r, id).active = id
         /\ \A f \in CmdFields \ {"pc", "active"} : Resolved(r, id)[f] = r[f]
BY DEF Resolved, CommandTypes, CmdFields

\* A list that is read, or not.
LEMMA ReadFailedKeeps ==
  ASSUME AccountInv, NEW c \in Slots, cmds[c].pc \notin {"idle", "done"}, TablesTyped',
         cmds' = [cmds EXCEPT ![c] =
                    Broken(Resolved([cmds[c] EXCEPT !.noted = TRUE], NoId))]
  PROVE  AccountInv'
<1> DEFINE r == [cmds[c] EXCEPT !.noted = TRUE]
<1> SUFFICES AccountInv' OBVIOUS
<1>1. /\ CommandTypes(r) /\ \A f \in CmdFields \ {"noted"} : r[f] = cmds[c][f]
  BY CommandTyped DEF CommandTypes, CmdFields
<1>2. cmds' = [cmds EXCEPT ![c] = Broken(Resolved(r, NoId))]
  OBVIOUS
<1> HIDE DEF r
<1> DEFINE s == Resolved(r, NoId)
<1>3. /\ CommandTypes(s) /\ s.alone = cmds[c].alone /\ s.op = cmds[c].op
  BY <1>1, ResolvedFields DEF CmdFields
<1>4. cmds' = [cmds EXCEPT ![c] = Broken(s)]
  BY <1>2
<1> HIDE DEF s
<1> QED BY <1>3, <1>4, BrokenKeeps

LEMMA ListKeeps == ASSUME AccountInv, NEW c \in Slots, ListAccounts(c) PROVE AccountInv'
<1> DEFINE some == [cmds[c] EXCEPT !.list = Stored, !.pc = "selector"]
           none == [cmds[c] EXCEPT !.list = {}]
<1> SUFFICES AccountInv' OBVIOUS
<1>1. /\ cmds[c].pc = "list" /\ CommandTypes(cmds[c]) /\ TablesTyped /\ TablesTyped'
      /\ (Lone(c) => Stage(c)) /\ UNCHANGED tables
  BY CommandTyped DEF ListAccounts, At, TablesTyped, tables
<1>2. Stored \subseteq Listed /\ Stored' = Stored
  BY <1>1, IdsArePairs DEF Stored, tables
<1>3. /\ CommandTypes(some) /\ some.pc = "selector" /\ some.list = Stored
      /\ \A f \in CmdFields \ {"pc", "list"} : some[f] = cmds[c][f]
  BY <1>1, <1>2 DEF CommandTypes, CmdFields
<1>4. /\ CommandTypes(none) /\ none.list = {}
      /\ \A f \in CmdFields \ {"list"} : none[f] = cmds[c][f]
  BY <1>1 DEF CommandTypes, CmdFields
<1>5. \/ Stored = {} /\ cmds' = [cmds EXCEPT ![c] = Resolved(none, NoId)]
      \/ Stored # {} /\ cmds' = [cmds EXCEPT ![c] = some]
      \/ cmds' = [cmds EXCEPT ![c] =
                    Broken(Resolved([cmds[c] EXCEPT !.noted = TRUE], NoId))]
  BY DEF ListAccounts, Continue
<1> HIDE DEF some, none
<1>6. Lone(c) => ReadyToList(c)
  BY <1>1 DEF Stage
<1>7. CASE Stored = {} /\ cmds' = [cmds EXCEPT ![c] = Resolved(none, NoId)]
  <2> DEFINE next == Resolved(none, NoId)
  <2>1. /\ CommandTypes(next) /\ next.pc = "resolved" /\ next.active = NoId
        /\ \A f \in CmdFields \ {"pc", "active"} : next[f] = none[f]
    BY <1>4, ResolvedFields
  <2>2. cmds' = [cmds EXCEPT ![c] = next] /\ cmds'[c] = next
    BY <1>7, CommandTyped
  <2> HIDE DEF next
  <2>3. /\ next.op = cmds[c].op /\ next.id = cmds[c].id /\ next.freed = cmds[c].freed
        /\ next.alone = cmds[c].alone /\ next.clean = cmds[c].clean /\ next.list = {}
    BY <1>4, <2>1 DEF CmdFields
  <2>4. ASSUME Lone(c) PROVE Stage(c)'
    <3>1. cmds[c].op \notin Adders \cup {"activate"} /\ DoneSoFar(c)
      BY <1>6, <1>7, <2>4 DEF ReadyToList, IdsOf
    <3>2. DoneSoFar(c)'
      BY <1>1, <2>2, <2>3, <3>1 DEF DoneSoFar, tables
    <3>3. Repaired(c)'
      BY <1>2, <1>7, <2>1, <2>2, <2>3, <3>1, <3>2 DEF Repaired
    <3> QED BY <2>1, <2>2, <3>3 DEF Stage
  <2> QED BY <1>1, <2>1, <2>2, <2>3, <2>4, MoveKeeps
<1>8. CASE Stored # {} /\ cmds' = [cmds EXCEPT ![c] = some]
  <2>1. cmds'[c] = some
    BY <1>8, CommandTyped
  <2>2. /\ some.op = cmds[c].op /\ some.id = cmds[c].id /\ some.freed = cmds[c].freed
        /\ some.alone = cmds[c].alone /\ some.clean = cmds[c].clean
    BY <1>3 DEF CmdFields
  <2>3. ASSUME Lone(c) PROVE Stage(c)'
    <3>1. ReadyToList(c)'
      BY <1>1, <1>2, <1>6, <2>1, <2>2, <2>3 DEF ReadyToList, DoneSoFar, tables
    <3> QED BY <1>2, <1>3, <1>8, <2>1, <3>1 DEF Stage
  <2> QED BY <1>1, <1>3, <1>8, <2>2, <2>3, MoveKeeps
<1>9. CASE cmds' = [cmds EXCEPT ![c] =
                      Broken(Resolved([cmds[c] EXCEPT !.noted = TRUE], NoId))]
  BY <1>1, <1>9, ReadFailedKeeps
<1> QED BY <1>5, <1>7, <1>8, <1>9

\* The selector names an account of the list.
LEMMA SelectedKeeps ==
  ASSUME AccountInv, NEW c \in Slots, cmds[c].pc = "selector", UNCHANGED <<tables, panel>>,
         selector \in IdsOf(cmds[c].list),
         cmds' = [cmds EXCEPT ![c] = Resolved(cmds[c], selector)]
  PROVE  AccountInv'
<1> DEFINE next == Resolved(cmds[c], selector)
<1> SUFFICES AccountInv' OBVIOUS
<1>1. /\ CommandTypes(cmds[c]) /\ TablesTyped /\ TablesTyped' /\ (Lone(c) => Stage(c))
      /\ Stored' = Stored
  BY CommandTyped DEF TablesTyped, Stored, tables
<1>2. /\ CommandTypes(next) /\ next.pc = "resolved" /\ next.active = selector
      /\ \A f \in CmdFields \ {"pc", "active"} : next[f] = cmds[c][f]
  BY <1>1, ResolvedFields
<1>3. cmds' = [cmds EXCEPT ![c] = next] /\ cmds'[c] = next
  BY CommandTyped
<1> HIDE DEF next
<1>4. /\ next.op = cmds[c].op /\ next.id = cmds[c].id /\ next.freed = cmds[c].freed
      /\ next.alone = cmds[c].alone /\ next.clean = cmds[c].clean /\ next.list = cmds[c].list
  BY <1>2 DEF CmdFields
<1>5. ASSUME Lone(c) PROVE Stage(c)'
  <2>1. ReadyToList(c) /\ cmds[c].list = Stored /\ Stored # {}
    BY <1>1, <1>5 DEF Stage
  <2>2. ~cmds[c].freed
    BY <1>1, <2>1, IdsArePairs DEF ReadyToList
  <2>3. DoneSoFar(c)'
    BY <1>3, <1>4, <2>1 DEF ReadyToList, DoneSoFar, tables
  <2>4. Repaired(c)'
    BY <1>1, <1>2, <1>3, <1>4, <2>1, <2>2, <2>3 DEF Repaired, ReadyToList, tables
  <2> QED BY <1>2, <1>3, <2>4 DEF Stage
<1> QED BY <1>1, <1>2, <1>3, <1>4, <1>5, MoveKeeps

\* Another account of the list is made the active one.
LEMMA ChooseKeeps ==
  ASSUME AccountInv, NEW c \in Slots, cmds[c].pc = "selector", UNCHANGED <<tables, panel>>,
         NEW id, NEW noted \in BOOLEAN, selector \notin IdsOf(cmds[c].list),
         cmds' = [cmds EXCEPT ![c] = Choose(cmds[c], id, noted)],
         Lone(c) => /\ id \in IdsOf(Stored)
                    /\ legacy = NoId => id = Newest(Stored)
  PROVE  AccountInv'
<1> DEFINE next == Choose(cmds[c], id, noted)
<1> SUFFICES AccountInv' OBVIOUS
<1>1. /\ CommandTypes(cmds[c]) /\ TablesTyped /\ TablesTyped' /\ (Lone(c) => Stage(c))
      /\ Stored' = Stored
  BY CommandTyped DEF TablesTyped, Stored, tables
<1>2. /\ CommandTypes(next) /\ next.pc \in {"probe", "save"} /\ next.pick = id
      /\ \A f \in CmdFields \ {"pc", "pick", "noted"} : next[f] = cmds[c][f]
  BY <1>1 DEF Choose, CommandTypes, CmdFields
<1>3. cmds' = [cmds EXCEPT ![c] = next] /\ cmds'[c] = next
  BY CommandTyped
<1> HIDE DEF next
<1>4. /\ next.op = cmds[c].op /\ next.id = cmds[c].id /\ next.freed = cmds[c].freed
      /\ next.alone = cmds[c].alone /\ next.clean = cmds[c].clean /\ next.list = cmds[c].list
  BY <1>2 DEF CmdFields
<1>5. ASSUME Lone(c) PROVE Stage(c)'
  <2>1. ReadyToList(c) /\ cmds[c].list = Stored /\ Stored # {}
    BY <1>1, <1>5 DEF Stage
  <2>2. cmds[c].op \notin Adders \cup {"activate"} /\ (cmds[c].freed => legacy = NoId)
    BY <2>1 DEF ReadyToList
  <2>3. DoneSoFar(c)'
    BY <1>3, <1>4, <2>1 DEF ReadyToList, DoneSoFar, tables
  <2> QED BY <1>1, <1>2, <1>3, <1>4, <1>5, <2>1, <2>2, <2>3 DEF Stage
<1> QED BY <1>1, <1>2, <1>3, <1>4, <1>5, MoveKeeps

LEMMA ReadKeeps == ASSUME AccountInv, NEW c \in Slots, ReadSelector(c) PROVE AccountInv'
<1> DEFINE known  == IdsOf(cmds[c].list)
           other == IF legacy \in known THEN legacy ELSE Newest(cmds[c].list)
<1> SUFFICES AccountInv' OBVIOUS
<1>1. /\ cmds[c].pc = "selector" /\ TablesTyped /\ TablesTyped' /\ (Lone(c) => Stage(c))
      /\ UNCHANGED <<tables, panel>>
  BY CommandTyped DEF ReadSelector, At, TablesTyped, tables
<1>2. Lone(c) => /\ cmds[c].list = Stored /\ Newest(Stored) \in IdsOf(Stored)
                 /\ NoId \notin known
  BY <1>1, NewestIsStored, IdsArePairs DEF Stage
<1>3. NoId \notin known
  <2>1. \A a \in cmds[c].list : a.id # NoId
    BY <1>1, CommandTyped, IdsArePairs DEF CommandTypes, Listed
  <2> QED BY <2>1 DEF IdsOf
<1>4. \/ selector \in known /\ cmds' = [cmds EXCEPT ![c] = Resolved(cmds[c], selector)]
      \/ /\ selector \notin known
         /\ cmds' = [cmds EXCEPT ![c] = Choose(cmds[c], Newest(cmds[c].list), TRUE)]
      \/ /\ selector = NoId
         /\ cmds' = [cmds EXCEPT ![c] = Choose(cmds[c], other, FALSE)]
      \/ cmds' = [cmds EXCEPT ![c] =
                    Broken(Resolved([cmds[c] EXCEPT !.noted = TRUE], NoId))]
  BY DEF ReadSelector, Continue
<1>5. Lone(c) => other \in IdsOf(Stored) /\ (legacy = NoId => other = Newest(Stored))
  BY <1>2
<1>6. CASE selector \in known /\ cmds' = [cmds EXCEPT ![c] = Resolved(cmds[c], selector)]
  BY <1>1, <1>6, SelectedKeeps
<1>7. CASE /\ selector \notin known
           /\ cmds' = [cmds EXCEPT ![c] = Choose(cmds[c], Newest(cmds[c].list), TRUE)]
  <2> DEFINE id == Newest(cmds[c].list)
  <2>1. Lone(c) => id \in IdsOf(Stored) /\ (legacy = NoId => id = Newest(Stored))
    BY <1>2
  <2>2. cmds' = [cmds EXCEPT ![c] = Choose(cmds[c], id, TRUE)]
    BY <1>7
  <2> HIDE DEF id
  <2> QED BY <1>1, <1>7, <2>1, <2>2, ChooseKeeps
<1>8. CASE selector = NoId /\ cmds' = [cmds EXCEPT ![c] = Choose(cmds[c], other, FALSE)]
  <2>1. selector \notin IdsOf(cmds[c].list)
    BY <1>3, <1>8
  <2> HIDE DEF other
  <2> QED BY <1>1, <1>5, <1>8, <2>1, ChooseKeeps
<1>9. CASE cmds' = [cmds EXCEPT ![c] =
                      Broken(Resolved([cmds[c] EXCEPT !.noted = TRUE], NoId))]
  BY <1>1, <1>9, ReadFailedKeeps
<1> QED BY <1>4, <1>6, <1>7, <1>8, <1>9

LEMMA ShowKeeps ==
  ASSUME AccountInv, NEW c \in Slots, ShowAccounts(c) \/ ShowPage(c) PROVE AccountInv'
<1>1. /\ cmds[c].pc = "resolved" /\ CommandTypes(cmds[c]) /\ TablesTyped
      /\ cmds' = [cmds EXCEPT ![c] = Done] /\ UNCHANGED tables
      /\ panel'.list \in {panel.list, IdsOf(cmds[c].list)}
  BY CommandTyped DEF ShowAccounts, ShowPage, At, Continue
<1>2. IdsOf(cmds[c].list) \subseteq AccountIds
  BY <1>1 DEF CommandTypes, IdsOf, Listed
<1>3. TablesTyped'
  BY <1>1, <1>2 DEF TablesTyped, tables
<1> QED BY <1>1, <1>3, DoneKeeps

-----------------------------------------------------------------------------
\* A follow button's command makes no claim about the account tables.
Following == {"relays", "latest", "sign", "ask", "publish", "store", "stored"}

Follows(c) == \/ CheckAccount(c) \/ WriteRelays(c) \/ LatestList(c) \/ SignLocal(c)
              \/ AskExtension(c) \/ PublishEnds(c) \/ StoreList(c) \/ ShowToggle(c)
              \/ \E w \in Relays, v \in {"accepted", "refused"} : Vote(c, w, v)

\* It is done, or goes on as the same command.
GoesOn(c, r) == /\ CommandTypes(r) /\ cmds' = [cmds EXCEPT ![c] = r]
                /\ r.alone = cmds[c].alone /\ r.op = cmds[c].op /\ r.clean = cmds[c].clean

LEMMA FollowSteps ==
  ASSUME AccountInv, NEW c \in Slots, Follows(c)
  PROVE  cmds' = [cmds EXCEPT ![c] = Done] \/ \E r : GoesOn(c, r)
<1>1. CommandTypes(cmds[c])
  BY CommandTyped
<1>2. ASSUME NEW p \in Following, cmds' = [cmds EXCEPT ![c] = [cmds[c] EXCEPT !.pc = p]]
      PROVE  \E r : GoesOn(c, r)
  <2>1. GoesOn(c, [cmds[c] EXCEPT !.pc = p])
    BY <1>1, <1>2 DEF GoesOn, CommandTypes, CmdFields, Following
  <2> QED BY <2>1
<1>3. CASE CheckAccount(c) \/ WriteRelays(c) \/ PublishEnds(c) \/ StoreList(c) \/ ShowToggle(c)
  BY <1>2, <1>3 DEF CheckAccount, WriteRelays, PublishEnds, StoreList, ShowToggle, GiveUp,
                    Tell, Continue, Following
<1>4. CASE LatestList(c)
  <2> DEFINE t == NextTags(cmds[c], lists[KeyOf(cmds[c].id)])
             p == IF cmds[c].active[1] = "local" THEN "sign" ELSE "ask"
             r == [cmds[c] EXCEPT !.tags = t, !.pc = p]
  <2>1. cmds' = [cmds EXCEPT ![c] = Done] \/ cmds' = [cmds EXCEPT ![c] = r]
    BY <1>4 DEF LatestList, GiveUp, Tell, Continue
  <2>2. p # "add"
    OBVIOUS
  <2> HIDE DEF t, p
  <2>3. CommandTypes(r) /\ \A f \in CmdFields \ {"pc", "tags"} : r[f] = cmds[c][f]
    BY <1>1, <2>2 DEF CommandTypes, CmdFields
  <2> HIDE DEF r
  <2>4. cmds' = [cmds EXCEPT ![c] = r] => GoesOn(c, r)
    BY <2>3 DEF GoesOn, CmdFields
  <2> QED BY <2>1, <2>4
<1>5. CASE SignLocal(c) \/ AskExtension(c)
  <2>1. \/ cmds' = [cmds EXCEPT ![c] = Done] \/ \E k : Publish(c, k)
    BY <1>5 DEF SignLocal, AskExtension, GiveUp, Tell, Continue
  <2>2. ASSUME NEW k, Publish(c, k) PROVE \E r : GoesOn(c, r)
    <3> DEFINE r == [cmds[c] EXCEPT !.pc = "publish", !.pick = <<"author", k>>,
                                    !.votes = [w \in Relays |-> "sent"]]
    <3>1. CommandTypes(r) /\ \A f \in CmdFields \ {"pc", "pick", "votes"} : r[f] = cmds[c][f]
      BY <1>1 DEF CommandTypes, CmdFields
    <3>2. cmds' = [cmds EXCEPT ![c] = r]
      BY <2>2 DEF Publish, Continue
    <3> HIDE DEF r
    <3>3. GoesOn(c, r)
      BY <3>1, <3>2 DEF GoesOn, CmdFields
    <3> QED BY <3>3
  <2> QED BY <2>1, <2>2
<1>6. ASSUME NEW w \in Relays, NEW v, Vote(c, w, v) PROVE \E r : GoesOn(c, r)
  <2> DEFINE r == [cmds[c] EXCEPT !.votes = [@ EXCEPT ![w] = v]]
  <2>1. CommandTypes(r) /\ \A f \in CmdFields \ {"votes"} : r[f] = cmds[c][f]
    BY <1>1 DEF CommandTypes, CmdFields
  <2>2. cmds' = [cmds EXCEPT ![c] = r]
    BY <1>6 DEF Vote
  <2> HIDE DEF r
  <2>3. GoesOn(c, r)
    BY <2>1, <2>2 DEF GoesOn, CmdFields
  <2> QED BY <2>3
<1> QED BY <1>3, <1>4, <1>5, <1>6 DEF Follows

LEMMA FollowKeeps == ASSUME AccountInv, NEW c \in Slots, Follows(c) PROVE AccountInv'
<1>1. /\ \/ cmds[c].pc \in Following
         \/ cmds[c].pc = "resolved" /\ cmds[c].op = "toggle"
      /\ UNCHANGED <<accounts, clock, panel>>
  BY DEF Follows, CheckAccount, WriteRelays, LatestList, SignLocal, AskExtension,
         PublishEnds, StoreList, ShowToggle, Vote, At, tables, Following
<1>2. TablesTyped'
  BY <1>1, CommandTyped DEF TablesTyped
<1>3. ~Lone(c)
  <2>1. cmds[c].pc \in Following => ~Stage(c)
    BY DEF Stage, Following
  <2> QED BY <1>1, <2>1, CommandTyped DEF Lone, AccountOps
<1>4. cmds[c].pc \notin {"idle", "done"}
  BY <1>1 DEF Following
<1>5. CASE cmds' = [cmds EXCEPT ![c] = Done]
  BY <1>2, <1>4, <1>5, DoneKeeps
<1>6. ASSUME NEW r, GoesOn(c, r) PROVE AccountInv'
  BY <1>2, <1>3, <1>4, <1>6, MoveKeeps DEF GoesOn
<1> QED BY <1>5, <1>6, FollowSteps

-----------------------------------------------------------------------------
LEMMA AccountsInit == AccountInit => AccountInv
<1> SUFFICES ASSUME AccountInit PROVE AccountInv OBVIOUS
<1>1. PICK b \in Boots : accounts = b.accounts
  BY DEF AccountInit
<1>2. /\ accounts \in [Keys -> {NoRow} \cup [kind : Kinds, at : 1..Cardinality(Keys)]]
      /\ clock = Cardinality(Keys) /\ Cardinality(Keys) \in Nat
  BY <1>1, AccountAssumption, FS_CardinalityType DEF AccountInit
<1>3. \A k \in Keys : accounts[k] \in {NoRow} \cup [kind : Kinds, at : Nat] /\ accounts[k].at <= clock
  BY <1>2 DEF NoRow
<1>4. accounts \in [Keys -> {NoRow} \cup [kind : Kinds, at : Nat]]
  BY <1>2, <1>3
<1>5. panel.list \subseteq AccountIds
  <2>1. \A k \in Keys : accounts[k] # NoRow => accounts[k].kind \in Kinds
    BY <1>3
  <2>2. \A a \in Stored : a.id \in AccountIds
    BY <2>1 DEF Stored, AccountIds
  <2> QED BY <2>2 DEF AccountInit, IdsOf
<1>6. TablesTyped
  BY <1>2, <1>3, <1>4, <1>5 DEF TablesTyped
<1>7. DOMAIN cmds = Slots /\ \A c \in Slots : cmds[c] = Idle
  BY DEF AccountInit
<1>8. CommandsTyped
  BY <1>7, DoneIsTyped DEF CommandsTyped, CommandTypes
<1>9. Running = {} /\ \A c \in Slots : ~Lone(c)
  BY <1>7, DoneIsTyped DEF Running, Lone
<1> QED BY <1>6, <1>8, <1>9 DEF AccountInv, AloneIsAlone, LoneWorks

LEMMA AccountsStep == AccountInv /\ [AccountNext]_accountVars => AccountInv'
<1> SUFFICES ASSUME AccountInv, [AccountNext]_accountVars PROVE AccountInv' OBVIOUS
<1>1. CASE User
  BY <1>1, UserKeeps
<1>2. ASSUME NEW c \in Slots, Progress(c) PROVE AccountInv'
  BY <1>2, AddAccountKeeps, FindKeeps, ProbeKeeps, SaveKeeps, DropKeeps, ForgetKeeps,
     UnselectKeeps, DeselectKeeps, RevealKeeps, ImportKeeps, ListKeeps, ReadKeeps,
     ShowKeeps, FollowKeeps DEF Progress, Follows
<1>3. ASSUME NEW c \in Slots, Outside(c) \/ \E w \in Relays : PublishTimeout(c, w)
      PROVE  AccountInv'
  BY <1>3, SignerKeeps, FollowKeeps
     DEF Outside, RelayAccepts, RelayRefuses, PublishTimeout, Follows
<1>4. CASE UNCHANGED accountVars
  <2>1. TablesTyped' /\ CommandsTyped' /\ Stored' = Stored
    BY <1>4 DEF accountVars, AccountInv, TablesTyped, CommandsTyped, Stored
  <2>2. AloneIsAlone'
    BY <1>4 DEF accountVars, AccountInv, AloneIsAlone, Running
  <2>3. ASSUME NEW c \in Slots, Lone(c)' PROVE Stage(c)'
    <3>1. cmds' = cmds /\ Stage(c)
      BY <1>4, <2>3 DEF accountVars, AccountInv, LoneWorks, Lone
    <3>2. /\ DoneSoFar(c) => DoneSoFar(c)'
          /\ ReadyToList(c) => ReadyToList(c)'
          /\ Repaired(c) => Repaired(c)'
      BY <1>4, <2>1, <3>1 DEF accountVars, DoneSoFar, ReadyToList, Repaired
    <3>3. accounts' = accounts
      BY <1>4 DEF accountVars
    <3>4. CASE cmds[c].pc \notin {"probe", "save", "list", "selector", "resolved"}
      BY <3>1, <3>2, <3>3, <3>4 DEF Stage
    <3>5. CASE cmds[c].pc \in {"list", "selector", "resolved"}
      BY <2>1, <3>1, <3>2, <3>5 DEF Stage
    <3>6. CASE cmds[c].pc \in {"probe", "save"}
      BY <2>1, <3>1, <3>2, <3>6 DEF Stage
    <3> QED BY <3>4, <3>5, <3>6
  <2> QED BY <2>1, <2>2, <2>3 DEF AccountInv, LoneWorks
<1> QED BY <1>1, <1>2, <1>3, <1>4 DEF AccountNext

\* Whatever earlier commands, failures and imports left in the tables, a
\* command of the accounts tab that runs alone and without a failure shows
\* what is stored, with the account its rules make the active one.
THEOREM LoneCommandsRepair == AccountSpec => []LoneCommandRepairs
<1>1. AccountInv => LoneCommandRepairs
  <2> SUFFICES ASSUME AccountInv, NEW c \in Slots, cmds[c].pc = "resolved",
                      cmds[c].op \in AccountOps, cmds[c].alone, cmds[c].clean
               PROVE  Repaired(c)
    BY DEF LoneCommandRepairs, Repaired, DoneSoFar, Adders
  <2>1. Stage(c)
    BY DEF AccountInv, LoneWorks, Lone
  <2> QED BY <2>1 DEF Stage
<1> QED BY <1>1, AccountsInit, AccountsStep, PTL DEF AccountSpec

-----------------------------------------------------------------------------
(* Panels: the queue of posted calls *)

InLine(q)        == {q[k] : k \in DOMAIN q}
NoTwice(q)      == \A i, j \in DOMAIN q : q[i] = q[j] => i = j
Ahead(q, a, b)  == \E i, j \in DOMAIN q : i < j /\ q[i] = a /\ q[j] = b

LEMMA TailWaits ==
    ASSUME NEW S, NEW q \in Seq(S), q # <<>>, NoTwice(q)
    PROVE  /\ Tail(q) \in Seq(S) /\ NoTwice(Tail(q))
           /\ InLine(Tail(q)) = InLine(q) \ {Head(q)}
           /\ Head(q) \in InLine(q)
           /\ \A a, b : Ahead(q, a, b) => b # Head(q)
           /\ \A a, b : Ahead(q, a, b) /\ a # Head(q) => Ahead(Tail(q), a, b)
<1>1. Len(q) \in Nat \ {0} /\ DOMAIN q = 1..Len(q) /\ Head(q) = q[1]
  BY EmptySeq, HeadTailProperties
<1>2. /\ Tail(q) \in Seq(S) /\ Len(Tail(q)) = Len(q) - 1
      /\ DOMAIN Tail(q) = 1..(Len(q) - 1)
      /\ \A i \in 1..(Len(q) - 1) : Tail(q)[i] = q[i + 1]
  BY <1>1, HeadTailProperties
<1>3. NoTwice(Tail(q))
  BY <1>1, <1>2 DEF NoTwice
<1>4. InLine(Tail(q)) = InLine(q) \ {Head(q)}
  <2>1. ASSUME NEW k \in DOMAIN Tail(q) PROVE Tail(q)[k] \in InLine(q) \ {Head(q)}
    BY <1>1, <1>2 DEF InLine, NoTwice
  <2>2. ASSUME NEW k \in DOMAIN q, q[k] # Head(q) PROVE q[k] \in InLine(Tail(q))
    <3>1. k - 1 \in DOMAIN Tail(q) /\ Tail(q)[k - 1] = q[k]
      BY <1>1, <1>2, <2>2
    <3> QED BY <3>1 DEF InLine
  <2> QED BY <2>1, <2>2 DEF InLine
<1>5. Head(q) \in InLine(q)
  BY <1>1 DEF InLine
<1>6. ASSUME NEW a, NEW b, Ahead(q, a, b) PROVE b # Head(q)
  BY <1>1, <1>6 DEF Ahead, NoTwice
<1>7. ASSUME NEW a, NEW b, Ahead(q, a, b), a # Head(q) PROVE Ahead(Tail(q), a, b)
  <2>1. PICK i, j \in DOMAIN q : i < j /\ q[i] = a /\ q[j] = b
    BY <1>7 DEF Ahead
  <2>2. /\ i - 1 \in DOMAIN Tail(q) /\ Tail(q)[i - 1] = a
        /\ j - 1 \in DOMAIN Tail(q) /\ Tail(q)[j - 1] = b /\ i - 1 < j - 1
    BY <1>1, <1>2, <1>7, <2>1
  <2> QED BY <2>2 DEF Ahead
<1> QED BY <1>2, <1>3, <1>4, <1>5, <1>6, <1>7

LEMMA AppendWaits ==
    ASSUME NEW S, NEW q \in Seq(S), NoTwice(q), NEW c \in S, c \notin InLine(q)
    PROVE  /\ Append(q, c) \in Seq(S) /\ NoTwice(Append(q, c))
           /\ InLine(Append(q, c)) = InLine(q) \cup {c}
           /\ \A a, b : Ahead(q, a, b) => Ahead(Append(q, c), a, b)
           /\ \A a \in InLine(q) : Ahead(Append(q, c), a, c)
<1>1. Len(q) \in Nat /\ DOMAIN q = 1..Len(q)
  OBVIOUS
<1>2. /\ Append(q, c) \in Seq(S) /\ DOMAIN Append(q, c) = 1..(Len(q) + 1)
      /\ Append(q, c)[Len(q) + 1] = c
      /\ \A i \in 1..Len(q) : Append(q, c)[i] = q[i]
  BY <1>1, AppendProperties
<1>3. NoTwice(Append(q, c))
  BY <1>1, <1>2 DEF NoTwice, InLine
<1>4. InLine(Append(q, c)) = InLine(q) \cup {c}
  <2>1. ASSUME NEW k \in DOMAIN q PROVE q[k] \in InLine(Append(q, c))
    BY <1>1, <1>2 DEF InLine
  <2>2. c \in InLine(Append(q, c))
    BY <1>1, <1>2 DEF InLine
  <2>3. ASSUME NEW k \in DOMAIN Append(q, c) PROVE Append(q, c)[k] \in InLine(q) \cup {c}
    BY <1>1, <1>2 DEF InLine
  <2> QED BY <2>1, <2>2, <2>3 DEF InLine
<1>5. ASSUME NEW a, NEW b, Ahead(q, a, b) PROVE Ahead(Append(q, c), a, b)
  BY <1>1, <1>2, <1>5 DEF Ahead
<1>6. ASSUME NEW a \in InLine(q) PROVE Ahead(Append(q, c), a, c)
  <2>1. PICK i \in DOMAIN q : q[i] = a
    BY DEF InLine
  <2>2. i \in DOMAIN Append(q, c) /\ Len(q) + 1 \in DOMAIN Append(q, c) /\ i < Len(q) + 1
    BY <1>1, <1>2
  <2> QED BY <1>1, <1>2, <2>1, <2>2 DEF Ahead
<1> QED BY <1>2, <1>3, <1>4, <1>5, <1>6

-----------------------------------------------------------------------------
(* The inductive invariant *)

CommandFields == {"op", "key", "url", "val", "pc", "loaded", "todo", "final", "ok", "hops"}

\* A command that runs waits for one call, but for the fetch of a discovery.
CallsQueued ==
    /\ DOMAIN commands = PanelSlots
    /\ \A c \in PanelSlots : DOMAIN commands[c] = CommandFields
    /\ queue \in Seq(PanelSlots) /\ NoTwice(queue)
    /\ \A c \in PanelSlots : c \in InLine(queue) <=> commands[c].pc \notin {"idle", "done", "fetch"}

StepsOf(t) == CASE t = "relays" -> {"idle", "read", "seed", "save", "done"}
                [] t = "tweet"  -> {"idle", "get", "write", "done"}
                [] OTHER        -> {"idle", "write", "list", "fetch", "done"}

\* The commands are those of the tab, and a draft has its places.
TabShape ==
    /\ \A c \in PanelSlots : commands[c].pc \in StepsOf(tab)
    /\ DOMAIN view = {"sets", "selected", "texts", "ok"}
    /\ tab = "tweet" => "draft" \in DOMAIN view.texts /\ "draft" \in DOMAIN texts
    /\ \A c \in PanelSlots : commands[c].pc = "get" => commands[c].key \in {"draft", "main"}

\* A command that seeds has both rows before it, or the second one only.
BothRows == <<UserSet, "discovery-default">>
LastRow  == <<"discovery-default">>
Early(c) == commands[c].pc = "seed" /\ commands[c].todo = BothRows
Late(c)  == commands[c].pc = "seed" /\ commands[c].todo = LastRow

Seeded == DOMAIN sets \subseteq SetIds /\ \A s \in DOMAIN sets : sets[s] = Default

\* The calls of two commands alternate: nobody saves before who seeds has
\* put a row, and who saves before he has put the second outlasts him.
Alternate ==
    /\ \A d \in PanelSlots : commands[d].pc = "seed" => Early(d) \/ Late(d)
    /\ \A d \in PanelSlots : Early(d) => Seeded
    /\ \A d \in PanelSlots : Late(d) => \/ Seeded /\ UserSet \in DOMAIN sets
                                        \/ \E c \in PanelSlots : Ahead(queue, d, c)
    /\ \A c \in PanelSlots : commands[c].pc = "save" =>
          /\ DOMAIN sets # {}
          /\ \A d \in PanelSlots : Early(d) => Ahead(queue, d, c)

PanelInv == CallsQueued /\ TabShape /\ Alternate /\ QuietShowsStored

-----------------------------------------------------------------------------
(* What a step does to the queue *)

LEMMA ServedQueue ==
    ASSUME CallsQueued, NEW c \in PanelSlots, Turn(c), NEW r, DOMAIN r = CommandFields,
           r.pc = "done", Served(r, c)
    PROVE  /\ CallsQueued'
           /\ commands'[c] = r
           /\ \A d \in PanelSlots \ {c} : commands'[d] = commands[d]
           /\ \A a, b : Ahead(queue, a, b) => b # c
           /\ \A a, b : Ahead(queue, a, b) /\ a # c => Ahead(queue', a, b)
<1>1. commands' = [commands EXCEPT ![c] = r] /\ queue' = Tail(queue) /\ Head(queue) = c /\ queue # <<>>
  BY DEF Served, Becomes, Turn
<1>2. commands'[c] = r /\ \A d \in PanelSlots \ {c} : commands'[d] = commands[d]
  BY <1>1 DEF CallsQueued
<1>3. /\ queue' \in Seq(PanelSlots) /\ NoTwice(queue')
      /\ InLine(queue') = InLine(queue) \ {c}
      /\ \A a, b : Ahead(queue, a, b) => b # c
      /\ \A a, b : Ahead(queue, a, b) /\ a # c => Ahead(queue', a, b)
  BY <1>1, TailWaits DEF CallsQueued
<1>4. CallsQueued'
  BY <1>1, <1>2, <1>3 DEF CallsQueued
<1> QED BY <1>2, <1>3, <1>4

LEMMA PostedQueue ==
    ASSUME CallsQueued, NEW c \in PanelSlots, Turn(c), NEW r, DOMAIN r = CommandFields,
           r.pc \notin {"idle", "done", "fetch"}, Post(r, c)
    PROVE  /\ CallsQueued'
           /\ commands'[c] = r
           /\ \A d \in PanelSlots \ {c} : commands'[d] = commands[d]
           /\ \A a, b : Ahead(queue, a, b) => b # c
           /\ \A a, b : Ahead(queue, a, b) /\ a # c => Ahead(queue', a, b)
           /\ \A a \in InLine(queue) \ {c} : Ahead(queue', a, c)
<1> DEFINE q == Tail(queue)
<1>1. commands' = [commands EXCEPT ![c] = r] /\ queue' = Append(q, c) /\ Head(queue) = c /\ queue # <<>>
  BY DEF Post, Becomes, Turn
<1>2. commands'[c] = r /\ \A d \in PanelSlots \ {c} : commands'[d] = commands[d]
  BY <1>1 DEF CallsQueued
<1>3. /\ q \in Seq(PanelSlots) /\ NoTwice(q)
      /\ InLine(q) = InLine(queue) \ {c} /\ c \in InLine(queue)
      /\ \A a, b : Ahead(queue, a, b) => b # c
      /\ \A a, b : Ahead(queue, a, b) /\ a # c => Ahead(q, a, b)
  BY <1>1, TailWaits DEF CallsQueued
<1> HIDE DEF q
<1>4. /\ queue' \in Seq(PanelSlots) /\ NoTwice(queue')
      /\ InLine(queue') = InLine(q) \cup {c}
      /\ \A a, b : Ahead(q, a, b) => Ahead(queue', a, b)
      /\ \A a \in InLine(q) : Ahead(queue', a, c)
  BY <1>1, <1>3, AppendWaits
<1>5. CallsQueued'
  <2>1. DOMAIN commands' = PanelSlots /\ \A d \in PanelSlots : DOMAIN commands'[d] = CommandFields
    BY <1>1, <1>2 DEF CallsQueued
  <2>2. \A d \in PanelSlots :
          d \in InLine(queue') <=> commands'[d].pc \notin {"idle", "done", "fetch"}
    BY <1>2, <1>3, <1>4 DEF CallsQueued
  <2> QED BY <1>4, <2>1, <2>2 DEF CallsQueued
<1> QED BY <1>2, <1>3, <1>4, <1>5

LEMMA GivenQueue ==
    ASSUME CallsQueued, NEW op, NEW key, NEW url, NEW val, NEW pc,
           pc \notin {"idle", "done", "fetch"}, OnTab(op, key, url, val, pc)
    PROVE  \E c \in PanelSlots :
              /\ CallsQueued'
              /\ commands[c].pc = "idle" /\ commands'[c].pc = pc /\ commands'[c].key = key
              /\ \A d \in PanelSlots \ {c} : commands'[d] = commands[d]
              /\ \A a, b : Ahead(queue, a, b) => Ahead(queue', a, b)
<1>1. PICK c \in PanelSlots :
        /\ AtCall(c, "idle") /\ queue' = Append(queue, c)
        /\ Becomes(c, [NoCommand EXCEPT !.op = op, !.key = key, !.url = url, !.val = val, !.pc = pc])
  BY DEF OnTab
<1> DEFINE r == [NoCommand EXCEPT !.op = op, !.key = key, !.url = url, !.val = val, !.pc = pc]
<1>2. r.pc = pc /\ r.key = key /\ DOMAIN r = CommandFields
  BY DEF NoCommand, CommandFields
<1>3. commands' = [commands EXCEPT ![c] = r]
  BY <1>1 DEF Becomes
<1> HIDE DEF r
<1>4. commands'[c] = r /\ \A d \in PanelSlots \ {c} : commands'[d] = commands[d]
  BY <1>3 DEF CallsQueued
<1>5. c \notin InLine(queue) /\ commands[c].pc = "idle"
  BY <1>1 DEF AtCall, CallsQueued
<1>6. /\ queue' \in Seq(PanelSlots) /\ NoTwice(queue')
      /\ InLine(queue') = InLine(queue) \cup {c}
      /\ \A a, b : Ahead(queue, a, b) => Ahead(queue', a, b)
  BY <1>1, <1>5, AppendWaits DEF CallsQueued
<1>7. CallsQueued'
  <2>1. DOMAIN commands' = PanelSlots /\ \A d \in PanelSlots : DOMAIN commands'[d] = CommandFields
    BY <1>2, <1>3, <1>4 DEF CallsQueued
  <2>2. \A d \in PanelSlots :
          d \in InLine(queue') <=> commands'[d].pc \notin {"idle", "done", "fetch"}
    BY <1>2, <1>4, <1>6 DEF CallsQueued
  <2> QED BY <1>6, <2>1, <2>2 DEF CallsQueued
<1> QED BY <1>2, <1>4, <1>5, <1>6, <1>7

-----------------------------------------------------------------------------
(* What a step does to the invariant *)

LEMMA WorkIsNotQuiet ==
    ASSUME NEW c \in PanelSlots, commands'[c].pc \notin {"idle", "done"}
    PROVE  QuietShowsStored'
BY DEF QuietShowsStored, AtWork

LEMMA OtherTabsSeedNothing ==
    ASSUME TabShape', tab' # "relays"
    PROVE  Alternate'
<1>1. \A c \in PanelSlots : commands'[c].pc \notin {"seed", "save"}
  BY DEF TabShape, StepsOf
<1> QED BY <1>1 DEF Alternate, Early, Late

LEMMA RowsDiffer == BothRows # LastRow
<1>1. Len(BothRows) = 2 /\ Len(LastRow) = 1
  BY DEF BothRows, LastRow
<1> QED BY <1>1

LEMMA RowsLeft ==
    /\ Len(BothRows) = 2 /\ Head(BothRows) = UserSet /\ Tail(BothRows) = LastRow
    /\ Len(LastRow) = 1 /\ Head(LastRow) = "discovery-default"
<1>1. Len(BothRows) = 2 /\ Head(BothRows) = UserSet
  BY DEF BothRows
<1>2. Len(LastRow) = 1 /\ Head(LastRow) = "discovery-default"
  BY DEF LastRow
<1>3. Tail(BothRows) = LastRow
  BY DEF BothRows, LastRow
<1> QED BY <1>1, <1>2, <1>3

LEMMA RowsInOrder == InOrder(SetIds) = BothRows
<1>1. UserSet \in SetIds /\ "discovery-default" \in SetIds
  BY DEF SetIds, UserSet
<1>2. InOrder(SetIds) = <<UserSet>> \o <<"discovery-default">>
  BY <1>1 DEF InOrder
<1> DEFINE first == <<UserSet>>
           both == BothRows
<1>3. /\ first \in Seq(SetIds) /\ Len(first) = 1 /\ first[1] = UserSet
      /\ LastRow \in Seq(SetIds) /\ Len(LastRow) = 1 /\ LastRow[1] = "discovery-default"
      /\ both \in Seq(SetIds) /\ Len(both) = 2
      /\ both[1] = UserSet /\ both[2] = "discovery-default"
  BY <1>1 DEF LastRow, BothRows
<1>4. InOrder(SetIds) = first \o LastRow
  BY <1>2 DEF LastRow
<1> HIDE DEF first, both
<1>5. first \o LastRow = both
  <2>1. /\ first \o LastRow \in Seq(SetIds) /\ Len(first \o LastRow) = 2
        /\ (first \o LastRow)[1] = UserSet
        /\ (first \o LastRow)[2] = "discovery-default"
    BY <1>3, ConcatProperties
  <2>2. ASSUME NEW i \in 1..2 PROVE (first \o LastRow)[i] = both[i]
    <3>1. i = 1 \/ i = 2
      BY <2>2
    <3> QED BY <1>3, <2>1, <3>1
  <2> QED BY <1>3, <2>1, <2>2, SeqEqual
<1> QED BY <1>4, <1>5 DEF both

\* A default row put keeps the sets as seeded.
LEMMA DefaultRowPut ==
    ASSUME NEW s \in SetIds, sets' = With(sets, s, Default)
    PROVE  /\ Seeded => Seeded'
           /\ DOMAIN sets' = DOMAIN sets \cup {s}
<1>1. DOMAIN sets' = DOMAIN sets \cup {s}
  BY DEF With
<1>2. \A t \in DOMAIN sets' : sets'[t] = IF t = s THEN Default ELSE sets[t]
  BY <1>1 DEF With
<1>3. Default = Default'
  BY DEF Default
<1>4. ASSUME Seeded PROVE Seeded'
  <2>1. DOMAIN sets' \subseteq SetIds
    BY <1>1, <1>4 DEF Seeded
  <2>2. \A t \in DOMAIN sets' : sets'[t] = Default
    BY <1>1, <1>2, <1>4 DEF Seeded
  <2> QED BY <1>3, <2>1, <2>2 DEF Seeded, SetIds
<1> QED BY <1>1, <1>4

LEMMA EndKeepsAlternate ==
    ASSUME CallsQueued, Alternate, NEW c \in PanelSlots, Turn(c),
           NEW r, DOMAIN r = CommandFields, r.pc = "done", Served(r, c),
           Seeded => Seeded', DOMAIN sets \subseteq DOMAIN sets'
    PROVE  Alternate'
<1>1. /\ commands'[c] = r
      /\ \A d \in PanelSlots \ {c} : commands'[d] = commands[d]
      /\ \A a, b : Ahead(queue, a, b) /\ a # c => Ahead(queue', a, b)
  BY ServedQueue
<1>2. ASSUME NEW d \in PanelSlots, commands'[d].pc \in {"seed", "save"}
      PROVE  d # c /\ commands'[d] = commands[d]
  BY <1>1, <1>2
<1>3. \A d \in PanelSlots : (Early(d))' => d # c /\ Early(d)
  BY <1>2 DEF Early
<1>4. \A d \in PanelSlots : (Late(d))' => d # c /\ Late(d)
  BY <1>2 DEF Late
<1>5. ASSUME NEW d \in PanelSlots, commands'[d].pc = "seed" PROVE (Early(d) \/ Late(d))'
  BY <1>2, <1>5 DEF Alternate, Early, Late
<1>6. ASSUME NEW d \in PanelSlots, (Early(d))' PROVE Seeded'
  BY <1>3, <1>6 DEF Alternate
<1>7. ASSUME NEW d \in PanelSlots, (Late(d))'
      PROVE  \/ Seeded' /\ UserSet \in DOMAIN sets'
             \/ \E x \in PanelSlots : Ahead(queue', d, x)
  BY <1>1, <1>4, <1>7 DEF Alternate
<1>8. ASSUME NEW x \in PanelSlots, commands'[x].pc = "save"
      PROVE  /\ DOMAIN sets' # {}
             /\ \A d \in PanelSlots : (Early(d))' => Ahead(queue', d, x)
  BY <1>1, <1>2, <1>3, <1>8 DEF Alternate
<1> QED BY <1>5, <1>6, <1>7, <1>8 DEF Alternate, UserSet, Ahead

LEMMA PostKeepsAlternate ==
    ASSUME CallsQueued, Alternate, NEW c \in PanelSlots, Turn(c),
           commands[c].pc \notin {"idle", "done", "fetch"},
           NEW r, DOMAIN r = CommandFields, r.pc \in {"read", "seed", "save"}, Post(r, c),
           DOMAIN sets \subseteq DOMAIN sets',
           (Seeded => Seeded') \/ (commands[c].pc = "save" /\ r.pc # "seed"),
           r.pc = "save" => DOMAIN sets' # {},
           r.pc = "seed" => \/ r.todo = BothRows /\ DOMAIN sets = {} /\ Seeded'
                            \/ r.todo = LastRow /\ Seeded' /\ UserSet \in DOMAIN sets'
    PROVE  Alternate'
<1>1. /\ commands'[c] = r
      /\ \A d \in PanelSlots \ {c} : commands'[d] = commands[d]
      /\ \A a, b : Ahead(queue, a, b) => b # c
      /\ \A a, b : Ahead(queue, a, b) /\ a # c => Ahead(queue', a, b)
      /\ \A a \in InLine(queue) \ {c} : Ahead(queue', a, c)
  BY PostedQueue
<1>2. \A d \in PanelSlots : (Early(d))' => \/ d # c /\ Early(d)
                                           \/ d = c /\ r.pc = "seed" /\ r.todo = BothRows
  BY <1>1 DEF Early, BothRows, UserSet
<1>3. \A d \in PanelSlots : (Late(d))' => \/ d # c /\ Late(d)
                                          \/ d = c /\ r.pc = "seed" /\ r.todo = LastRow
  BY <1>1 DEF Late, LastRow
<1>4. \A d \in PanelSlots : Early(d) \/ Late(d) => d \in InLine(queue)
  BY DEF CallsQueued, Early, Late
<1>5. ASSUME NEW d \in PanelSlots, commands'[d].pc = "seed" PROVE (Early(d) \/ Late(d))'
  <2>1. CASE d = c
    BY <1>1, <1>5, <2>1 DEF Early, Late, BothRows, LastRow, UserSet
  <2>2. CASE d # c
    BY <1>1, <1>5, <2>2 DEF Alternate, Early, Late
  <2> QED BY <2>1, <2>2
<1>6. ASSUME NEW d \in PanelSlots, (Early(d))' PROVE Seeded'
  <2>1. CASE d = c
    BY <1>2, <1>6, <2>1, RowsDiffer
  <2>2. CASE d # c
    <3>1. Early(d) /\ Seeded
      BY <1>2, <1>6, <2>2 DEF Alternate
    <3>2. commands[c].pc # "save"
      BY <1>1, <3>1 DEF Alternate
    <3> QED BY <3>1, <3>2
  <2> QED BY <2>1, <2>2
<1>7. ASSUME NEW d \in PanelSlots, (Late(d))'
      PROVE  \/ Seeded' /\ UserSet \in DOMAIN sets'
             \/ \E x \in PanelSlots : Ahead(queue', d, x)
  <2>1. CASE d = c
    BY <1>3, <1>7, <2>1, RowsDiffer
  <2>2. CASE d # c
    <3>1. Late(d)
      BY <1>3, <1>7, <2>2
    <3>2. Ahead(queue', d, c)
      BY <1>1, <1>4, <2>2, <3>1
    <3> QED BY <3>2
  <2> QED BY <2>1, <2>2
<1>8. ASSUME NEW x \in PanelSlots, commands'[x].pc = "save"
      PROVE  /\ DOMAIN sets' # {}
             /\ \A d \in PanelSlots : (Early(d))' => Ahead(queue', d, x)
  <2>1. CASE x = c
    <3>1. r.pc = "save"
      BY <1>1, <1>8, <2>1
    <3>2. \A d \in PanelSlots : (Early(d))' => d # c /\ Early(d)
      BY <1>2, <3>1
    <3> QED BY <1>1, <1>4, <2>1, <3>1, <3>2
  <2>2. CASE x # c
    <3>1. commands[x].pc = "save" /\ DOMAIN sets # {}
      BY <1>1, <1>8, <2>2 DEF Alternate
    <3>2. \A d \in PanelSlots : (Early(d))' => d # c /\ Early(d)
      BY <1>2, <3>1, RowsDiffer
    <3> QED BY <1>1, <3>1, <3>2 DEF Alternate
  <2> QED BY <2>1, <2>2
<1> QED BY <1>5, <1>6, <1>7, <1>8 DEF Alternate, UserSet, Ahead

-----------------------------------------------------------------------------
(* What each action does to the invariant *)

LEMMA LoadedKeeps ==
    ASSUME CallsQueued, TabShape, Alternate, UNCHANGED <<tab, texts>>,
           NEW c \in PanelSlots, Turn(c), commands[c].pc \in {"read", "seed"},
           NEW found, Loaded(c, found),
           Seeded => Seeded', DOMAIN sets \subseteq DOMAIN sets', DOMAIN sets' # {},
           (\A d \in PanelSlots : ~Ahead(queue, c, d)) => sets' = found
    PROVE  PanelInv'
<1>1. tab = "relays"
  BY DEF TabShape, StepsOf
<1>2. DOMAIN commands[c] = CommandFields /\ DOMAIN view = {"sets", "selected", "texts", "ok"}
  BY DEF CallsQueued, TabShape
<1> DEFINE v == [view EXCEPT !.sets = found, !.selected = ResolveSelected(found), !.ok = TRUE]
           done == [NoCommand EXCEPT !.pc = "done", !.op = "none"]
           save == [commands[c] EXCEPT !.pc = "save", !.loaded = Change(commands[c], found),
                                       !.todo = InOrder(DOMAIN Change(commands[c], found))]
           again == [commands[c] EXCEPT !.pc = "read", !.final = TRUE]
<1>3. /\ DOMAIN v = DOMAIN view /\ v.sets = found /\ v.selected = ResolveSelected(found)
      /\ DOMAIN done = CommandFields /\ done.pc = "done"
      /\ DOMAIN save = CommandFields /\ save.pc = "save"
      /\ DOMAIN again = CommandFields /\ again.pc = "read"
  BY <1>2 DEF NoCommand, CommandFields
<1>4. \/ /\ selected' = ResolveSelected(found) /\ view' = v /\ Served(done, c)
      \/ /\ view' = view /\ Post(save, c)
      \/ /\ view' = view /\ Post(again, c)
  BY DEF Loaded, Show, ShowAs
<1> HIDE DEF v, done, save, again
<1>5. CASE selected' = ResolveSelected(found) /\ view' = v /\ Served(done, c)
  <2>1. /\ CallsQueued' /\ commands'[c] = done
        /\ \A d \in PanelSlots \ {c} : commands'[d] = commands[d]
    BY <1>3, <1>5, ServedQueue
  <2>2. Alternate'
    BY <1>3, <1>5, EndKeepsAlternate
  <2>3. TabShape'
    BY <1>1, <1>3, <1>5, <2>1 DEF TabShape, StepsOf
  <2>4. QuietShowsStored'
    <3>1. SUFFICES ASSUME AtWork' = {} PROVE view'.sets = sets' /\ view'.selected = selected'
      BY <1>1 DEF QuietShowsStored
    <3>2. \A d \in PanelSlots \ {c} : commands[d].pc \in {"idle", "done"}
      BY <2>1, <3>1 DEF AtWork
    <3>3. ASSUME NEW d \in PanelSlots, Ahead(queue, c, d) PROVE FALSE
      <4>1. d \in InLine(queue)
        BY <3>3 DEF Ahead, InLine
      <4>2. d # c
        BY <1>3, <1>5, <3>3, ServedQueue
      <4> QED BY <3>2, <4>1, <4>2 DEF CallsQueued
    <3> QED BY <1>3, <1>5, <3>3
  <2> QED BY <2>1, <2>2, <2>3, <2>4 DEF PanelInv
<1>6. ASSUME NEW r, DOMAIN r = CommandFields, r.pc \in {"save", "read"}, Post(r, c), view' = view
      PROVE  PanelInv'
  <2>1. /\ CallsQueued' /\ commands'[c] = r
        /\ \A d \in PanelSlots \ {c} : commands'[d] = commands[d]
    BY <1>6, PostedQueue
  <2>2. Alternate'
    BY <1>6, PostKeepsAlternate
  <2>3. TabShape'
    BY <1>1, <1>6, <2>1 DEF TabShape, StepsOf
  <2>4. QuietShowsStored'
    BY <1>6, <2>1, WorkIsNotQuiet
  <2> QED BY <2>1, <2>2, <2>3, <2>4 DEF PanelInv
<1> QED BY <1>3, <1>4, <1>5, <1>6

LEMMA NotLoadedKeeps ==
    ASSUME CallsQueued, TabShape, Alternate, UNCHANGED <<tab, texts>>,
           NEW c \in PanelSlots, Turn(c), commands[c].pc \in {"read", "seed"}, NotLoaded(c),
           Seeded => Seeded', DOMAIN sets \subseteq DOMAIN sets'
    PROVE  PanelInv'
<1>1. tab = "relays"
  BY DEF TabShape, StepsOf
<1>2. DOMAIN commands[c] = CommandFields /\ DOMAIN view = {"sets", "selected", "texts", "ok"}
  BY DEF CallsQueued, TabShape
<1> DEFINE v == [view EXCEPT !.sets = NoRows, !.selected = UserSet, !.ok = FALSE]
           done == [NoCommand EXCEPT !.pc = "done", !.op = "none"]
           again == [commands[c] EXCEPT !.pc = "read", !.final = TRUE]
<1>3. /\ DOMAIN v = DOMAIN view /\ v.ok = FALSE
      /\ DOMAIN done = CommandFields /\ done.pc = "done"
      /\ DOMAIN again = CommandFields /\ again.pc = "read"
  BY <1>2 DEF NoCommand, CommandFields
<1>4. \/ view' = v /\ Served(done, c)
      \/ view' = view /\ Post(again, c)
  BY DEF NotLoaded, Show, ShowAs
<1> HIDE DEF v, done, again
<1>5. CASE view' = v /\ Served(done, c)
  <2>1. /\ CallsQueued' /\ commands'[c] = done
        /\ \A d \in PanelSlots \ {c} : commands'[d] = commands[d]
    BY <1>3, <1>5, ServedQueue
  <2>2. Alternate'
    BY <1>3, <1>5, EndKeepsAlternate
  <2>3. TabShape'
    BY <1>1, <1>3, <1>5, <2>1 DEF TabShape, StepsOf
  <2>4. QuietShowsStored'
    BY <1>3, <1>5 DEF QuietShowsStored
  <2> QED BY <2>1, <2>2, <2>3, <2>4 DEF PanelInv
<1>6. CASE view' = view /\ Post(again, c)
  <2>1. /\ CallsQueued' /\ commands'[c] = again
        /\ \A d \in PanelSlots \ {c} : commands'[d] = commands[d]
    BY <1>3, <1>6, PostedQueue
  <2>2. Alternate'
    BY <1>3, <1>6, PostKeepsAlternate
  <2>3. TabShape'
    BY <1>1, <1>3, <1>6, <2>1 DEF TabShape, StepsOf
  <2>4. QuietShowsStored'
    BY <1>3, <1>6, <2>1, WorkIsNotQuiet
  <2> QED BY <2>1, <2>2, <2>3, <2>4 DEF PanelInv
<1> QED BY <1>4, <1>5, <1>6

LEMMA ReadSetsKeeps ==
    ASSUME PanelInv, NEW c \in PanelSlots, ReadSets(c)
    PROVE  PanelInv'
<1>1. /\ Turn(c) /\ commands[c].pc = "read" /\ UNCHANGED <<tab, texts>> /\ sets' = sets
      /\ CallsQueued /\ TabShape /\ Alternate
  BY DEF ReadSets, AtCall, PanelInv
<1>2. Seeded => Seeded'
  BY <1>1 DEF Seeded, Default, SetIds
<1> DEFINE r == [commands[c] EXCEPT !.pc = "seed", !.todo = InOrder(SetIds)]
<1>3. CASE DOMAIN sets # {} /\ Loaded(c, sets)
  BY <1>1, <1>2, <1>3, LoadedKeeps
<1>4. CASE NotLoaded(c)
  BY <1>1, <1>2, <1>4, NotLoadedKeeps
<1>5. CASE DOMAIN sets = {} /\ view' = view /\ Post(r, c)
  <2>1. InOrder(SetIds) = BothRows
    BY RowsInOrder
  <2>2. DOMAIN r = CommandFields /\ r.pc = "seed" /\ r.todo = BothRows
    BY <1>1, <2>1 DEF CallsQueued, CommandFields
  <2> HIDE DEF r
  <2>3. Seeded'
    BY <1>1, <1>5 DEF Seeded
  <2>4. /\ CallsQueued' /\ commands'[c] = r
        /\ \A d \in PanelSlots \ {c} : commands'[d] = commands[d]
    BY <1>1, <1>5, <2>2, PostedQueue
  <2>5. Alternate'
    BY <1>1, <1>5, <2>2, <2>3, PostKeepsAlternate
  <2>6. TabShape'
    BY <1>1, <1>5, <2>2, <2>4 DEF TabShape, StepsOf
  <2>7. QuietShowsStored'
    BY <2>2, <2>4, WorkIsNotQuiet
  <2> QED BY <2>4, <2>5, <2>6, <2>7 DEF PanelInv
<1> QED BY <1>3, <1>4, <1>5 DEF ReadSets

LEMMA SeedRowKeeps ==
    ASSUME PanelInv, NEW c \in PanelSlots, SeedRow(c)
    PROVE  PanelInv'
<1>1. /\ Turn(c) /\ commands[c].pc = "seed" /\ UNCHANGED <<tab, texts>>
      /\ CallsQueued /\ TabShape /\ Alternate
      /\ Early(c) \/ Late(c)
  BY DEF SeedRow, AtCall, PanelInv, Alternate
<1> DEFINE s == Head(commands[c].todo)
           r == [commands[c] EXCEPT !.todo = Tail(@)]
<1>2. \/ Early(c) /\ s = UserSet /\ Len(commands[c].todo) = 2 /\ Tail(commands[c].todo) = LastRow
      \/ Late(c) /\ s = "discovery-default" /\ Len(commands[c].todo) = 1
  BY <1>1, RowsLeft DEF Early, Late
<1>3. s \in SetIds
  BY <1>2 DEF SetIds, UserSet
<1>4. /\ r.todo = Tail(commands[c].todo) /\ r.pc = "seed" /\ DOMAIN r = CommandFields
  BY <1>1 DEF CallsQueued, CommandFields
<1>5. \/ /\ sets' = With(sets, s, Default)
         /\ IF Len(commands[c].todo) = 1 THEN Loaded(c, SeedRows)
            ELSE Post(r, c) /\ UNCHANGED view
      \/ (sets' = With(sets, s, Default) \/ sets' = sets) /\ NotLoaded(c)
  BY DEF SeedRow
<1> HIDE DEF s, r
<1>6. sets' = sets \/ sets' = With(sets, s, Default)
  BY <1>5
<1>7. (Seeded => Seeded') /\ DOMAIN sets \subseteq DOMAIN sets'
  <2>1. CASE sets' = sets
    BY <2>1 DEF Seeded, Default, SetIds
  <2>2. CASE sets' = With(sets, s, Default)
    BY <1>3, <2>2, DefaultRowPut
  <2> QED BY <1>6, <2>1, <2>2
<1>8. CASE NotLoaded(c)
  BY <1>1, <1>7, <1>8, NotLoadedKeeps
<1>9. CASE Late(c) /\ sets' = With(sets, s, Default) /\ Loaded(c, SeedRows)
  <2>1. DOMAIN sets' = DOMAIN sets \cup {s}
    BY <1>3, <1>9, DefaultRowPut
  <2>2. ASSUME \A d \in PanelSlots : ~Ahead(queue, c, d) PROVE sets' = SeedRows
    <3>1. Seeded /\ UserSet \in DOMAIN sets /\ s = "discovery-default"
      <4>1. ~Early(c)
        BY <1>9, RowsDiffer DEF Early, Late
      <4>2. Seeded /\ UserSet \in DOMAIN sets
        BY <1>1, <1>9, <2>2 DEF Alternate
      <4> QED BY <1>2, <4>1, <4>2
    <3>2. DOMAIN sets' = SetIds
      BY <2>1, <3>1 DEF Seeded, SetIds, UserSet
    <3>3. \A t \in SetIds : sets'[t] = Default
      BY <1>9, <2>1, <3>1, <3>2 DEF Seeded, With
    <3>4. sets' = [t \in SetIds |-> sets'[t]]
      BY <1>9, <3>2 DEF With
    <3> QED BY <3>3, <3>4 DEF SeedRows
  <2>3. DOMAIN sets' # {}
    BY <2>1
  <2> QED BY <1>1, <1>7, <1>9, <2>2, <2>3, LoadedKeeps
<1>10. CASE Early(c) /\ s = UserSet /\ r.todo = LastRow
            /\ sets' = With(sets, s, Default) /\ Post(r, c) /\ view' = view
  <2>1. Seeded' /\ UserSet \in DOMAIN sets'
    BY <1>1, <1>3, <1>7, <1>10, DefaultRowPut DEF Alternate
  <2>2. /\ CallsQueued' /\ commands'[c] = r
        /\ \A d \in PanelSlots \ {c} : commands'[d] = commands[d]
    BY <1>1, <1>4, <1>10, PostedQueue
  <2>3. Alternate'
    BY <1>1, <1>4, <1>7, <1>10, <2>1, PostKeepsAlternate
  <2>4. TabShape'
    BY <1>1, <1>4, <1>10, <2>2 DEF TabShape, StepsOf
  <2>5. QuietShowsStored'
    BY <1>4, <2>2, WorkIsNotQuiet
  <2> QED BY <2>2, <2>3, <2>4, <2>5 DEF PanelInv
<1> QED BY <1>2, <1>4, <1>5, <1>8, <1>9, <1>10

LEMMA SaveRowKeeps ==
    ASSUME PanelInv, NEW c \in PanelSlots, SaveRow(c)
    PROVE  PanelInv'
<1>1. /\ Turn(c) /\ commands[c].pc = "save" /\ UNCHANGED <<tab, texts, view>>
      /\ CallsQueued /\ TabShape /\ Alternate
  BY DEF SaveRow, AtCall, PanelInv
<1>2. DOMAIN sets # {}
  BY <1>1 DEF Alternate
<1> DEFINE s == Head(commands[c].todo)
           reload == [commands[c] EXCEPT !.pc = "read", !.final = TRUE]
           refused == [reload EXCEPT !.ok = FALSE]
           more == [commands[c] EXCEPT !.todo = Tail(@)]
<1>3. /\ DOMAIN reload = CommandFields /\ reload.pc = "read"
      /\ DOMAIN refused = CommandFields /\ refused.pc = "read"
      /\ DOMAIN more = CommandFields /\ more.pc = "save"
  BY <1>1 DEF CallsQueued, CommandFields
<1>4. /\ sets' = sets \/ sets' = With(sets, s, commands[c].loaded[s])
      /\ Post(reload, c) \/ Post(refused, c) \/ Post(more, c)
  BY DEF SaveRow
<1> HIDE DEF s, reload, refused, more
<1>5. DOMAIN sets \subseteq DOMAIN sets'
  BY <1>4 DEF With
<1>6. PICK r : DOMAIN r = CommandFields /\ r.pc \in {"read", "save"} /\ Post(r, c)
  BY <1>3, <1>4
<1>7. /\ CallsQueued' /\ commands'[c] = r
      /\ \A d \in PanelSlots \ {c} : commands'[d] = commands[d]
  BY <1>1, <1>6, PostedQueue
<1>8. Alternate'
  BY <1>1, <1>2, <1>5, <1>6, PostKeepsAlternate
<1>9. TabShape'
  BY <1>1, <1>6, <1>7 DEF TabShape, StepsOf
<1>10. QuietShowsStored'
  BY <1>6, <1>7, WorkIsNotQuiet
<1> QED BY <1>7, <1>8, <1>9, <1>10 DEF PanelInv

\* The tabs without relay sets: a call is followed by another, or the last.
LEMMA OtherTabPosts ==
    ASSUME PanelInv, tab # "relays", UNCHANGED <<tab, view>>, DOMAIN texts \subseteq DOMAIN texts',
           NEW c \in PanelSlots, Turn(c), NEW r, DOMAIN r = CommandFields, Post(r, c),
           r.pc \in StepsOf(tab) \ {"idle", "done", "fetch"},
           r.pc = "get" => r.key \in {"draft", "main"}
    PROVE  PanelInv'
<1>1. /\ CallsQueued' /\ commands'[c] = r
      /\ \A d \in PanelSlots \ {c} : commands'[d] = commands[d]
  BY PostedQueue DEF PanelInv
<1>2. TabShape'
  BY <1>1 DEF PanelInv, TabShape
<1>3. Alternate'
  BY <1>2, OtherTabsSeedNothing
<1>4. QuietShowsStored'
  BY <1>1, WorkIsNotQuiet
<1> QED BY <1>1, <1>2, <1>3, <1>4 DEF PanelInv

LEMMA OtherTabEnds ==
    ASSUME PanelInv, tab # "relays", tab' = tab, DOMAIN texts \subseteq DOMAIN texts',
           DOMAIN view' = DOMAIN view, tab = "tweet" => "draft" \in DOMAIN view'.texts,
           NEW c \in PanelSlots, Turn(c), NEW r, DOMAIN r = CommandFields, Served(r, c),
           r.pc = "done"
    PROVE  /\ CallsQueued' /\ TabShape' /\ Alternate'
           /\ commands'[c] = r
<1>1. /\ CallsQueued' /\ commands'[c] = r
      /\ \A d \in PanelSlots \ {c} : commands'[d] = commands[d]
  BY ServedQueue DEF PanelInv
<1>2. TabShape'
  BY <1>1 DEF PanelInv, TabShape, StepsOf
<1>3. Alternate'
  BY <1>2, OtherTabsSeedNothing
<1> QED BY <1>1, <1>2, <1>3

LEMMA WriteSettingKeeps ==
    ASSUME PanelInv, NEW c \in PanelSlots, WriteSetting(c)
    PROVE  PanelInv'
<1> DEFINE r == [commands[c] EXCEPT !.pc = "list"]
<1>1. /\ Turn(c) /\ tab \in {"settings", "upload"} /\ UNCHANGED <<tab, view>> /\ Post(r, c)
      /\ texts' = texts \/ texts' = Written(commands[c])
      /\ CallsQueued /\ TabShape
  BY DEF WriteSetting, PanelInv
<1>2. DOMAIN r = CommandFields /\ r.pc = "list"
  BY <1>1 DEF CallsQueued, CommandFields
<1> HIDE DEF r
<1>3. /\ CallsQueued' /\ commands'[c] = r
      /\ \A d \in PanelSlots \ {c} : commands'[d] = commands[d]
  BY <1>1, <1>2, PostedQueue
<1>4. TabShape'
  BY <1>1, <1>2, <1>3 DEF TabShape, StepsOf
<1>5. Alternate'
  BY <1>1, <1>4, OtherTabsSeedNothing
<1>6. QuietShowsStored'
  BY <1>2, <1>3, WorkIsNotQuiet
<1> QED BY <1>3, <1>4, <1>5, <1>6 DEF PanelInv

LEMMA ListSettingsKeeps ==
    ASSUME PanelInv, NEW c \in PanelSlots, ListSettings(c)
    PROVE  PanelInv'
<1> DEFINE done == [NoCommand EXCEPT !.pc = "done", !.op = "none"]
           read == [view EXCEPT !.texts = texts, !.ok = TRUE]
           fails == [view EXCEPT !.texts = [k \in TextKeys |-> NoText], !.ok = FALSE]
<1>1. /\ Turn(c) /\ commands[c].pc = "list" /\ UNCHANGED <<tab, stores>> /\ Served(done, c)
      /\ view' = read \/ view' = fails
      /\ CallsQueued /\ TabShape
  BY DEF ListSettings, AtCall, Show, ShowAs, PanelInv
<1>2. tab # "relays" /\ tab # "tweet"
  BY <1>1 DEF TabShape, StepsOf
<1>3. /\ DOMAIN done = CommandFields /\ done.pc = "done"
      /\ DOMAIN read = DOMAIN view /\ read.texts = texts
      /\ DOMAIN fails = DOMAIN view /\ fails.ok = FALSE
  BY <1>1 DEF NoCommand, CommandFields, TabShape
<1> HIDE DEF done, read, fails
<1>4. CallsQueued' /\ TabShape' /\ Alternate'
  BY <1>1, <1>2, <1>3, OtherTabEnds DEF stores
<1>5. QuietShowsStored'
  BY <1>1, <1>2, <1>3 DEF QuietShowsStored, stores
<1> QED BY <1>4, <1>5 DEF PanelInv

LEMMA GetDraftKeeps ==
    ASSUME PanelInv, NEW c \in PanelSlots, GetDraft(c)
    PROVE  PanelInv'
<1> DEFINE key == commands[c].key
           done(as) == [NoCommand EXCEPT !.pc = "done", !.op = as]
           found == [Drafted(texts[key]) EXCEPT !.ok = TRUE]
           fails == [Drafted(NoText) EXCEPT !.ok = FALSE]
           main == [commands[c] EXCEPT !.key = "main"]
<1>1. /\ Turn(c) /\ commands[c].pc = "get" /\ UNCHANGED <<tab, stores>>
      /\ CallsQueued /\ TabShape
  BY DEF GetDraft, AtCall, PanelInv
<1>2. tab = "tweet" /\ key \in {"draft", "main"}
  BY <1>1 DEF TabShape, StepsOf
<1>3. /\ DOMAIN found = DOMAIN view /\ DOMAIN found.texts = DOMAIN view.texts
      /\ found.texts["draft"] = texts[key]
      /\ DOMAIN fails = DOMAIN view /\ DOMAIN fails.texts = DOMAIN view.texts /\ fails.ok = FALSE
  BY <1>1, <1>2 DEF TabShape, Drafted
<1>4. /\ \A as : DOMAIN done(as) = CommandFields /\ done(as).pc = "done" /\ done(as).op = as
      /\ DOMAIN main = CommandFields /\ main.pc = "get" /\ main.key = "main"
  BY <1>1 DEF CallsQueued, CommandFields, NoCommand
<1>5. \/ view' = found /\ Served(done(key), c)
      \/ view' = view /\ Post(main, c)
      \/ view' = fails /\ Served(done("none"), c)
  BY DEF GetDraft, Show, ShowAs
<1> HIDE DEF key, done, found, fails, main
<1>6. CASE view' = found /\ Served(done(key), c)
  <2>1. CallsQueued' /\ TabShape' /\ Alternate' /\ commands'[c] = done(key)
    <3>1. DOMAIN done(key) = CommandFields /\ done(key).pc = "done"
      BY <1>4
    <3>2. "draft" \in DOMAIN view'.texts /\ DOMAIN view' = DOMAIN view
      BY <1>1, <1>2, <1>3, <1>6 DEF TabShape
    <3> QED BY <1>1, <1>2, <1>6, <3>1, <3>2, OtherTabEnds DEF stores
  <2>2. key = "main" \/ view'.texts["draft"] = texts'["draft"]
    BY <1>1, <1>2, <1>3, <1>6 DEF stores
  <2>3. key = "main" => \E d \in PanelSlots : commands'[d].op = "main"
    BY <1>4, <2>1
  <2>4. QuietShowsStored'
    BY <1>1, <1>2, <2>2, <2>3 DEF QuietShowsStored, stores
  <2> QED BY <2>1, <2>4 DEF PanelInv
<1>7. CASE view' = view /\ Post(main, c)
  <2>1. "get" \in StepsOf(tab)
    BY <1>2 DEF StepsOf
  <2> QED BY <1>1, <1>2, <1>4, <1>7, <2>1, OtherTabPosts DEF stores
<1>8. CASE view' = fails /\ Served(done("none"), c)
  <2>1. CallsQueued' /\ TabShape' /\ Alternate'
    <3>1. DOMAIN done("none") = CommandFields /\ done("none").pc = "done"
      BY <1>4
    <3>2. "draft" \in DOMAIN view'.texts /\ DOMAIN view' = DOMAIN view
      BY <1>1, <1>2, <1>3, <1>8 DEF TabShape
    <3> QED BY <1>1, <1>2, <1>8, <3>1, <3>2, OtherTabEnds DEF stores
  <2>2. QuietShowsStored'
    BY <1>3, <1>8 DEF QuietShowsStored
  <2> QED BY <2>1, <2>2 DEF PanelInv
<1> QED BY <1>5, <1>6, <1>7, <1>8

LEMMA PutDraftKeeps ==
    ASSUME PanelInv, NEW c \in PanelSlots, PutDraft(c)
    PROVE  PanelInv'
<1> DEFINE val == commands[c].val
           done == [NoCommand EXCEPT !.pc = "done", !.op = "none"]
           saved == [Drafted(val) EXCEPT !.ok = TRUE]
           fails == [Drafted(val) EXCEPT !.ok = FALSE]
           put == [texts EXCEPT !["draft"] = val]
<1>1. /\ Turn(c) /\ tab = "tweet" /\ tab' = tab /\ Served(done, c)
      /\ \/ texts' = put /\ view' = saved
         \/ (texts' = put \/ texts' = texts) /\ view' = fails
      /\ CallsQueued /\ TabShape
  BY DEF PutDraft, Show, ShowAs, PanelInv
<1>2. /\ DOMAIN saved = DOMAIN view /\ DOMAIN saved.texts = DOMAIN view.texts
      /\ saved.texts["draft"] = val
      /\ DOMAIN fails = DOMAIN view /\ DOMAIN fails.texts = DOMAIN view.texts /\ fails.ok = FALSE
      /\ DOMAIN put = DOMAIN texts /\ put["draft"] = val
  BY <1>1 DEF TabShape, Drafted
<1>3. DOMAIN done = CommandFields /\ done.pc = "done"
  BY DEF NoCommand, CommandFields
<1> HIDE DEF val, done, saved, fails, put
<1>4. CallsQueued' /\ TabShape' /\ Alternate'
  <2>1. /\ DOMAIN view' = DOMAIN view /\ "draft" \in DOMAIN view'.texts
        /\ DOMAIN texts \subseteq DOMAIN texts'
    BY <1>1, <1>2 DEF TabShape
  <2> QED BY <1>1, <1>3, <2>1, OtherTabEnds
<1>5. QuietShowsStored'
  BY <1>1, <1>2 DEF QuietShowsStored
<1> QED BY <1>4, <1>5 DEF PanelInv

LEMMA OnTabKeeps ==
    ASSUME PanelInv, NEW op, NEW key, NEW url, NEW val, NEW pc, OnTab(op, key, url, val, pc),
           pc \in StepsOf(tab) \ {"idle", "done", "fetch", "seed", "save"},
           pc = "get" => key \in {"draft", "main"},
           DOMAIN view' = DOMAIN view, tab = "tweet" => "draft" \in DOMAIN view'.texts
    PROVE  PanelInv'
<1>1. UNCHANGED <<tab, stores>> /\ CallsQueued /\ TabShape /\ Alternate
  BY DEF OnTab, PanelInv
<1>2. PICK c \in PanelSlots :
              /\ CallsQueued'
              /\ commands[c].pc = "idle" /\ commands'[c].pc = pc /\ commands'[c].key = key
              /\ \A d \in PanelSlots \ {c} : commands'[d] = commands[d]
              /\ \A a, b : Ahead(queue, a, b) => Ahead(queue', a, b)
  BY <1>1, GivenQueue
<1>3. TabShape'
  BY <1>1, <1>2 DEF TabShape, stores
<1>4. Alternate'
  <2>1. \A d \in PanelSlots : /\ (Early(d))' => Early(d)
                              /\ (Late(d))' => Late(d)
                              /\ commands'[d].pc = "save" => commands[d].pc = "save"
    BY <1>2 DEF Early, Late, BothRows, LastRow, UserSet
  <2>2. Seeded => Seeded'
    BY <1>1 DEF stores, Seeded, Default, SetIds
  <2>3. ASSUME NEW d \in PanelSlots, commands'[d].pc = "seed" PROVE (Early(d) \/ Late(d))'
    BY <1>1, <1>2, <2>3 DEF Alternate, Early, Late, BothRows, LastRow, UserSet
  <2>4. ASSUME NEW d \in PanelSlots, (Late(d))'
        PROVE  \/ Seeded' /\ UserSet \in DOMAIN sets'
               \/ \E x \in PanelSlots : Ahead(queue', d, x)
    <3>1. Late(d)
      BY <2>1, <2>4
    <3>2. \/ Seeded /\ UserSet \in DOMAIN sets
          \/ \E x \in PanelSlots : Ahead(queue, d, x)
      BY <1>1, <3>1 DEF Alternate
    <3> QED BY <1>1, <1>2, <2>2, <3>2 DEF stores
  <2>5. ASSUME NEW x \in PanelSlots, commands'[x].pc = "save"
        PROVE  /\ DOMAIN sets' # {}
               /\ \A d \in PanelSlots : (Early(d))' => Ahead(queue', d, x)
    BY <1>1, <1>2, <2>1, <2>5 DEF Alternate, stores
  <2>6. ASSUME NEW d \in PanelSlots, (Early(d))' PROVE Seeded'
    BY <1>1, <2>1, <2>2, <2>6 DEF Alternate
  <2> QED BY <2>3, <2>4, <2>5, <2>6 DEF Alternate, UserSet, Ahead
<1>5. QuietShowsStored'
  BY <1>2, WorkIsNotQuiet
<1> QED BY <1>2, <1>3, <1>4, <1>5 DEF PanelInv

LEMMA PanelUserKeeps ==
    ASSUME PanelInv, RelayCommand \/ SettingsCommand \/ Mount \/ Type
    PROVE  PanelInv'
<1>1. TabShape
  BY DEF PanelInv
<1>2. ASSUME RelayCommand PROVE PanelInv'
  <2>1. tab = "relays" /\ view' = view /\ \E op, key, url, val : OnTab(op, key, url, val, "read")
    BY <1>2 DEF RelayCommand, OpenRelays, AddRelay, PatchRelay, RemoveRelay, RestoreSet, MakeDefault, Click
  <2>2. PICK op, key, url, val : OnTab(op, key, url, val, "read")
    BY <2>1
  <2>3. "read" \in StepsOf(tab)
    BY <2>1 DEF StepsOf
  <2> QED BY <2>1, <2>2, <2>3, OnTabKeeps
<1>3. ASSUME SettingsCommand PROVE PanelInv'
  <2>1. /\ tab \in {"settings", "upload"} /\ view' = view
        /\ \E op, key, val : \E pc \in {"list", "write"} : OnTab(op, key, "none", val, pc)
    BY <1>3 DEF SettingsCommand, SaveSetting, ResetSetting, ImportJson, OpenSettings, SaveProvider,
                SaveServer, FormCommand
  <2>2. PICK op, key, val : \E pc \in {"list", "write"} : OnTab(op, key, "none", val, pc)
    BY <2>1
  <2>3. PICK pc \in {"list", "write"} : OnTab(op, key, "none", val, pc)
    BY <2>2
  <2>4. pc \in StepsOf(tab)
    BY <2>1 DEF StepsOf
  <2>5. pc # "get" /\ pc \notin {"idle", "done", "fetch", "seed", "save"}
    BY <2>3
  <2> QED BY <2>1, <2>3, <2>4, <2>5, OnTabKeeps
<1>4. ASSUME Mount PROVE PanelInv'
  <2>1. tab = "tweet" /\ view' = view /\ OnTab("load", "draft", "none", NoText, "get")
    BY <1>4 DEF Mount
  <2>2. "get" \in StepsOf(tab)
    BY <2>1 DEF StepsOf
  <2> QED BY <1>1, <2>1, <2>2, OnTabKeeps DEF TabShape
<1>5. ASSUME Type PROVE PanelInv'
  <2>1. PICK v \in Texts : /\ tab = "tweet" /\ view' = [view EXCEPT !.texts["draft"] = v]
                           /\ OnTab("save", "draft", "none", v, "write")
    BY <1>5 DEF Type
  <2>2. "write" \in StepsOf(tab)
    BY <2>1 DEF StepsOf
  <2>3. DOMAIN view' = DOMAIN view /\ "draft" \in DOMAIN view'.texts
    BY <1>1, <2>1 DEF TabShape
  <2> QED BY <2>1, <2>2, <2>3, OnTabKeeps
<1> QED BY <1>2, <1>3, <1>4, <1>5

\* The discovery test waits for no call of the store.
LEMMA FetchKeeps ==
    ASSUME PanelInv, NEW c \in PanelSlots, tab \notin {"relays", "tweet"},
           UNCHANGED <<tab, stores, queue>>, DOMAIN view' = DOMAIN view,
           NEW r, DOMAIN r = CommandFields, Becomes(c, r),
           commands[c].pc \in {"idle", "fetch"}, r.pc \in {"fetch", "done"},
           r.pc = "done" => r.op = "discover"
    PROVE  PanelInv'
<1>1. /\ CallsQueued /\ TabShape
      /\ commands'[c] = r /\ \A d \in PanelSlots \ {c} : commands'[d] = commands[d]
  BY DEF PanelInv, CallsQueued, Becomes
<1>2. CallsQueued'
  <2>1. DOMAIN commands' = PanelSlots /\ \A d \in PanelSlots : DOMAIN commands'[d] = CommandFields
    BY <1>1 DEF Becomes, CallsQueued
  <2>2. \A d \in PanelSlots : d \in InLine(queue) <=> commands'[d].pc \notin {"idle", "done", "fetch"}
    BY <1>1 DEF CallsQueued
  <2> QED BY <1>1, <2>1, <2>2 DEF CallsQueued
<1>3. TabShape'
  BY <1>1 DEF TabShape, StepsOf
<1>4. Alternate'
  BY <1>3, OtherTabsSeedNothing
<1>5. QuietShowsStored'
  <2>1. CASE r.pc = "fetch"
    BY <1>1, <2>1, WorkIsNotQuiet
  <2>2. CASE r.pc = "done"
    BY <1>1, <2>2 DEF QuietShowsStored
  <2> QED BY <2>1, <2>2
<1> QED BY <1>2, <1>3, <1>4, <1>5 DEF PanelInv

LEMMA DiscoverKeeps ==
    ASSUME PanelInv, Discover
    PROVE  PanelInv'
<1>1. PICK c \in PanelSlots :
          /\ AtCall(c, "idle")
          /\ Becomes(c, [NoCommand EXCEPT !.op = "discover", !.pc = "fetch", !.loaded = view.texts])
  BY DEF Discover
<1> DEFINE r == [NoCommand EXCEPT !.op = "discover", !.pc = "fetch", !.loaded = view.texts]
<1>2. DOMAIN r = CommandFields /\ r.pc = "fetch" /\ Becomes(c, r)
  BY <1>1 DEF NoCommand, CommandFields
<1> HIDE DEF r
<1>3. tab \notin {"relays", "tweet"} /\ UNCHANGED <<tab, stores, queue>> /\ view' = view
  BY DEF Discover
<1>4. commands[c].pc = "idle"
  BY <1>1 DEF AtCall
<1> QED BY <1>2, <1>3, <1>4, FetchKeeps

LEMMA FetchDelegatesKeeps ==
    ASSUME PanelInv, NEW c \in PanelSlots, FetchDelegates(c)
    PROVE  PanelInv'
<1> DEFINE r == [commands[c] EXCEPT !.hops = @ + 1]
<1>1. commands[c].pc = "fetch" /\ UNCHANGED <<tab, stores, view, queue>>
  BY DEF FetchDelegates, AtCall
<1>2. commands' = [commands EXCEPT ![c] = r]
  BY DEF FetchDelegates
<1>3. DOMAIN r = CommandFields /\ r.pc = "fetch"
  BY <1>1 DEF PanelInv, CallsQueued, CommandFields
<1> HIDE DEF r
<1>4. tab \notin {"relays", "tweet"}
  BY <1>1 DEF PanelInv, TabShape, StepsOf
<1> QED BY <1>1, <1>2, <1>3, <1>4, FetchKeeps DEF Becomes

LEMMA FetchEndsKeeps ==
    ASSUME PanelInv, NEW c \in PanelSlots, FetchEnds(c)
    PROVE  PanelInv'
<1> DEFINE r == [NoCommand EXCEPT !.op = "discover", !.pc = "done"]
           v == [view EXCEPT !.texts = commands[c].loaded]
<1>1. /\ commands[c].pc = "fetch" /\ UNCHANGED <<tab, stores, queue>>
      /\ Becomes(c, r) /\ view' = v
  BY DEF FetchEnds, AtCall
<1>2. DOMAIN r = CommandFields /\ r.pc = "done" /\ r.op = "discover" /\ DOMAIN v = DOMAIN view
  BY DEF NoCommand, CommandFields, PanelInv, TabShape
<1> HIDE DEF r, v
<1>3. tab \notin {"relays", "tweet"}
  BY <1>1 DEF PanelInv, TabShape, StepsOf
<1> QED BY <1>1, <1>2, <1>3, FetchKeeps

-----------------------------------------------------------------------------
LEMMA PanelStarts == PanelInit => PanelInv
<1> SUFFICES ASSUME PanelInit PROVE PanelInv
  OBVIOUS
<1>1. /\ \A c \in PanelSlots : commands[c].pc = "idle" /\ DOMAIN commands[c] = CommandFields
      /\ DOMAIN commands = PanelSlots
  BY DEF PanelInit, NoCommand, CommandFields
<1>2. queue = <<>> /\ Len(queue) = 0 /\ DOMAIN queue = {} /\ queue \in Seq(PanelSlots)
  BY DEF PanelInit
<1>3. CallsQueued
  BY <1>1, <1>2 DEF CallsQueued, NoTwice, InLine
<1>4. TabShape
  <2>1. /\ DOMAIN view = {"sets", "selected", "texts", "ok"}
        /\ DOMAIN view.texts = TextKeys /\ DOMAIN texts = TextKeys
    BY DEF PanelInit
  <2>2. \A c \in PanelSlots : commands[c].pc \in StepsOf(tab) /\ commands[c].pc # "get"
    BY <1>1 DEF StepsOf
  <2> QED BY <2>1, <2>2 DEF TabShape, TextKeys
<1>5. Alternate
  BY <1>1 DEF Alternate, Early, Late
<1>6. QuietShowsStored
  BY DEF PanelInit, QuietShowsStored
<1> QED BY <1>3, <1>4, <1>5, <1>6 DEF PanelInv

LEMMA PanelKeeps == PanelInv /\ [PanelNext]_panelVars => PanelInv'
<1> SUFFICES ASSUME PanelInv, [PanelNext]_panelVars PROVE PanelInv'
  OBVIOUS
<1>1. CASE PanelUser
  BY <1>1, PanelUserKeeps, DiscoverKeeps DEF PanelUser
<1>2. ASSUME NEW c \in PanelSlots, Serve(c) PROVE PanelInv'
  BY <1>2, ReadSetsKeeps, SeedRowKeeps, SaveRowKeeps, WriteSettingKeeps, ListSettingsKeeps,
     GetDraftKeeps, PutDraftKeeps DEF Serve
<1>3. ASSUME NEW c \in PanelSlots, FetchDelegates(c) \/ FetchEnds(c) PROVE PanelInv'
  BY <1>3, FetchDelegatesKeeps, FetchEndsKeeps
<1>4. CASE UNCHANGED panelVars
  BY <1>4 DEF PanelInv, CallsQueued, TabShape, Alternate, Early, Late, Seeded, Default, SetIds,
              BothRows, LastRow, Ahead, InLine, NoTwice, StepsOf, QuietShowsStored, AtWork,
              PanelSlots, CommandFields, UserSet, panelVars, stores
<1> QED BY <1>1, <1>2, <1>3, <1>4 DEF PanelNext

\* The tabs of crates/lkjstr-web/src: relay_settings_host.rs, settings_host.rs,
\* upload_settings_host.rs, tweet_host.rs.  When the commands of a tab have all
\* ended and the last one succeeded, the tab shows what the store holds, for
\* every number of overlapping commands and of failing calls.
THEOREM QuietPanelsShowTheStore == PanelSpec => []QuietShowsStored
<1>1. PanelInv => QuietShowsStored
  BY DEF PanelInv
<1> QED BY <1>1, PanelStarts, PanelKeeps, PTL DEF PanelSpec
=============================================================================
