--------------------------- MODULE StorageWorker ---------------------------
(***************************************************************************)
(* StorageWorkerClient over a worker of its own and the Web Lock it holds  *)
(* (crates/lkjstr-web/src/storage_worker): construction, requests with     *)
(* their timers, cancellation, answers, worker errors and close, for the   *)
(* clients of several pages that compete for the lock.                     *)
(***************************************************************************)
EXTENDS Naturals, Sequences, FiniteSets, SequencesExt

CONSTANTS Clients,    \* one client per page
          Requests    \* requests a client may be given

Closers  == {"close1", "close2"}   \* Close requests, by their caller
Nobody   == "nobody"
Ids      == Requests \cup Closers
Outcomes == {"none", "ok", "failed"}

VARIABLES
    lock,      \* holder of lkjstr.sqlite-opfs-owner
    phase,     \* the client: none, asking, live or closed
    lease,     \* whether the client still has its lease
    pending,   \* requests whose promise is open, each with a timer
    inbox,     \* messages the worker has not taken
    dropped,   \* requests the worker was told to cancel
    answers,   \* responses on their way back
    closing,   \* the closes that await their Close request
    result     \* how each promise was resolved: timeout, canceled and
               \* unavailable are all failed

vars == <<lock, phase, lease, pending, inbox, dropped, answers, closing, result>>

Init == /\ lock = Nobody
        /\ phase = [c \in Clients |-> "none"] /\ lease = [c \in Clients |-> FALSE]
        /\ pending = [c \in Clients |-> {}] /\ inbox = [c \in Clients |-> <<>>]
        /\ dropped = [c \in Clients |-> {}] /\ answers = [c \in Clients |-> {}]
        /\ closing = [c \in Clients |-> {}]
        /\ result = [c \in Clients |-> [r \in Ids |-> "none"]]

Resolve(c, S, o) ==
    result' = [result EXCEPT ![c] = [r \in Ids |-> IF r \in S THEN o ELSE @[r]]]

-----------------------------------------------------------------------------
\* new_owned_module: an exclusive lock with ifAvailable.
Construct(c) ==
    /\ phase[c] = "none" /\ phase' = [phase EXCEPT ![c] = "asking"]
    /\ UNCHANGED <<lock, lease, pending, inbox, dropped, answers, result>>

\* acquire_wasm_lease, worker_client_with_lease.  Without the lock there is
\* no client; without a worker the lease is dropped.
LockGranted(c) ==
    /\ phase[c] = "asking" /\ lock = Nobody
    /\ \/ /\ phase' = [phase EXCEPT ![c] = "live"] /\ lease' = [lease EXCEPT ![c] = TRUE]
          /\ lock' = c
       \/ phase' = [phase EXCEPT ![c] = "none"] /\ UNCHANGED <<lock, lease>>
    /\ UNCHANGED <<pending, inbox, dropped, answers, result>>

LockRefused(c) ==
    /\ phase[c] = "asking" /\ lock # Nobody
    /\ phase' = [phase EXCEPT ![c] = "none"]
    /\ UNCHANGED <<lock, lease, pending, inbox, dropped, answers, result>>

-----------------------------------------------------------------------------
Unused(c, r) == result[c][r] = "none" /\ r \notin pending[c]

\* worker_request
Send(c, r) ==
    /\ Unused(c, r)
    /\ IF phase[c] = "closed"
       THEN Resolve(c, {r}, "failed") /\ UNCHANGED <<pending, inbox>>
       ELSE /\ phase[c] = "live" /\ pending' = [pending EXCEPT ![c] = @ \cup {r}]
            /\ UNCHANGED result
            /\ inbox' = [inbox EXCEPT ![c] = Append(@, r)]
    /\ UNCHANGED <<lock, phase, lease, dropped, answers>>

Request(c, r) == r \in Requests /\ Send(c, r)

\* cancel_request
Cancel(c, r) ==
    /\ phase[c] = "live" /\ r \in pending[c] \cap Requests
    /\ pending' = [pending EXCEPT ![c] = @ \ {r}]
    /\ dropped' = [dropped EXCEPT ![c] = @ \cup {r}]
    /\ Resolve(c, {r}, "failed")
    /\ UNCHANGED <<lock, phase, lease, inbox, answers>>

\* The worker serves one message after the other; a cancelled one it skips.
WorkerRuns(c) ==
    /\ phase[c] = "live" /\ inbox[c] # <<>>
    /\ inbox' = [inbox EXCEPT ![c] = Tail(@)]
    /\ answers' = IF Head(inbox[c]) \in dropped[c] THEN answers
                  ELSE [answers EXCEPT ![c] = @ \cup {Head(inbox[c])}]
    /\ UNCHANGED <<lock, phase, lease, pending, dropped, result>>

\* handle_message: a response nobody waits for is only counted.
Answer(c, r) ==
    /\ phase[c] = "live" /\ r \in answers[c]
    /\ answers' = [answers EXCEPT ![c] = @ \ {r}]
    /\ IF r \in pending[c]
       THEN Resolve(c, {r}, "ok") /\ pending' = [pending EXCEPT ![c] = @ \ {r}]
       ELSE UNCHANGED <<pending, result>>
    /\ UNCHANGED <<lock, phase, lease, inbox, dropped>>

\* install_timeout
Timeout(c, r) ==
    /\ r \in pending[c]
    /\ pending' = [pending EXCEPT ![c] = @ \ {r}]
    /\ dropped' = [dropped EXCEPT ![c] = @ \cup {r}]
    /\ Resolve(c, {r}, "failed")
    /\ UNCHANGED <<lock, phase, lease, inbox, answers>>

-----------------------------------------------------------------------------
\* Mutant: the worker is terminated and the lease forgotten, so nobody frees the lock.
ShutdownKeepingLease(c) ==
    /\ inbox' = [inbox EXCEPT ![c] = <<>>] /\ dropped' = [dropped EXCEPT ![c] = {}]
    /\ answers' = [answers EXCEPT ![c] = {}]
    /\ lease' = [lease EXCEPT ![c] = FALSE]
    /\ UNCHANGED lock

\* shutdown: the worker is terminated with what it has not done, the lease is
\* released if it still is there.
Shutdown(c) ==
    /\ inbox' = [inbox EXCEPT ![c] = <<>>] /\ dropped' = [dropped EXCEPT ![c] = {}]
    /\ answers' = [answers EXCEPT ![c] = {}]
    /\ lease' = [lease EXCEPT ![c] = FALSE]
    /\ lock' = IF lease[c] THEN Nobody ELSE lock

\* finish_all, mark_closed and shutdown run without a step between them.
Finish(c) ==
    /\ phase' = [phase EXCEPT ![c] = "closed"]
    /\ Resolve(c, pending[c], "failed") /\ pending' = [pending EXCEPT ![c] = {}]
    /\ Shutdown(c)

\* error_callback, of error and messageerror events.
WorkerError(c) == phase[c] = "live" /\ Finish(c)

\* close_worker, by two callers at most: a Close request with a second to
\* answer; whatever its outcome, the client is closed then, once more if the
\* other caller or an error already closed it.
Close(c, k) ==
    /\ k \in Closers /\ phase[c] = "live" /\ Send(c, k)
    /\ closing' = [closing EXCEPT ![c] = @ \cup {k}]

CloseEnds(c, k) ==
    /\ k \in closing[c] /\ result[c][k] # "none"
    /\ Finish(c)
    /\ closing' = [closing EXCEPT ![c] = @ \ {k}]

\* The page goes away: the browser ends the worker and frees the lock.
Leave(c) ==
    /\ phase[c] \in {"live", "closed"} /\ phase' = [phase EXCEPT ![c] = "gone"]
    /\ pending' = [pending EXCEPT ![c] = {}] /\ closing' = [closing EXCEPT ![c] = {}]
    /\ result' = [result EXCEPT ![c] = [r \in Ids |-> "none"]] /\ Shutdown(c)

-----------------------------------------------------------------------------
Step(c) ==
    \/ Construct(c) \/ LockGranted(c) \/ LockRefused(c) \/ WorkerRuns(c) \/ WorkerError(c)
    \/ \E r \in Ids : Request(c, r) \/ Cancel(c, r) \/ Answer(c, r) \/ Timeout(c, r)

Next == \E c \in Clients :
            \/ Step(c) /\ UNCHANGED closing
            \/ \E k \in Closers : Close(c, k) \/ CloseEnds(c, k)
            \/ Leave(c)

\* Timers fire and a resolved promise is handed to the close that awaits it.
Fairness == \A c \in Clients :
    /\ \A r \in Ids : WF_vars(Timeout(c, r) /\ UNCHANGED closing)
    /\ \A k \in Closers : WF_vars(CloseEnds(c, k))

Spec == Init /\ [][Next]_vars /\ Fairness

-----------------------------------------------------------------------------
TypeOK ==
    /\ lock \in Clients \cup {Nobody}
    /\ phase \in [Clients -> {"none", "asking", "live", "closed", "gone"}]
    /\ lease \in [Clients -> BOOLEAN]
    /\ pending \in [Clients -> SUBSET Ids] /\ dropped \in [Clients -> SUBSET Ids]
    /\ answers \in [Clients -> SUBSET Ids] /\ closing \in [Clients -> SUBSET Closers]
    /\ \A c \in Clients : inbox[c] \in Seq(Ids)
    /\ result \in [Clients -> [Ids -> Outcomes]]

\* The lock is held exactly as long as the worker that needs it lives: two
\* closes and an error may each shut the same client down, the last of them
\* when another page already owns the lock (client_lifecycle.rs:25-37,
\* owner_lease.rs:38-54, docs owner-lifecycle.md:57-60).
LockFollowsWorker == \A c \in Clients : lock = c <=> phase[c] = "live"
=============================================================================
