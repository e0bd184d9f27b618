---------------------------- MODULE SqliteKernel ----------------------------
(***************************************************************************)
(* The SQLite storage owner of a page:                                     *)
(*   src/lib/storage/sqlite-opfs/kernel-client.ts, kernel-cooldown.ts,     *)
(*   client.ts, owner-lease.ts and owner-coordination.ts of the page;      *)
(*   static/sqlite-opfs-worker.js and sqlite-opfs-worker-queue.js.         *)
(*                                                                         *)
(* An attempt is one run of createAndOpenSqliteStorage with the client and *)
(* the worker it constructs.  A task of the page and the promise           *)
(* continuations it releases are one step.  The page and a worker exchange *)
(* messages in order; the worker keeps its jobs in one promise queue, so   *)
(* only an open and an estimate of the quota, the two jobs that await a    *)
(* task of their own, let messages arrive between two jobs.  A worker that *)
(* is terminated is gone with its messages.  Statements that SQLite        *)
(* refuses and the map of applied schemas are left out.                    *)
(***************************************************************************)
EXTENDS Integers, Sequences, FiniteSets, Functions

CONSTANTS MaxRequests, \* bound: calls of sendSqliteStorage
          MaxAttempts, \* bound: attempts to open
          Estimates    \* the calls that ask for estimate-storage

ASSUME BoundsAssumption == MaxRequests \in Nat /\ MaxAttempts \in Nat \ {0}
ASSUME EstimatesAssumption == Estimates \subseteq 1..MaxRequests

Requests == 1..MaxRequests \* the calls, numbered in the order they are made
OpenId   == 0              \* the request id of the open
CloseId  == -1             \* the request id of the close
NoJob    == -2             \* the worker awaits nothing

Attempts == 1..MaxAttempts
Free     == 0
Other    == -1 \* held by another tab

VARIABLES
  lock,        \* the Web Lock: held for an attempt of this page, Free or Other
  openPromise, \* the attempt of openPromise, or 0
  client,      \* the attempt whose client is `client`, or 0
  cooldown,    \* a refusal is answered from memory
  phase,       \* phase[a]: where attempt a is
  waiting,     \* waiting[a]: the calls that await the promise of a, in order
  pending,     \* pending[a]: the ids in `pending` of the client of a
  mail,        \* mail[a]: messages to the worker of a
  job,         \* job[a]: the id of the job the worker of a awaits, or NoJob
  jobs,        \* jobs[a]: the ids in its queue behind that job
  db,          \* db[a]: its database is open
  canceled,    \* canceled[a]: the worker's set of canceled ids
  replies,     \* replies[a]: messages from the worker of a
  asked,       \* the calls made so far
  aborted,     \* calls whose signal aborted while they awaited an attempt
  answer,      \* answer[r]: the outcome returned to r
  ran,         \* history: requests whose statement was executed
  revoked      \* history: requests canceled in the worker before they ran

page   == <<openPromise, client, cooldown, waiting, pending, asked, aborted, answer>>
worker == <<mail, job, jobs, db, canceled, replies, ran, revoked>>
vars   == <<lock, phase, page, worker>>

Phases == {"none",
           "locking", \* navigator.locks.request is undecided
           "looking", \* refused; asks the other tabs who holds the lock
           "opening", \* has a client, awaits the answer to "open"
           "open",
           "over"}    \* failed, or its client is closed

Answers == {"ok", "busy", "unavailable", "canceled", "timeout"}

Init ==
  /\ lock \in {Free, Other}
  /\ openPromise = 0 /\ client = 0 /\ cooldown = FALSE
  /\ phase = [a \in Attempts |-> "none"]
  /\ waiting = [a \in Attempts |-> <<>>]
  /\ pending = [a \in Attempts |-> {}]
  /\ mail = [a \in Attempts |-> <<>>]
  /\ job = [a \in Attempts |-> NoJob]
  /\ jobs = [a \in Attempts |-> <<>>]
  /\ db = [a \in Attempts |-> FALSE]
  /\ canceled = [a \in Attempts |-> {}]
  /\ replies = [a \in Attempts |-> <<>>]
  /\ asked = {} /\ aborted = {}
  /\ answer = [r \in Requests |-> "none"]
  /\ ran = {} /\ revoked = {}

----------------------------------------------------------------------------
(* Helpers *)

\* The client of a is not closed, and its worker runs.
Running(a) == phase[a] \in {"opening", "open"}

Run(id)    == [kind |-> "run", id |-> id]
Cancel(id) == [kind |-> "cancel", id |-> id]

\* The positions of the calls of s whose signal is not aborted, and the one
\* way to list a set of positions in order.
Live(s)   == {i \in DOMAIN s : s[i] \notin aborted}
Orders(S) == {f \in [1..Cardinality(S) -> S] : \A i, j \in DOMAIN f : i < j => f[i] < f[j]}

\* send() of the client of a, whose pending ids were `held`: the calls of s
\* whose signal is not aborted are posted, the others answered on the spot.
Post(a, s, held) ==
  \E f \in Orders(Live(s)) :
     /\ pending' = [pending EXCEPT ![a] = held \cup {s[i] : i \in Live(s)}]
     /\ mail' = [mail EXCEPT ![a] = @ \o [i \in DOMAIN f |-> Run(s[f[i]])]]
     /\ answer' = [r \in Requests |-> IF r \in Range(s) /\ r \in aborted
                                      THEN "canceled" ELSE answer[r]]

RefuseKeepingWaiters(a, why) ==
  /\ phase' = [phase EXCEPT ![a] = "over"]
  /\ openPromise' = 0
  /\ UNCHANGED <<waiting, answer>>

\* The promise of an attempt without a client resolves to a refusal, and with
\* it every call that awaits it.
Refuse(a, why) ==
  /\ phase' = [phase EXCEPT ![a] = "over"]
  /\ openPromise' = 0
  /\ waiting' = [waiting EXCEPT ![a] = <<>>]
  /\ answer' = [r \in Requests |-> IF r \in Range(waiting[a]) THEN why ELSE answer[r]]

\* closeWith(): every pending request is answered and the worker terminated.
\* When the open was pending its attempt fails, with the calls that await it,
\* and forgets client and openPromise, whatever they hold by then; when a
\* close was pending, closeSqliteStorage goes on to reset.
CloseWith(a, why, blocked) ==
  /\ phase' = [phase EXCEPT ![a] = "over"]
  /\ answer' = [r \in Requests |-> IF r \in pending[a] \cup Range(waiting[a])
                                   THEN why ELSE answer[r]]
  /\ waiting' = [waiting EXCEPT ![a] = <<>>]
  /\ pending' = [pending EXCEPT ![a] = {}]
  /\ mail' = [mail EXCEPT ![a] = <<>>]
  /\ job' = [job EXCEPT ![a] = NoJob]
  /\ jobs' = [jobs EXCEPT ![a] = <<>>]
  /\ db' = [db EXCEPT ![a] = FALSE]
  /\ canceled' = [canceled EXCEPT ![a] = {}]
  /\ replies' = [replies EXCEPT ![a] = <<>>]
  /\ IF pending[a] \cap {OpenId, CloseId} # {}
     THEN client' = 0 /\ openPromise' = 0
     ELSE UNCHANGED <<client, openPromise>>
  /\ cooldown' = (CloseId \notin pending[a] /\ (cooldown \/ blocked))
  /\ UNCHANGED <<asked, aborted, ran, revoked>>

StopKeepingLock(a, why, blocked) == CloseWith(a, why, blocked) /\ UNCHANGED lock

\* closeWith() ends with the release of the owner lease.
Stop(a, why, blocked) ==
  /\ CloseWith(a, why, blocked)
  /\ lock' = IF lock = a THEN Free ELSE lock

----------------------------------------------------------------------------
(* The calls *)

\* A new attempt, which the calls of s await.
Begin(s) ==
  \E a \in Attempts :
    /\ phase[a] = "none" /\ \A b \in 1..(a - 1) : phase[b] # "none"
    /\ phase' = [phase EXCEPT ![a] = "locking"]
    /\ openPromise' = a
    /\ waiting' = [waiting EXCEPT ![a] = s]

\* sendSqliteStorage, by the calls of s one after the other in one task.  Once
\* openPromise is resolved they look at the client, which is never forgotten
\* without it.  The first one that finds it closed resets and opens anew;
\* those behind it had the old promise, and find no client.
Send(s) ==
  LET a == openPromise
  IN  /\ asked' = asked \cup Range(s)
      /\ \/ /\ cooldown
            /\ answer' = [r \in Requests |-> IF r \in Range(s) THEN "busy" ELSE answer[r]]
            /\ UNCHANGED <<openPromise, client, cooldown, phase, waiting, pending, mail>>
         \/ /\ ~cooldown /\ a = 0
            /\ Begin(s)
            /\ UNCHANGED <<client, cooldown, pending, mail, answer>>
         \/ /\ ~cooldown /\ a # 0 /\ phase[a] \in {"locking", "looking", "opening"}
            /\ waiting' = [waiting EXCEPT ![a] = @ \o s]
            /\ UNCHANGED <<openPromise, client, cooldown, phase, pending, mail, answer>>
         \/ /\ ~cooldown /\ a # 0 /\ phase[a] \in {"open", "over"}
            /\ client # 0 /\ phase[client] # "over"
            /\ Post(client, s, pending[client])
            /\ UNCHANGED <<openPromise, client, cooldown, phase, waiting>>
         \/ /\ ~cooldown /\ a # 0 /\ phase[a] \in {"open", "over"}
            /\ client # 0 /\ phase[client] = "over"
            /\ Begin(<<Head(s)>>)
            /\ client' = 0
            /\ answer' = [r \in Requests |-> IF r \in Range(Tail(s))
                                             THEN "unavailable" ELSE answer[r]]
            /\ UNCHANGED <<cooldown, pending, mail>>
      /\ UNCHANGED <<lock, aborted, job, jobs, db, canceled, replies, ran, revoked>>

\* The signal of a call aborts.  A posted request is answered and its cancel
\* message follows it; a call that awaits an attempt only remembers it.
Abort(r) ==
  /\ r \in asked \ aborted /\ answer[r] = "none"
  /\ aborted' = aborted \cup {r}
  /\ \/ \E a \in Attempts :
          /\ r \in pending[a]
          /\ pending' = [pending EXCEPT ![a] = @ \ {r}]
          /\ mail' = [mail EXCEPT ![a] = Append(@, Cancel(r))]
          /\ answer' = [answer EXCEPT ![r] = "canceled"]
     \/ /\ \E a \in Attempts : r \in Range(waiting[a])
        /\ UNCHANGED <<pending, mail, answer>>
  /\ UNCHANGED <<lock, phase, openPromise, client, cooldown, waiting, asked,
                 job, jobs, db, canceled, replies, ran, revoked>>

\* The timer of a posted request.
Timeout(a, r) ==
  /\ r \in pending[a]
  /\ pending' = [pending EXCEPT ![a] = @ \ {r}]
  /\ mail' = [mail EXCEPT ![a] = Append(@, Cancel(r))]
  /\ answer' = [answer EXCEPT ![r] = "timeout"]
  /\ UNCHANGED <<lock, phase, openPromise, client, cooldown, waiting, asked,
                 aborted, job, jobs, db, canceled, replies, ran, revoked>>

\* closeSqliteStorage: with no client, or a closed one, it resets at once.
\* (bound: one close request at a time)
Close ==
  /\ IF client = 0 \/ client \in {a \in Attempts : phase[a] = "over"}
     THEN /\ client' = 0 /\ openPromise' = 0 /\ cooldown' = FALSE
          /\ UNCHANGED <<pending, mail, answer>>
     ELSE /\ CloseId \notin pending[client]
          /\ Post(client, <<CloseId>>, pending[client])
          /\ UNCHANGED <<openPromise, client, cooldown>>
  /\ UNCHANGED <<lock, phase, waiting, asked, aborted, job, jobs, db, canceled, replies, ran, revoked>>

\* activeOwnerCooldown: its two seconds are over.
CooldownEnds ==
  /\ cooldown /\ cooldown' = FALSE
  /\ UNCHANGED <<lock, phase, openPromise, client, waiting, pending, asked, aborted, answer, worker>>

----------------------------------------------------------------------------
(* An attempt *)

\* Lock requests are decided in the order they were made.
Decided(a) == phase[a] = "locking" /\ \A b \in 1..(a - 1) : phase[b] # "locking"

\* The lock is granted and the worker constructed: the open is its first mail.
Granted(a) ==
  /\ Decided(a) /\ lock = Free
  /\ lock' = a /\ client' = a
  /\ phase' = [phase EXCEPT ![a] = "opening"]
  /\ pending' = [pending EXCEPT ![a] = {OpenId}]
  /\ mail' = [mail EXCEPT ![a] = <<Run(OpenId)>>]
  /\ UNCHANGED <<openPromise, cooldown, waiting, asked, aborted, answer,
                 job, jobs, db, canceled, replies, ran, revoked>>

\* The request is rejected, or it is granted, the construction of the worker
\* throws and the lease is released.
Fails(a) ==
  /\ Decided(a)
  /\ Refuse(a, "unavailable")
  /\ UNCHANGED <<lock, client, cooldown, pending, asked, aborted, worker>>

\* ifAvailable: a held lock is refused, whoever holds it.
Denied(a) ==
  /\ Decided(a) /\ lock # Free
  /\ phase' = [phase EXCEPT ![a] = "looking"]
  /\ UNCHANGED <<lock, page, worker>>

\* lookupSqliteOwnerHolder answers or gives up; the attempt is refused and
\* the cooldown starts.
LookedUp(a) ==
  /\ phase[a] = "looking"
  /\ Refuse(a, "busy")
  /\ cooldown' = TRUE
  /\ UNCHANGED <<lock, client, pending, asked, aborted, worker>>

\* The ten seconds of the open.
OpenTimeout(a) == OpenId \in pending[a] /\ Stop(a, "timeout", FALSE)

\* The second of closeSqliteStorage.
CloseTimeout(a) == CloseId \in pending[a] /\ Stop(a, "canceled", FALSE)

\* onerror of the worker
Crash(a) == Running(a) /\ Stop(a, "unavailable", FALSE)

\* The pending ids that the reply m of the worker settles.
Settles(a, m) == pending[a] \cap {m.id}

\* onmessage of the client
Deliver(a) ==
  /\ Running(a) /\ replies[a] # <<>>
  /\ LET m == Head(replies[a])
     IN \/ /\ OpenId \in Settles(a, m) /\ m.outcome = "ok"
           /\ phase' = [phase EXCEPT ![a] = "open"]
           /\ waiting' = [waiting EXCEPT ![a] = <<>>]
           /\ Post(a, waiting[a], pending[a] \ {OpenId})
           /\ replies' = [replies EXCEPT ![a] = Tail(@)]
           /\ UNCHANGED <<lock, openPromise, client, cooldown, asked, aborted,
                          job, jobs, db, canceled, ran, revoked>>
        \/ /\ OpenId \in Settles(a, m) /\ m.outcome # "ok"
           /\ Stop(a, m.outcome, m.outcome = "busy")
        \/ /\ CloseId \in Settles(a, m)
           /\ Stop(a, "canceled", FALSE)
        \/ /\ Settles(a, m) \cap Requests # {}
           /\ pending' = [pending EXCEPT ![a] = @ \ Settles(a, m)]
           /\ answer' = [r \in Requests |-> IF r \in Settles(a, m)
                                            THEN m.outcome ELSE answer[r]]
           /\ replies' = [replies EXCEPT ![a] = Tail(@)]
           /\ UNCHANGED <<lock, phase, openPromise, client, cooldown, waiting, asked,
                          aborted, mail, job, jobs, db, canceled, ran, revoked>>
        \/ /\ Settles(a, m) = {}
           /\ replies' = [replies EXCEPT ![a] = Tail(@)]
           /\ UNCHANGED <<lock, phase, page, mail, job, jobs, db, canceled, ran, revoked>>

----------------------------------------------------------------------------
(* The worker *)

OutcomeIgnoringCancel(a, q, i, opened) ==
  IF q[i] \in Estimates \cup {CloseId} \/ opened THEN "ok" ELSE "unavailable"

\* run() of the i-th job of q, with no task since the first: a canceled job
\* does not run; a close closes the database and forgets the canceled ids; a
\* statement needs the database.
Outcome(a, q, i, opened) ==
  LET shut == \E j \in 1..(i - 1) : q[j] = CloseId
  IN  IF ~shut /\ q[i] \in canceled[a] THEN "canceled"
      ELSE IF q[i] \in Estimates \cup {CloseId} \/ (opened /\ ~shut) THEN "ok"
      ELSE "unavailable"

\* The worker runs the first n jobs of q, up to the next one that awaits, and
\* answers them behind `first`.
Works(a, q, opened, first) ==
  LET Awaits(i) == q[i] \in Estimates /\ Outcome(a, q, i, opened) = "ok"
  IN  \E n \in 0..Len(q) :
        LET begun  == {i \in DOMAIN q : i <= n + 1}
            shut   == \E i \in 1..n : q[i] = CloseId
            result == [i \in 1..n |-> [id |-> q[i], outcome |-> Outcome(a, q, i, opened)]]
        IN  /\ \A i \in 1..n : ~Awaits(i)
            /\ n < Len(q) => Awaits(n + 1)
            /\ replies' = [replies EXCEPT ![a] = @ \o first \o result]
            /\ job' = [job EXCEPT ![a] = IF n < Len(q) THEN q[n + 1] ELSE NoJob]
            /\ jobs' = [jobs EXCEPT ![a] = SubSeq(q, n + 2, Len(q))]
            /\ db' = [db EXCEPT ![a] = opened /\ ~shut]
            /\ canceled' = [canceled EXCEPT ![a] = IF shut THEN {} ELSE @ \ {q[i] : i \in begun}]
            /\ ran' = ran \cup ({q[i] : i \in {x \in begun : Outcome(a, q, x, opened) = "ok"}}
                               \cap Requests)

\* onmessage of the worker: a cancel is recorded at once; a command runs, or
\* queues up behind the job the worker awaits.
Receive(a) ==
  /\ mail[a] # <<>>
  /\ mail' = [mail EXCEPT ![a] = Tail(@)]
  /\ LET m == Head(mail[a])
     IN \/ /\ m.kind = "cancel"
           /\ canceled' = [canceled EXCEPT ![a] = @ \cup {m.id}]
           /\ revoked' = revoked \cup ({m.id} \ ran)
           /\ UNCHANGED <<job, jobs, db, replies, ran>>
        \/ /\ m.kind = "run" /\ m.id = OpenId
           /\ job' = [job EXCEPT ![a] = OpenId]
           /\ UNCHANGED <<jobs, db, canceled, replies, ran, revoked>>
        \/ /\ m.kind = "run" /\ m.id # OpenId /\ job[a] # NoJob
           /\ jobs' = [jobs EXCEPT ![a] = Append(@, m.id)]
           /\ UNCHANGED <<job, db, canceled, replies, ran, revoked>>
        \/ /\ m.kind = "run" /\ m.id # OpenId /\ job[a] = NoJob
           /\ Works(a, <<m.id>>, db[a], <<>>)
           /\ UNCHANGED revoked
  /\ UNCHANGED <<lock, phase, page>>

\* openDatabase ends: open, in use by somebody else, or failed.  The jobs
\* behind it run in the same task.
OpenEnds(a, outcome) ==
  /\ job[a] = OpenId
  /\ Works(a, jobs[a], outcome = "ok", <<[id |-> OpenId, outcome |-> outcome]>>)
  /\ UNCHANGED <<lock, phase, page, mail, revoked>>

\* The browser answers navigator.storage.estimate().
EstimateEnds(a) ==
  /\ job[a] \in Estimates
  /\ Works(a, jobs[a], db[a], <<[id |-> job[a], outcome |-> "ok"]>>)
  /\ UNCHANGED <<lock, phase, page, mail, revoked>>

----------------------------------------------------------------------------
(* The other tabs *)

OtherTakes    == lock = Free  /\ lock' = Other /\ UNCHANGED <<phase, page, worker>>
OtherReleases == lock = Other /\ lock' = Free  /\ UNCHANGED <<phase, page, worker>>

----------------------------------------------------------------------------

\* The next call, or the next two in the same task.
Batches == LET r == Cardinality(asked) + 1
           IN  {s \in {<<r>>, <<r, r + 1>>} : Range(s) \subseteq Requests}

Next ==
  \/ \E s \in Batches : Send(s)
  \/ \E r \in Requests : Abort(r)
  \/ Close \/ CooldownEnds \/ OtherTakes \/ OtherReleases
  \/ \E a \in Attempts :
       \/ Granted(a) \/ Fails(a) \/ Denied(a) \/ LookedUp(a)
       \/ OpenTimeout(a) \/ CloseTimeout(a) \/ Crash(a) \/ Deliver(a)
       \/ Receive(a) \/ EstimateEnds(a)
       \/ \E r \in Requests : Timeout(a, r)
       \/ \E outcome \in {"ok", "busy", "unavailable"} : OpenEnds(a, outcome)

\* The lock manager decides every request, and timers fire.  Nothing is
\* assumed of the worker or of the other tabs.
Fairness == \A a \in Attempts :
  /\ WF_vars(Granted(a) \/ Fails(a) \/ Denied(a))
  /\ WF_vars(LookedUp(a))
  /\ WF_vars(OpenTimeout(a))
  /\ \A r \in Requests : WF_vars(Timeout(a, r))

Spec == Init /\ [][Next]_vars /\ Fairness

----------------------------------------------------------------------------
(* Properties *)

Ids == Requests \cup {OpenId, CloseId}

\* Every variable has its type, and nothing is left of a worker that does not
\* run: no call is pending at it or awaits it, no message is under way.
TypeOK ==
  /\ lock \in Attempts \cup {Free, Other}
  /\ openPromise \in 0..MaxAttempts /\ client \in 0..MaxAttempts
  /\ cooldown \in BOOLEAN
  /\ phase \in [Attempts -> Phases]
  /\ asked \subseteq Requests /\ aborted \subseteq asked
  /\ answer \in [Requests -> Answers \cup {"none"}]
  /\ ran \subseteq asked /\ revoked \subseteq Ids
  /\ \A a \in Attempts :
       /\ waiting[a] \in Seq(asked)
       /\ pending[a] \subseteq asked \cup {OpenId, CloseId}
       /\ job[a] \in Estimates \cup {OpenId, NoJob}
       /\ jobs[a] \in Seq(asked \cup {CloseId})
       /\ canceled[a] \subseteq asked
       /\ db[a] \in BOOLEAN
       /\ \A m \in Range(mail[a]) : m.kind \in {"run", "cancel"} /\ m.id \in Ids
       /\ \A m \in Range(replies[a]) : m.id \in Ids /\ m.outcome \in Answers
       /\ ~Running(a) => /\ pending[a] = {} /\ canceled[a] = {} /\ ~db[a] /\ job[a] = NoJob
                         /\ mail[a] = <<>> /\ jobs[a] = <<>> /\ replies[a] = <<>>
       /\ job[a] = NoJob => jobs[a] = <<>>
       /\ phase[a] \in {"none", "open", "over"} => waiting[a] = <<>>

\* A worker runs exactly as long as the page holds the Web Lock for it, so
\* there are never two writers and no lock outlives its worker, and it is the
\* one that later calls reach, whatever attempts were orphaned by a close
\* before it.
OwnerHoldsLock ==
  \A a \in Attempts : /\ Running(a) <=> lock = a
                      /\ Running(a) => client = a

\* A statement whose cancel message reached the worker before it ran never
\* runs, though the worker forgets the canceled ids when it closes.  An
\* estimate behind that close would run: it needs no database.
RevokedNeverRuns == revoked \cap ran \subseteq Estimates

\* Every call returns, though the attempt it awaits may be orphaned, refused
\* or closed, and the worker may never answer.
EverySendSettles == \A r \in Requests : r \in asked ~> answer[r] # "none"
=============================================================================
