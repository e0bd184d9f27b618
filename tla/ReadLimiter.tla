---------------------------- MODULE ReadLimiter ----------------------------
(***************************************************************************)
(* The per-relay admission of paged reads, src/lib/relays/read-limiter.ts. *)
(*                                                                         *)
(* A paged read asks for one slot on each of its relays.  The slots are    *)
(* taken one relay at a time, in the order limitedReadRelays sorted them,  *)
(* and each step of the asynchronous acquire() is a step of the event      *)
(* loop, so any other read, abort or close may happen between two of them. *)
(* A relay is an integer: the order of the integers stands for the order   *)
(* of the sorted URLs, and a set stands for a list without duplicates.     *)
(*                                                                         *)
(* A reader is one slot for a readPage call of the subscription manager;   *)
(* once its call has settled it may start another one.                     *)
(***************************************************************************)
EXTENDS Integers, Sequences, FiniteSets

CONSTANTS Readers,     \* concurrent callers of acquire()
          RelayCount,  \* the relays are 1..RelayCount
          Max          \* slots of one relay, maxConcurrentReadPagesPerRelay

ASSUME ReadersAssumption    == IsFiniteSet(Readers)
ASSUME RelayCountAssumption == RelayCount \in Nat \ {0}
ASSUME MaxAssumption        == Max \in Nat \ {0}

Relays == 1..RelayCount

Phases == {"idle",      \* no call of acquire() in progress
           "queued",    \* suspended in acquireOne, its waiter in a queue
           "granted",   \* acquireOne resolved, the continuation is scheduled
           "rejected",  \* acquireOne rejected, the catch block is scheduled
           "holding"}   \* acquire() returned its release function

VARIABLES active,    \* active[x]: the count of relay x
          queues,    \* queues[x]: the waiters of relay x, oldest first
          phase,     \* where the call of a reader is suspended
          want,      \* the relays a reader asked for
          acquired,  \* the relays the call has pushed so far
          target,    \* the relay of the acquireOne in progress
          aborted,   \* options.signal.aborted of the reader
          closed     \* the manager owning the limiter is closed

vars == <<active, queues, phase, want, acquired, target, aborted, closed>>

Init == /\ active = [x \in Relays |-> 0]
        /\ queues = [x \in Relays |-> <<>>]
        /\ phase = [r \in Readers |-> "idle"]
        /\ want = [r \in Readers |-> {}]
        /\ acquired = [r \in Readers |-> {}]
        /\ target = [r \in Readers |-> 1]
        /\ aborted = [r \in Readers |-> FALSE]
        /\ closed = FALSE

----------------------------------------------------------------------------
(* Helpers *)

\* The readers that own a slot of relay x: acquired, or granted and not yet
\* pushed by the continuation.
Holders(x) == {r \in Readers : \/ x \in acquired[r]
                               \/ phase[r] = "granted" /\ target[r] = x}

\* queue.filter(item => item !== waiter), for a waiter that is in the queue.
Without(q, w) ==
  LET i == CHOOSE k \in DOMAIN q : q[k] = w
  IN  [k \in 1..(Len(q) - 1) |-> IF k < i THEN q[k] ELSE q[k + 1]]

\* A list in the order the caller gave it: some readers in descending order.
FirstOfUnsorted(S, r) ==
  IF r = CHOOSE s \in Readers : TRUE
  THEN CHOOSE x \in S : \A y \in S : y <= x
  ELSE CHOOSE x \in S : \A y \in S : x <= y

\* The next relay of a list that limitedReadRelays deduplicated and sorted.
FirstOf(S, r) == CHOOSE x \in S : \A y \in S : x <= y

----------------------------------------------------------------------------
(* acquireOne and releaseOne *)

\* acquireOne on the first relay of todo: reject when aborted, take a free
\* slot at once, else append a waiter to the queue of the relay.
AcquireOne(r, todo) ==
  LET x == FirstOf(todo, r)
  IN  /\ target' = [target EXCEPT ![r] = x]
      /\ \/ /\ aborted'[r]
            /\ phase' = [phase EXCEPT ![r] = "rejected"]
            /\ UNCHANGED <<active, queues>>
         \/ /\ ~aborted'[r]
            /\ active[x] < Max
            /\ active' = [active EXCEPT ![x] = @ + 1]
            /\ phase' = [phase EXCEPT ![r] = "granted"]
            /\ UNCHANGED queues
         \/ /\ ~aborted'[r]
            /\ active[x] >= Max
            /\ queues' = [queues EXCEPT ![x] = Append(@, r)]
            /\ phase' = [phase EXCEPT ![r] = "queued"]
            /\ UNCHANGED active

\* The readers whose waiter activateNext resolves when the slots S are
\* released: the oldest waiter of each of those relays.
Woken(S) == {r \in Readers : \E x \in S : queues[x] # <<>> /\ r = Head(queues[x])}

ReleaseAllForgettingWaiters(r, S, after) ==
  /\ active' = [x \in Relays |-> IF x \in S THEN active[x] - 1 ELSE active[x]]
  /\ phase' = [phase EXCEPT ![r] = after]
  /\ UNCHANGED queues

\* releaseOne for every relay of S: the count falls by one, and when the
\* relay has a waiter activateNext removes it and its resolve() takes the
\* slot in the same synchronous step, so that the count is as before.  The
\* relays have disjoint counts and queues: the order does not matter.
ReleaseAll(r, S, after) ==
  /\ active' = [x \in Relays |->
                  IF x \in S /\ queues[x] = <<>> THEN active[x] - 1 ELSE active[x]]
  /\ queues' = [x \in Relays |->
                  IF x \in S /\ queues[x] # <<>> THEN Tail(queues[x]) ELSE queues[x]]
  /\ phase' = [q \in Readers |-> IF q = r THEN after
                                 ELSE IF q \in Woken(S) THEN "granted" ELSE phase[q]]

----------------------------------------------------------------------------
(* Actions *)

\* readPageDetailed starts a read: acquire() runs up to its first await.
\* The caller's signal may already be aborted.
Begin(r) ==
  /\ ~closed
  /\ phase[r] = "idle"
  /\ \E S \in (SUBSET Relays) \ {{}}, pre \in BOOLEAN :
       /\ want' = [want EXCEPT ![r] = S]
       /\ aborted' = [aborted EXCEPT ![r] = pre]
       /\ AcquireOne(r, S)
  /\ UNCHANGED <<acquired, closed>>

ContinueAfterFirst(r) ==
  /\ phase[r] = "granted"
  /\ acquired' = [acquired EXCEPT ![r] = @ \cup {target[r]}]
  /\ phase' = [phase EXCEPT ![r] = "holding"]
  /\ UNCHANGED <<active, queues, target, want, aborted, closed>>

\* The continuation after a granted acquireOne: push the relay, then call
\* acquireOne for the next one or return the release function.
Continue(r) ==
  /\ phase[r] = "granted"
  /\ acquired' = [acquired EXCEPT ![r] = @ \cup {target[r]}]
  /\ UNCHANGED <<want, aborted, closed>>
  /\ LET todo == want[r] \ acquired'[r]
     IN  \/ /\ todo # {}
            /\ AcquireOne(r, todo)
         \/ /\ todo = {}
            /\ phase' = [phase EXCEPT ![r] = "holding"]
            /\ UNCHANGED <<active, queues, target>>

\* The catch block: give back what was acquired and rethrow.
Fail(r) ==
  /\ phase[r] = "rejected"
  /\ ReleaseAll(r, acquired[r], "idle")
  /\ acquired' = [acquired EXCEPT ![r] = {}]
  /\ want' = [want EXCEPT ![r] = {}]
  /\ UNCHANGED <<target, aborted, closed>>

\* executeReadPage calls release() in its finally block; the page read
\* itself ends by EOSE, cap, abort or timeout.
Release(r) ==
  /\ phase[r] = "holding"
  /\ ReleaseAll(r, acquired[r], "idle")
  /\ acquired' = [acquired EXCEPT ![r] = {}]
  /\ want' = [want EXCEPT ![r] = {}]
  /\ UNCHANGED <<target, aborted, closed>>

\* The signal of a read aborts: the listener of a queued waiter removes the
\* waiter and rejects its promise.  A granted waiter has no listener left;
\* acquireOne for the next relay sees signal.aborted.
Abort(r) ==
  /\ phase[r] # "idle" /\ ~aborted[r]
  /\ aborted' = [aborted EXCEPT ![r] = TRUE]
  /\ IF phase[r] = "queued"
     THEN /\ queues' = [queues EXCEPT ![target[r]] = Without(@, r)]
          /\ phase' = [phase EXCEPT ![r] = "rejected"]
     ELSE UNCHANGED <<queues, phase>>
  /\ UNCHANGED <<active, want, acquired, target, closed>>

\* The manager closes: it aborts every read in flight and failQueues rejects
\* whoever waits; the slots that are held come back through Fail and Release.
Close ==
  /\ ~closed
  /\ closed' = TRUE
  /\ aborted' = [r \in Readers |-> aborted[r] \/ phase[r] # "idle"]
  /\ queues' = [x \in Relays |-> <<>>]
  /\ phase' = [r \in Readers |-> IF phase[r] = "queued" THEN "rejected" ELSE phase[r]]
  /\ UNCHANGED <<active, want, acquired, target>>

Next == \/ \E r \in Readers :
             Begin(r) \/ Continue(r) \/ Fail(r) \/ Release(r) \/ Abort(r)
        \/ Close

\* Promise continuations run (Continue, Fail), and every page read ends,
\* at the latest by its timer (Release).  Nothing is assumed of new reads,
\* aborts and close.
Fairness == \A r \in Readers :
              WF_vars(Continue(r)) /\ WF_vars(Fail(r)) /\ WF_vars(Release(r))

Spec == Init /\ [][Next]_vars /\ Fairness

----------------------------------------------------------------------------
(* Properties *)

Among(r, q) == \E i \in DOMAIN q : q[i] = r
Distinct(q) == \A i, j \in DOMAIN q : q[i] = q[j] => i = j

\* Every variable has its type; a count is never negative or above Max.
TypeOK == /\ active \in [Relays -> 0..Max]
          /\ queues \in [Relays -> Seq(Readers)]
          /\ phase \in [Readers -> Phases]
          /\ want \in [Readers -> SUBSET Relays]
          /\ acquired \in [Readers -> SUBSET Relays]
          /\ target \in [Readers -> Relays]
          /\ aborted \in [Readers -> BOOLEAN]
          /\ closed \in BOOLEAN

\* The count of a relay is the number of reads that own one of its slots,
\* through every interleaving of grant, abort, failure and release: no slot
\* leaks and none is given twice (active.set in resolve and releaseOne).
SlotAccounting == \A x \in Relays : active[x] = Cardinality(Holders(x))

\* No wake-up is lost: a relay with a free slot has no waiter, so a read is
\* never left in a queue that no release will look at again (activateNext).
NoLostWakeup == \A x \in Relays : queues[x] # <<>> => active[x] = Max

\* The queues hold exactly the suspended calls, once each, at the relay they
\* ask for: an aborted or failed read leaves no waiter behind that could be
\* handed a slot nobody would release (removeWaiter, failQueues).
QueuesMatchWaiters ==
  \A x \in Relays :
    /\ Distinct(queues[x])
    /\ \A r \in Readers : Among(r, queues[x]) <=> (phase[r] = "queued" /\ target[r] = x)

\* No set of queued reads waits only on itself: in every set of queued reads
\* one waits for a relay with a slot owned outside the set.  It is the sorted
\* order of limitedReadRelays that excludes a circular wait.
NoCircularWait ==
  \A D \in (SUBSET Readers) \ {{}} :
    (\A r \in D : phase[r] = "queued") =>
      \E r \in D : ~ (Holders(target[r]) \subseteq D)

\* The limiter keeps the promise of module ReadAdmission: a read that waits for
\* its second relay with a slot of the first has, to its caller, nothing yet.
Stage(r) == CASE phase[r] = "idle"    -> "idle"
              [] phase[r] = "holding" -> "admitted"
              [] OTHER                -> "asking"

Admission == INSTANCE ReadAdmission
               WITH call <- [r \in Readers |-> Stage(r)], claim <- want, revoked <- aborted

\* Admission is all or nothing for the callers, never above Max reads of one
\* relay, and refused to aborted reads only, though acquire() takes its slots
\* one by one and is suspended, woken and aborted between them.
ImplementsAdmission == Admission!Spec

\* Every call of acquire() settles, with its slots or rejected.
EveryAcquireSettles ==
  \A r \in Readers : phase[r] # "idle" ~> phase[r] \in {"idle", "holding"}
=============================================================================
