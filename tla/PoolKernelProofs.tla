-------------------------- MODULE PoolKernelProofs --------------------------
(***************************************************************************)
(* Two clients of a page.  SqliteKernel, for every number of calls and of  *)
(* attempts: the page never has two writers, and its lock never outlives   *)
(* its worker.  PoolPublish, for any relays, events and subscriptions: the *)
(* idle tracker counts what it should.                                     *)
(***************************************************************************)
EXTENDS SqliteKernel, PoolPublish, FiniteSetTheorems, SequenceTheorems, TLAPS

Shape == /\ lock \in Attempts \cup {Free, Other}
         /\ client \in Attempts \cup {0}
         /\ phase \in [Attempts -> Phases]
         /\ DOMAIN pending = Attempts

\* A client is that of an attempt that got the lock.
ClientWasGranted == client # 0 => phase[client] \in {"opening", "open", "over"}

\* Without it a timer could fire at a worker that is gone and take the client
\* of the next one away.
NothingPendsOnTheDead == \A a \in Attempts : ~Running(a) => pending[a] = {}

IInv == Shape /\ OwnerHoldsLock /\ ClientWasGranted /\ NothingPendsOnTheDead

LEMMA AttemptsAreNumbers == /\ Attempts \subseteq Nat
                            /\ 0 \notin Attempts
                            /\ Free \notin Attempts /\ Other \notin Attempts
BY BoundsAssumption DEF Attempts, Free, Other

LEMMA InitIInv == Init => IInv
BY AttemptsAreNumbers
DEF Init, IInv, Shape, OwnerHoldsLock, ClientWasGranted, NothingPendsOnTheDead, Running, Phases

\* A step that changes neither the lock nor a phase nor the client, and that
\* adds pending ids only at a worker that runs.
LEMMA QuietStep ==
  ASSUME IInv, lock' = lock, client' = client, phase' = phase,
         DOMAIN pending' = Attempts,
         \A a \in Attempts : ~Running(a) => pending'[a] = {}
  PROVE  IInv'
BY DEF IInv, Shape, OwnerHoldsLock, ClientWasGranted, NothingPendsOnTheDead, Running

\* A step that keeps the phase of every worker and moves no attempt into one,
\* though it may forget a client whose worker is gone.
LEMMA IdleAttemptStep ==
  ASSUME IInv, NEW a \in Attempts, ~Running(a), NEW p \in Phases \ {"opening", "open"},
         phase' = [phase EXCEPT ![a] = p],
         phase[a] # "over",
         lock' = lock, pending' = pending,
         client' = client \/ (client' = 0 /\ \A b \in Attempts : ~Running(b))
  PROVE  IInv'
<1>1. \A b \in Attempts : phase'[b] = IF b = a THEN p ELSE phase[b]
  BY DEF IInv, Shape
<1>2. \A b \in Attempts : Running(b)' <=> Running(b)
  BY <1>1 DEF Running
<1>3. Shape'
  BY <1>1 DEF IInv, Shape
<1>4. OwnerHoldsLock'
  BY <1>2 DEF IInv, OwnerHoldsLock
<1>5. client # a
  BY AttemptsAreNumbers DEF IInv, Shape, ClientWasGranted, Running
<1>6. ClientWasGranted'
  BY <1>1, <1>5 DEF IInv, Shape, ClientWasGranted
<1>7. NothingPendsOnTheDead'
  BY <1>2 DEF IInv, NothingPendsOnTheDead
<1> QED BY <1>3, <1>4, <1>6, <1>7 DEF IInv

\* The client of a worker that runs is closed, and its lease released.
LEMMA StopStep ==
  ASSUME IInv, NEW a \in Attempts, Running(a), NEW why, NEW blocked, Stop(a, why, blocked)
  PROVE  IInv'
<1>1. /\ phase' = [phase EXCEPT ![a] = "over"]
      /\ lock' = IF lock = a THEN Free ELSE lock
      /\ pending' = [pending EXCEPT ![a] = {}]
      /\ client' = 0 \/ client' = client
  BY DEF Stop, CloseWith
<1>2. /\ \A b \in Attempts : phase'[b] = IF b = a THEN "over" ELSE phase[b]
      /\ \A b \in Attempts : pending'[b] = IF b = a THEN {} ELSE pending[b]
  BY <1>1 DEF IInv, Shape
<1>3. lock = a /\ client = a /\ lock' = Free
  BY <1>1 DEF IInv, OwnerHoldsLock
<1>4. \A b \in Attempts : ~Running(b)'
  BY <1>2, <1>3 DEF IInv, OwnerHoldsLock, Running
<1>5. Shape'
  BY <1>1, <1>3, <1>2 DEF IInv, Shape, Phases
<1>6. OwnerHoldsLock'
  BY <1>3, <1>4, AttemptsAreNumbers DEF OwnerHoldsLock
<1>7. ClientWasGranted'
  BY <1>1, <1>2, <1>3 DEF ClientWasGranted
<1>8. NothingPendsOnTheDead'
  BY <1>2, <1>3 DEF IInv, OwnerHoldsLock, NothingPendsOnTheDead, Running
<1> QED BY <1>5, <1>6, <1>7, <1>8 DEF IInv

LEMMA SendStep ==
  ASSUME IInv, NEW s, Send(s)
  PROVE  IInv'
<1>1. lock' = lock
  BY DEF Send
<1>2. CASE UNCHANGED <<client, phase, pending>>
  BY <1>1, <1>2, QuietStep DEF IInv, Shape, NothingPendsOnTheDead
<1>3. ASSUME Begin(s), UNCHANGED <<client, pending>>
      PROVE  IInv'
  <2>1. PICK a \in Attempts : phase[a] = "none" /\ phase' = [phase EXCEPT ![a] = "locking"]
    BY <1>3 DEF Begin
  <2> QED BY <1>1, <1>3, <2>1, IdleAttemptStep DEF Running, Phases
<1>4. ASSUME client # 0, phase[client] # "over", Post(client, s, pending[client]),
             UNCHANGED <<client, phase>>
      PROVE  IInv'
  <2>1. client \in Attempts /\ Running(client)
    BY <1>4 DEF IInv, Shape, ClientWasGranted, Running
  <2>2. /\ DOMAIN pending' = Attempts
        /\ \A a \in Attempts : ~Running(a) => pending'[a] = {}
    BY <1>4, <2>1 DEF Post, IInv, Shape, NothingPendsOnTheDead
  <2> QED BY <1>1, <1>4, <2>2, QuietStep
<1>5. ASSUME client # 0, phase[client] = "over", Begin(<<Head(s)>>), client' = 0,
             UNCHANGED pending
      PROVE  IInv'
  <2>1. PICK a \in Attempts : phase[a] = "none" /\ phase' = [phase EXCEPT ![a] = "locking"]
    BY <1>5 DEF Begin
  <2>2. \A b \in Attempts : ~Running(b)
    BY <1>5 DEF IInv, OwnerHoldsLock, Running
  <2> QED BY <1>1, <1>5, <2>1, <2>2, IdleAttemptStep DEF Running, Phases
<1> QED BY <1>2, <1>3, <1>4, <1>5 DEF Send

LEMMA CloseStep ==
  ASSUME IInv, Close
  PROVE  IInv'
<1>1. lock' = lock /\ phase' = phase
  BY DEF Close
<1>2. CASE client = 0 \/ client \in {a \in Attempts : phase[a] = "over"}
  <2>1. client' = 0 /\ pending' = pending
    BY <1>2 DEF Close
  <2>2. \A b \in Attempts : ~Running(b)
    BY <1>2, AttemptsAreNumbers DEF IInv, OwnerHoldsLock, Running
  <2> QED BY <1>1, <2>1, <2>2 DEF IInv, Shape, OwnerHoldsLock, ClientWasGranted,
                                  NothingPendsOnTheDead, Running
<1>3. CASE ~(client = 0 \/ client \in {a \in Attempts : phase[a] = "over"})
  <2>1. client' = client /\ Post(client, <<CloseId>>, pending[client])
    BY <1>3 DEF Close
  <2>2. client \in Attempts /\ Running(client)
    BY <1>3 DEF IInv, Shape, ClientWasGranted, Running
  <2>3. /\ DOMAIN pending' = Attempts
        /\ \A a \in Attempts : ~Running(a) => pending'[a] = {}
    BY <2>1, <2>2 DEF Post, IInv, Shape, NothingPendsOnTheDead
  <2> QED BY <1>1, <2>1, <2>3, QuietStep
<1> QED BY <1>2, <1>3

LEMMA GrantedStep ==
  ASSUME IInv, NEW a \in Attempts, Granted(a)
  PROVE  IInv'
<1>1. /\ phase[a] = "locking" /\ lock = Free /\ lock' = a /\ client' = a
      /\ phase' = [phase EXCEPT ![a] = "opening"]
      /\ pending' = [pending EXCEPT ![a] = {OpenId}]
  BY DEF Granted, Decided
<1>2. /\ \A b \in Attempts : phase'[b] = IF b = a THEN "opening" ELSE phase[b]
      /\ \A b \in Attempts : pending'[b] = IF b = a THEN {OpenId} ELSE pending[b]
  BY <1>1 DEF IInv, Shape
<1>3. \A b \in Attempts : ~Running(b)
  BY <1>1, AttemptsAreNumbers DEF IInv, OwnerHoldsLock
<1>4. Shape'
  BY <1>1 DEF IInv, Shape, Phases
<1>5. OwnerHoldsLock'
  BY <1>1, <1>2, <1>3 DEF OwnerHoldsLock, Running
<1>6. ClientWasGranted' /\ NothingPendsOnTheDead'
  BY <1>1, <1>2 DEF IInv, ClientWasGranted, NothingPendsOnTheDead, Running
<1> QED BY <1>4, <1>5, <1>6 DEF IInv

LEMMA DeliverStep ==
  ASSUME IInv, NEW a \in Attempts, Deliver(a)
  PROVE  IInv'
<1> DEFINE m == Head(replies[a])
<1>1. Running(a)
  BY DEF Deliver
<1>2. ASSUME phase' = [phase EXCEPT ![a] = "open"],
             Post(a, waiting[a], pending[a] \ {OpenId}), UNCHANGED <<lock, client>>
      PROVE  IInv'
  <2>1. \A b \in Attempts : phase'[b] = IF b = a THEN "open" ELSE phase[b]
    BY <1>2 DEF IInv, Shape
  <2>2. \A b \in Attempts : Running(b)' <=> Running(b)
    BY <1>1, <2>1 DEF Running
  <2>3. /\ DOMAIN pending' = Attempts
        /\ \A b \in Attempts : b # a => pending'[b] = pending[b]
    BY <1>2 DEF Post, IInv, Shape
  <2>4. Shape'
    BY <1>2, <2>3 DEF IInv, Shape, Phases
  <2>5. OwnerHoldsLock' /\ NothingPendsOnTheDead'
    BY <1>1, <1>2, <2>2, <2>3 DEF IInv, OwnerHoldsLock, NothingPendsOnTheDead
  <2>6. ClientWasGranted'
    BY <1>2, <2>1 DEF IInv, Shape, ClientWasGranted
  <2> QED BY <2>4, <2>5, <2>6 DEF IInv
<1>3. ASSUME NEW why, NEW blocked, Stop(a, why, blocked)
      PROVE  IInv'
  BY <1>1, <1>3, StopStep
<1>4. ASSUME UNCHANGED <<lock, phase, client>>,
             \/ pending' = [pending EXCEPT ![a] = @ \ Settles(a, m)]
             \/ pending' = pending
      PROVE  IInv'
  <2>1. /\ DOMAIN pending' = Attempts
        /\ \A b \in Attempts : ~Running(b) => pending'[b] = {}
    BY <1>1, <1>4 DEF IInv, Shape, NothingPendsOnTheDead
  <2> QED BY <1>4, <2>1, QuietStep
<1> QED BY <1>2, <1>3, <1>4 DEF Deliver, page

\* Every step of the page, of the workers and of the other tabs.
LEMMA NextIInv == IInv /\ [Next]_vars => IInv'
<1> SUFFICES ASSUME IInv, [Next]_vars PROVE IInv'
  OBVIOUS
<1>1. ASSUME NEW s \in Batches, Send(s) PROVE IInv'
  BY <1>1, SendStep
<1>2. ASSUME NEW r \in Requests, Abort(r) PROVE IInv'
  <2>1. /\ UNCHANGED <<lock, phase, client>>
        /\ DOMAIN pending' = Attempts
        /\ \A a \in Attempts : ~Running(a) => pending'[a] = {}
    BY <1>2 DEF Abort, IInv, Shape, NothingPendsOnTheDead
  <2> QED BY <2>1, QuietStep
<1>3. CASE Close
  BY <1>3, CloseStep
<1>4. CASE CooldownEnds
  BY <1>4, QuietStep DEF CooldownEnds, IInv, Shape, NothingPendsOnTheDead
<1>5. CASE OtherTakes \/ OtherReleases
  BY <1>5, AttemptsAreNumbers
  DEF OtherTakes, OtherReleases, page, IInv, Shape, OwnerHoldsLock, ClientWasGranted,
      NothingPendsOnTheDead, Running
<1>6. ASSUME NEW a \in Attempts, Granted(a) PROVE IInv'
  BY <1>6, GrantedStep
<1>7. ASSUME NEW a \in Attempts, Fails(a) \/ Denied(a) \/ LookedUp(a) PROVE IInv'
  <2>1. /\ phase[a] \in {"locking", "looking"}
        /\ UNCHANGED <<lock, client, pending>>
        /\ \/ phase' = [phase EXCEPT ![a] = "over"]
           \/ phase' = [phase EXCEPT ![a] = "looking"]
    BY <1>7 DEF Fails, Denied, LookedUp, Decided, Refuse, page
  <2> QED BY <2>1, IdleAttemptStep DEF Running, Phases
<1>8. ASSUME NEW a \in Attempts, OpenTimeout(a) \/ CloseTimeout(a) \/ Crash(a) PROVE IInv'
  <2>1. Running(a)
    BY <1>8 DEF OpenTimeout, CloseTimeout, Crash, IInv, NothingPendsOnTheDead
  <2> QED BY <1>8, <2>1, StopStep DEF OpenTimeout, CloseTimeout, Crash
<1>9. ASSUME NEW a \in Attempts, Deliver(a) PROVE IInv'
  BY <1>9, DeliverStep
<1>10. ASSUME NEW a \in Attempts, NEW r \in Requests, Timeout(a, r) PROVE IInv'
  <2>1. /\ UNCHANGED <<lock, phase, client>>
        /\ DOMAIN pending' = Attempts
        /\ \A b \in Attempts : ~Running(b) => pending'[b] = {}
    BY <1>10 DEF Timeout, IInv, Shape, NothingPendsOnTheDead
  <2> QED BY <2>1, QuietStep
<1>11. ASSUME NEW a \in Attempts, UNCHANGED <<lock, phase, page>> PROVE IInv'
  BY <1>11, QuietStep DEF page, IInv, Shape, NothingPendsOnTheDead
<1>12. CASE UNCHANGED vars
  BY <1>12, QuietStep DEF vars, page, IInv, Shape, NothingPendsOnTheDead
<1> QED
  BY <1>1, <1>2, <1>3, <1>4, <1>5, <1>6, <1>7, <1>8, <1>9, <1>10, <1>11, <1>12
  DEF Next, Receive, EstimateEnds, OpenEnds

\* The worker of an attempt runs exactly as long as the page holds the Web
\* Lock for that attempt, and it is the one the next call reaches: a lease
\* released by every way a client can end (kernel-client.ts, client.ts).
THEOREM LockFollowsWorker == Spec => []OwnerHoldsLock
<1>1. IInv => OwnerHoldsLock
  BY DEF IInv
<1> QED BY InitIInv, NextIInv, <1>1, PTL DEF Spec

\* The page never has two workers, however attempts are orphaned, refused,
\* crashed and started again.
THEOREM OneWriter ==
  Spec => [](\A a, b \in Attempts : Running(a) /\ Running(b) => a = b)
<1>1. IInv => \A a, b \in Attempts : Running(a) /\ Running(b) => a = b
  BY DEF IInv, OwnerHoldsLock
<1> QED BY InitIInv, NextIInv, <1>1, PTL DEF Spec
----------------------------------------------------------------------------
(* A canceled statement never runs *)

Message == [kind : {"run", "cancel"}, id : Ids]

\* The calls that reached a client: they are pending, on their way, queued or
\* canceled.
Sent == {r \in Requests :
           \/ r \in revoked
           \/ \E a \in Attempts : \/ r \in pending[a] \/ r \in Range(jobs[a])
                                  \/ \E i \in DOMAIN mail[a] : mail[a][i].id = r}

Calls == \E n \in 0..MaxRequests : asked = 1..n

QueueShape ==
  /\ revoked \subseteq Ids
  /\ DOMAIN waiting = Attempts /\ DOMAIN mail = Attempts /\ DOMAIN jobs = Attempts
  /\ DOMAIN job = Attempts /\ db \in [Attempts -> BOOLEAN] /\ DOMAIN canceled = Attempts
  /\ \A a \in Attempts : /\ waiting[a] \in Seq(Requests) /\ mail[a] \in Seq(Message)
                         /\ jobs[a] \in Seq(Requests \cup {CloseId})

\* Nothing is left of a worker that does not run.
IdleWorkers == \A a \in Attempts :
  ~Running(a) => mail[a] = <<>> /\ jobs[a] = <<>> /\ job[a] = NoJob /\ ~db[a]

\* Only a worker that did nothing yet opens its database.
OpenComesFirst == \A a \in Attempts : \A i \in DOMAIN mail[a] :
  mail[a][i].id = OpenId => i = 1 /\ job[a] = NoJob /\ jobs[a] = <<>> /\ ~db[a]

\* A call awaits one attempt, once, and has reached no client then.
WaitingAreUnsent ==
  /\ Sent \subseteq asked
  /\ \A a \in Attempts : \A i \in DOMAIN waiting[a] :
       waiting[a][i] \in asked /\ waiting[a][i] \notin Sent
  /\ \A a, b \in Attempts : \A i \in DOMAIN waiting[a], j \in DOMAIN waiting[b] :
       waiting[a][i] = waiting[b][j] => a = b /\ i = j

\* The command of a call is posted once, before its cancel message.
SentOnce == \A a \in Attempts :
  /\ \A i, j \in DOMAIN mail[a] :
       /\ mail[a][i].kind = "run" /\ mail[a][i].id \in Requests
       /\ mail[a][i].id = mail[a][j].id
       => i <= j
  /\ \A i \in DOMAIN mail[a] :
       mail[a][i].kind = "run" /\ mail[a][i].id \in Requests
       => mail[a][i].id \notin Range(jobs[a]) \cup revoked
  /\ \A i, j \in DOMAIN jobs[a] : jobs[a][i] = jobs[a][j] /\ jobs[a][i] \in Requests => i = j

\* A revoked statement that is still queued is canceled, or finds no database
\* when its turn comes: the worker forgets what is canceled only as it closes.
RevokedIsBarred == \A a \in Attempts :
  \A r \in Range(jobs[a]) \cap revoked \cap (Requests \ Estimates) :
    r \in canceled[a] \/ (~db[a] /\ job[a] # OpenId)

QInv == /\ IInv /\ Calls /\ QueueShape /\ IdleWorkers /\ OpenComesFirst
        /\ WaitingAreUnsent /\ SentOnce /\ RevokedIsBarred /\ RevokedNeverRuns

LEMMA IdsAreNumbers ==
  /\ Requests \subseteq Nat /\ OpenId \notin Requests /\ CloseId \notin Requests
  /\ CloseId # OpenId /\ NoJob # OpenId
  /\ Requests \subseteq Ids /\ OpenId \in Ids /\ CloseId \in Ids
BY BoundsAssumption DEF Requests, OpenId, CloseId, NoJob, Ids

\* There is one worker at a time.
LEMMA OneRuns ==
  ASSUME QInv, NEW a \in Attempts, Running(a), NEW b \in Attempts, b # a
  PROVE  mail[b] = <<>> /\ jobs[b] = <<>> /\ job[b] = NoJob /\ ~db[b]
BY DEF QInv, IInv, OwnerHoldsLock, IdleWorkers

\* The calls of a batch are new, and different.
LEMMA BatchIsNew ==
  ASSUME Calls, NEW s \in Batches
  PROVE  /\ s \in Seq(Requests) /\ Len(s) \in {1, 2}
         /\ \A i \in DOMAIN s : s[i] \notin asked
         /\ \A i, j \in DOMAIN s : s[i] = s[j] => i = j
         /\ \E n \in 0..MaxRequests : asked \cup Range(s) = 1..n
<1>1. PICK n \in 0..MaxRequests : asked = 1..n
  BY DEF Calls
<1>2. Cardinality(asked) = n
  BY <1>1, BoundsAssumption, FS_Interval
<1>3. CASE s = <<n + 1>>
  <2>1. Range(s) = {n + 1} /\ n + 1 \in Requests
    BY <1>2, <1>3 DEF Batches, Range
  <2>2. asked \cup Range(s) = 1..(n + 1)
    BY <1>1, <2>1
  <2> QED BY <1>1, <1>3, <2>1, <2>2, BoundsAssumption DEF Requests
<1>4. CASE s = <<n + 1, n + 2>>
  <2>1. Range(s) = {n + 1, n + 2} /\ n + 1 \in Requests /\ n + 2 \in Requests
    BY <1>2, <1>4 DEF Batches, Range
  <2>2. asked \cup Range(s) = 1..(n + 2)
    BY <1>1, <2>1
  <2> QED BY <1>1, <1>4, <2>1, <2>2, BoundsAssumption DEF Requests
<1> QED BY <1>2, <1>3, <1>4, BoundsAssumption DEF Batches

\* What Post puts into the mail: the command of each call that is posted, once.
Posted(a, s, held, t) ==
  /\ mail' = [mail EXCEPT ![a] = @ \o t]
  /\ \A i \in DOMAIN t : t[i].id \in Range(s)
  /\ \A i, j \in DOMAIN t : t[i].id = t[j].id => i = j
  /\ \E P \in SUBSET Range(s) : pending' = [pending EXCEPT ![a] = held \cup P]

LEMMA PostedMail ==
  ASSUME NEW a \in Attempts, NEW s \in Seq(Requests \cup {CloseId}), NEW held,
         \A i, j \in DOMAIN s : s[i] = s[j] => i = j,
         Post(a, s, held)
  PROVE  \E t \in Seq(Message) : Posted(a, s, held, t)
<1>1. PICK f \in Orders(Live(s)) :
        /\ pending' = [pending EXCEPT ![a] = held \cup {s[i] : i \in Live(s)}]
        /\ mail' = [mail EXCEPT ![a] = @ \o [i \in DOMAIN f |-> Run(s[f[i]])]]
  BY DEF Post
<1>2. Live(s) \subseteq 1..Len(s) /\ DOMAIN s = 1..Len(s) /\ Len(s) \in Nat
  BY DEF Live
<1>3. Cardinality(Live(s)) \in Nat
  <2>1. IsFiniteSet(1..Len(s))
    BY <1>2, FS_Interval
  <2>2. IsFiniteSet(Live(s))
    BY <1>2, <2>1, FS_Subset
  <2> QED BY <2>2, FS_CardinalityType
<1>4. /\ f \in [1..Cardinality(Live(s)) -> Live(s)]
      /\ \A i, j \in 1..Cardinality(Live(s)) : i < j => f[i] < f[j]
  BY DEF Orders
<1> DEFINE k == Cardinality(Live(s))
           t == [i \in 1..k |-> Run(s[f[i]])]
<1>5. \A i \in 1..k : f[i] \in 1..Len(s) /\ s[f[i]] \in Range(s)
  BY <1>2, <1>4 DEF Range
<1>6. t \in Seq(Message) /\ DOMAIN t = 1..k
  <2>1. \A i \in 1..k : s[f[i]] \in Ids
    <3>1. \A x \in 1..Len(s) : s[x] \in Requests \cup {CloseId}
      BY <1>2, ElementOfSeq
    <3>2. \A x \in 1..Len(s) : s[x] \in Ids
      BY <3>1 DEF Ids
    <3> QED BY <1>5, <3>2
  <2>2. \A i \in 1..k : Run(s[f[i]]) \in Message
    BY <2>1 DEF Run, Message
  <2> QED BY <2>2, <1>3
<1>7. \A i \in 1..k : t[i].id = s[f[i]]
  BY DEF Run
<1>8. \A i, j \in 1..k : f[i] = f[j] => i = j
  <2> SUFFICES ASSUME NEW i \in 1..k, NEW j \in 1..k, f[i] = f[j] PROVE i = j
    OBVIOUS
  <2>1. i < j \/ j < i \/ i = j
    BY <1>3
  <2> QED BY <2>1, <1>4, <1>5
<1>9. \A i, j \in 1..k : t[i].id = t[j].id => i = j
  BY <1>5, <1>7, <1>8, <1>2
<1>10. mail' = [mail EXCEPT ![a] = @ \o t]
  BY <1>1, <1>4
<1>11. {s[i] : i \in Live(s)} \in SUBSET Range(s)
  BY DEF Live, Range
<1>12. \A i \in 1..k : t[i].id \in Range(s)
  BY <1>5, <1>7
<1> HIDE DEF t, k
<1> QED BY <1>1, <1>6, <1>9, <1>10, <1>11, <1>12 DEF Posted

LEMMA InitQInv == Init => QInv
<1> SUFFICES ASSUME Init PROVE QInv
  OBVIOUS
<1>1. asked = 1..0
  BY DEF Init
<1>2. Calls
  BY <1>1, BoundsAssumption DEF Calls
<1>3. Sent = {}
  BY DEF Init, Sent, Range
<1>4. QueueShape /\ IdleWorkers /\ OpenComesFirst /\ WaitingAreUnsent /\ SentOnce
      /\ RevokedIsBarred /\ RevokedNeverRuns
  BY <1>3
  DEF Init, QueueShape, IdleWorkers, OpenComesFirst, WaitingAreUnsent, SentOnce,
      RevokedIsBarred, RevokedNeverRuns, Range
<1> QED BY <1>2, <1>4, InitIInv DEF QInv

\* A step that leaves every worker alone, with the mail to it.
LEMMA PageStep ==
  ASSUME QInv, IInv', Calls', asked \subseteq asked', DOMAIN waiting' = Attempts,
         UNCHANGED worker,
         \A a \in Attempts : Running(a) => Running(a)',
         \A a \in Attempts : pending'[a] \subseteq pending[a] \cup {OpenId, CloseId},
         \A a \in Attempts : /\ waiting'[a] \in Seq(Requests)
                             /\ \A i \in DOMAIN waiting'[a] :
                                  waiting'[a][i] \in asked' /\ waiting'[a][i] \notin Sent,
         \A a, b \in Attempts : \A i \in DOMAIN waiting'[a], j \in DOMAIN waiting'[b] :
           waiting'[a][i] = waiting'[b][j] => a = b /\ i = j
  PROVE  QInv'
<1>1. Sent' \subseteq Sent
  BY IdsAreNumbers DEF Sent, worker
<1>2. WaitingAreUnsent'
  <2>1. Sent' \subseteq asked'
    BY <1>1 DEF QInv, WaitingAreUnsent
  <2>2. \A a \in Attempts : \A i \in DOMAIN waiting'[a] :
          waiting'[a][i] \in asked' /\ waiting'[a][i] \notin Sent'
    BY <1>1
  <2> QED BY <2>1, <2>2 DEF WaitingAreUnsent
<1>3. QueueShape'
  BY DEF QInv, QueueShape, worker
<1>4. IdleWorkers'
  BY DEF QInv, IdleWorkers, worker
<1>5. OpenComesFirst' /\ SentOnce' /\ RevokedIsBarred' /\ RevokedNeverRuns'
  BY DEF QInv, OpenComesFirst, SentOnce, RevokedIsBarred, RevokedNeverRuns, worker
<1> QED BY <1>2, <1>3, <1>4, <1>5 DEF QInv

\* A step puts the messages t, with ids in R that are new if t runs them,
\* behind the mail of the worker of a.
MailsTo(a, t, R) ==
  /\ Running(a) /\ mail' = [mail EXCEPT ![a] = @ \o t]
  /\ R \subseteq asked' \cup {CloseId} /\ OpenId \notin R
  /\ \A i \in DOMAIN t : t[i].id \in R /\ (t[i].kind = "run" => t[i].id \notin Sent)
  /\ \A i, j \in DOMAIN t : t[i].kind = "run" /\ t[i].id = t[j].id => i <= j
  /\ \A b \in Attempts : pending'[b] \subseteq pending[b] \cup R \cup {OpenId, CloseId}

\* After a step the calls that await an attempt are neither sent before nor
\* among R, and await it once.
AwaitsApart(R) ==
  /\ DOMAIN waiting' = Attempts
  /\ \A b \in Attempts : waiting'[b] \in Seq(Requests)
  /\ \A b \in Attempts : \A i \in DOMAIN waiting'[b] :
       waiting'[b][i] \in asked' /\ waiting'[b][i] \notin Sent \cup R
  /\ \A b, c \in Attempts : \A i \in DOMAIN waiting'[b], j \in DOMAIN waiting'[c] :
       waiting'[b][i] = waiting'[c][j] => b = c /\ i = j

LEMMA MailStep ==
  ASSUME QInv, IInv', Calls', asked \subseteq asked',
         \A b \in Attempts : Running(b) <=> Running(b)',
         UNCHANGED <<job, jobs, db, canceled, ran, revoked>>,
         NEW a \in Attempts, NEW t \in Seq(Message), NEW R, MailsTo(a, t, R), AwaitsApart(R)
  PROVE  QInv'
<1> DEFINE old == mail[a]
           n == Len(mail[a])
<1>1. /\ \A b \in Attempts : b # a => mail'[b] = mail[b]
      /\ mail'[a] = old \o t /\ mail'[a] \in Seq(Message)
      /\ n \in Nat /\ DOMAIN old = 1..n /\ DOMAIN t = 1..Len(t) /\ Len(t) \in Nat
      /\ DOMAIN mail'[a] = 1..(n + Len(t))
      /\ \A i \in 1..n : mail'[a][i] = old[i]
      /\ \A i \in (n + 1)..(n + Len(t)) : mail'[a][i] = t[i - n] /\ i - n \in DOMAIN t
  BY DEF QInv, QueueShape, MailsTo
<1>2. \A i \in DOMAIN mail'[a] : i \in 1..n \/ i \in (n + 1)..(n + Len(t))
  BY <1>1
<1>3. \A i \in 1..n : mail[a][i].id \in Requests => mail[a][i].id \in Sent
  BY <1>1 DEF Sent
<1>4. Sent' \subseteq Sent \cup R
  <2> SUFFICES ASSUME NEW r \in Sent', r \notin Sent PROVE r \in R
    OBVIOUS
  <2>1. r \in Requests /\ r \notin revoked
        /\ \A b \in Attempts : /\ r \notin pending[b] /\ r \notin Range(jobs[b])
                               /\ \A i \in DOMAIN mail[b] : mail[b][i].id # r
    BY DEF Sent
  <2>2. CASE \E b \in Attempts : r \in pending'[b]
    BY <2>1, <2>2, IdsAreNumbers DEF MailsTo
  <2>3. CASE \E b \in Attempts : \E i \in DOMAIN mail'[b] : mail'[b][i].id = r
    BY <2>1, <2>3, <1>1, <1>2 DEF MailsTo
  <2> QED BY <2>1, <2>2, <2>3 DEF Sent
<1>5. WaitingAreUnsent'
  <2>1. Sent' \subseteq asked'
    BY <1>4, IdsAreNumbers DEF QInv, WaitingAreUnsent, Sent, MailsTo
  <2>2. \A b \in Attempts : \A i \in DOMAIN waiting'[b] :
          waiting'[b][i] \in asked' /\ waiting'[b][i] \notin Sent'
    BY <1>4 DEF AwaitsApart
  <2> QED BY <2>1, <2>2 DEF WaitingAreUnsent, AwaitsApart
<1>6. QueueShape'
  BY <1>1 DEF QInv, QueueShape, MailsTo, AwaitsApart
<1>7. IdleWorkers'
  BY <1>1 DEF QInv, IdleWorkers, MailsTo
<1> HIDE DEF old, n
<1>8. OpenComesFirst'
  <2> SUFFICES ASSUME NEW b \in Attempts, NEW i \in DOMAIN mail'[b], mail'[b][i].id = OpenId
               PROVE  i = 1 /\ job[b] = NoJob /\ jobs[b] = <<>> /\ ~db[b]
    BY DEF OpenComesFirst
  <2>1. i \in DOMAIN mail[b] /\ mail[b][i].id = OpenId
    BY <1>1, <1>2 DEF old, MailsTo
  <2> QED BY <2>1 DEF QInv, OpenComesFirst
<1>9. SentOnce'
  <2>1. ASSUME NEW b \in Attempts, NEW i \in DOMAIN mail'[b], NEW j \in DOMAIN mail'[b],
               mail'[b][i].kind = "run", mail'[b][i].id \in Requests,
               mail'[b][i].id = mail'[b][j].id
        PROVE  i <= j
    <3>1. CASE b # a
      BY <2>1, <3>1, <1>1 DEF QInv, SentOnce
    <3>2. CASE b = a /\ i \in 1..n /\ j \in 1..n
      <4>1. /\ i \in DOMAIN mail[a] /\ j \in DOMAIN mail[a]
            /\ mail[a][i].kind = "run" /\ mail[a][i].id \in Requests
            /\ mail[a][i].id = mail[a][j].id
        BY <2>1, <3>2, <1>1 DEF old
      <4> QED BY <4>1 DEF QInv, SentOnce
    <3>3. CASE b = a /\ i \in 1..n /\ j \in (n + 1)..(n + Len(t))
      BY <3>3, <1>1
    <3>4. CASE b = a /\ i \in (n + 1)..(n + Len(t)) /\ j \in 1..n
      <4>1. mail[a][j].id \in Sent
        BY <2>1, <3>4, <1>1, <1>3 DEF old
      <4> QED BY <4>1, <2>1, <3>4, <1>1 DEF old, MailsTo
    <3>5. CASE b = a /\ i \in (n + 1)..(n + Len(t)) /\ j \in (n + 1)..(n + Len(t))
      <4>1. /\ i - n \in DOMAIN t /\ j - n \in DOMAIN t
            /\ mail'[a][i] = t[i - n] /\ mail'[a][j] = t[j - n]
        BY <3>5, <1>1
      <4>2. i - n <= j - n
        BY <4>1, <2>1, <3>5 DEF MailsTo
      <4> QED BY <4>2, <3>5, <1>1
    <3> QED BY <3>1, <3>2, <3>3, <3>4, <3>5, <1>2
  <2>2. ASSUME NEW b \in Attempts, NEW i \in DOMAIN mail'[b],
               mail'[b][i].kind = "run", mail'[b][i].id \in Requests
        PROVE  mail'[b][i].id \notin Range(jobs[b]) \cup revoked
    <3>1. CASE b # a
      BY <2>2, <3>1, <1>1 DEF QInv, SentOnce
    <3>2. CASE b = a /\ i \in 1..n
      BY <2>2, <3>2, <1>1 DEF QInv, SentOnce, old
    <3>3. CASE b = a /\ i \in (n + 1)..(n + Len(t))
      <4>1. mail'[b][i].id \notin Sent
        <5>1. i - n \in DOMAIN t /\ mail'[b][i] = t[i - n]
          BY <3>3, <1>1
        <5> QED BY <2>2, <5>1 DEF MailsTo
      <4> QED BY <2>2, <3>3, <4>1 DEF Sent
    <3> QED BY <3>1, <3>2, <3>3, <1>2
  <2> QED BY <2>1, <2>2 DEF QInv, SentOnce
<1>10. RevokedIsBarred' /\ RevokedNeverRuns'
  BY DEF QInv, RevokedIsBarred, RevokedNeverRuns
<1> QED BY <1>5, <1>6, <1>7, <1>8, <1>9, <1>10 DEF QInv

\* The calls of s, not sent before, are posted to the worker of a, and leave
\* the attempt they awaited.
LEMMA PostStep ==
  ASSUME QInv, IInv', Calls', asked \subseteq asked',
         \A b \in Attempts : Running(b) <=> Running(b)',
         UNCHANGED <<job, jobs, db, canceled, ran, revoked>>,
         NEW a \in Attempts, Running(a),
         NEW s \in Seq(Requests \cup {CloseId}), NEW held \in SUBSET pending[a],
         Post(a, s, held), AwaitsApart(Range(s)),
         \A i, j \in DOMAIN s : s[i] = s[j] => i = j,
         \A i \in DOMAIN s : s[i] \notin Sent /\ s[i] \in asked' \cup {CloseId}
  PROVE  QInv'
<1>1. PICK t \in Seq(Message) : Posted(a, s, held, t)
  BY PostedMail
<1>2. Range(s) \in SUBSET (asked' \cup {CloseId}) /\ OpenId \notin Range(s)
  <2>1. \A k \in DOMAIN s : s[k] \in Requests \cup {CloseId}
    BY ElementOfSeq
  <2> QED BY <2>1, IdsAreNumbers DEF Range
<1>3. \A x \in Range(s) : x \notin Sent
  BY DEF Range
<1>4. \A i \in DOMAIN t : t[i].kind = "run" => t[i].id \notin Sent
  BY <1>1, <1>3 DEF Posted
<1>5. \A i, j \in DOMAIN t : t[i].kind = "run" /\ t[i].id = t[j].id => i <= j
  <2> DOMAIN t = 1..Len(t) /\ Len(t) \in Nat
    OBVIOUS
  <2> QED BY <1>1 DEF Posted
<1>6. \A b \in Attempts : pending'[b] \subseteq pending[b] \cup Range(s) \cup {OpenId, CloseId}
  <2>1. DOMAIN pending = Attempts
    BY DEF QInv, IInv, Shape
  <2> QED BY <1>1, <2>1 DEF Posted
<1>7. MailsTo(a, t, Range(s))
  BY <1>1, <1>2, <1>4, <1>5, <1>6 DEF MailsTo, Posted
<1> QED BY <1>7, MailStep

\* A call that reached the client is answered, and its cancel message posted.
LEMMA CancelStep ==
  ASSUME QInv, IInv', NEW a \in Attempts, NEW r \in Requests, r \in pending[a],
         pending' = [pending EXCEPT ![a] = @ \ {r}],
         mail' = [mail EXCEPT ![a] = Append(@, Cancel(r))],
         UNCHANGED <<phase, waiting, asked, job, jobs, db, canceled, ran, revoked>>
  PROVE  QInv'
<1> DEFINE t == <<Cancel(r)>>
           R == {r}
<1>1. Running(a) /\ \A b \in Attempts : Running(b) <=> Running(b)'
  BY DEF QInv, IInv, NothingPendsOnTheDead, Running
<1>2. Calls' /\ DOMAIN waiting' = Attempts
  BY DEF QInv, Calls, QueueShape
<1>3. t \in Seq(Message) /\ DOMAIN t = {1} /\ t[1].id = r /\ t[1].kind = "cancel"
  BY IdsAreNumbers DEF Message, Cancel
<1>4. mail' = [mail EXCEPT ![a] = @ \o t]
  <2>1. mail[a] \in Seq(Message) /\ Cancel(r) \in Message
    BY IdsAreNumbers DEF QInv, QueueShape, Message, Cancel
  <2>2. Append(mail[a], Cancel(r)) = mail[a] \o t
    BY <2>1, AppendIsConcat
  <2> QED BY <2>2
<1>5. r \in Sent /\ r \in asked /\ OpenId \notin R /\ R \in SUBSET (asked' \cup {CloseId})
  BY IdsAreNumbers DEF QInv, WaitingAreUnsent, Sent
<1>6. \A b \in Attempts : pending'[b] \subseteq pending[b] \cup R \cup {OpenId, CloseId}
  BY DEF QInv, IInv, Shape
<1>7. AwaitsApart(R)
  BY <1>5 DEF QInv, QueueShape, WaitingAreUnsent, AwaitsApart
<1>8. MailsTo(a, t, R)
  BY <1>1, <1>3, <1>4, <1>5, <1>6 DEF MailsTo
<1> HIDE DEF t, R
<1> QED BY <1>1, <1>2, <1>3, <1>7, <1>8, MailStep

\* Calls of the batch await the attempt a, behind the first o that did.
LEMMA AwaitStep ==
  ASSUME QInv, IInv', NEW s \in Batches, NEW a \in Attempts,
         NEW w \in Seq(Requests), NEW o \in Nat,
         o <= Len(waiting[a]), o <= Len(w),
         \A i \in 1..o : w[i] = waiting[a][i],
         \A i \in (o + 1)..Len(w) : i - o \in DOMAIN s /\ w[i] = s[i - o],
         waiting' = [waiting EXCEPT ![a] = w],
         asked' = asked \cup Range(s), UNCHANGED <<pending, worker>>,
         \A b \in Attempts : Running(b) => Running(b)'
  PROVE  QInv'
<1> DEFINE k == Len(w)
<1>1. Calls /\ QueueShape /\ WaitingAreUnsent
  BY DEF QInv
<1>2. /\ \A i \in DOMAIN s : s[i] \notin asked /\ s[i] \in asked'
      /\ \A i, j \in DOMAIN s : s[i] = s[j] => i = j
      /\ Calls'
  <2>1. \A i \in DOMAIN s : s[i] \notin asked
    BY <1>1, BatchIsNew
  <2>2. \A i, j \in DOMAIN s : s[i] = s[j] => i = j
    BY <1>1, BatchIsNew
  <2>3. \E n \in 0..MaxRequests : asked \cup Range(s) = 1..n
    BY <1>1, BatchIsNew
  <2> QED BY <2>1, <2>2, <2>3 DEF Calls, Range
<1>3. /\ \A b \in Attempts : b # a => waiting'[b] = waiting[b]
      /\ waiting'[a] = w
      /\ DOMAIN waiting' = Attempts
  BY <1>1 DEF QueueShape
<1>4. DOMAIN w = 1..k /\ k \in Nat /\ \A i \in 1..k : i \in 1..o \/ i \in (o + 1)..k
  OBVIOUS
<1>5. \A i \in 1..o : i \in DOMAIN waiting[a] /\ w[i] = waiting[a][i] /\ w[i] \in asked /\ w[i] \notin Sent
  <2>1. Len(waiting[a]) \in Nat /\ DOMAIN waiting[a] = 1..Len(waiting[a])
    BY <1>1 DEF QueueShape
  <2>2. \A i \in 1..o : i \in DOMAIN waiting[a]
    BY <2>1
  <2> QED BY <1>1, <2>2 DEF WaitingAreUnsent
<1>6. \A i \in (o + 1)..k : w[i] \in asked' /\ w[i] \notin asked /\ w[i] \notin Sent
  BY <1>1, <1>2 DEF WaitingAreUnsent
<1>7. \A i \in DOMAIN w : w[i] \in asked' /\ w[i] \notin Sent
  BY <1>4, <1>5, <1>6
<1>8. \A b \in Attempts : waiting'[b] \in Seq(Requests)
  BY <1>1, <1>3 DEF QueueShape
<1>9. \A b \in Attempts : \A i \in DOMAIN waiting'[b] :
         waiting'[b][i] \in asked' /\ waiting'[b][i] \notin Sent
  BY <1>1, <1>3, <1>7 DEF WaitingAreUnsent
<1> HIDE DEF k
<1>10. ASSUME NEW c \in Attempts, c # a, NEW i \in DOMAIN w, NEW j \in DOMAIN waiting[c]
       PROVE  w[i] # waiting[c][j]
  <2>1. waiting[c][j] \in asked
    BY <1>1 DEF WaitingAreUnsent
  <2>2. CASE i \in 1..o
    BY <1>1, <1>5, <1>10, <2>2 DEF WaitingAreUnsent
  <2>3. CASE i \in (o + 1)..k
    BY <1>6, <2>1, <2>3
  <2> QED BY <1>4, <2>2, <2>3
<1>11. ASSUME NEW i \in DOMAIN w, NEW j \in DOMAIN w, w[i] = w[j]
       PROVE  i = j
  <2>1. CASE i \in 1..o /\ j \in 1..o
    BY <1>1, <1>5, <1>11, <2>1 DEF WaitingAreUnsent
  <2>2. CASE i \in (o + 1)..k /\ j \in (o + 1)..k
    <3>1. i - o \in DOMAIN s /\ j - o \in DOMAIN s /\ s[i - o] = s[j - o]
      BY <1>11, <2>2 DEF k
    <3>2. i - o = j - o
      BY <1>2, <3>1
    <3> QED BY <3>2, <2>2, <1>4
  <2> QED BY <1>4, <1>5, <1>6, <1>11, <2>1, <2>2
<1>12. \A b, c \in Attempts : \A i \in DOMAIN waiting'[b], j \in DOMAIN waiting'[c] :
         waiting'[b][i] = waiting'[c][j] => b = c /\ i = j
  <2> SUFFICES ASSUME NEW b \in Attempts, NEW c \in Attempts, NEW i \in DOMAIN waiting'[b],
                      NEW j \in DOMAIN waiting'[c], waiting'[b][i] = waiting'[c][j]
               PROVE  b = c /\ i = j
    OBVIOUS
  <2>1. CASE b # a /\ c # a
    BY <1>1, <1>3, <2>1 DEF WaitingAreUnsent
  <2> QED BY <1>3, <1>10, <1>11, <2>1
<1>13. \A b \in Attempts : pending'[b] \subseteq pending[b] \cup {OpenId, CloseId}
  OBVIOUS
<1> QED BY <1>2, <1>3, <1>8, <1>9, <1>12, <1>13, PageStep

\* The client of a is closed: its worker is gone, and no call awaits it.
LEMMA StopQueues ==
  ASSUME QInv, IInv', NEW a \in Attempts, Running(a), NEW why, NEW blocked, Stop(a, why, blocked)
  PROVE  QInv'
<1>1. /\ mail' = [mail EXCEPT ![a] = <<>>] /\ jobs' = [jobs EXCEPT ![a] = <<>>]
      /\ job' = [job EXCEPT ![a] = NoJob] /\ db' = [db EXCEPT ![a] = FALSE]
      /\ canceled' = [canceled EXCEPT ![a] = {}] /\ pending' = [pending EXCEPT ![a] = {}]
      /\ waiting' = [waiting EXCEPT ![a] = <<>>] /\ phase' = [phase EXCEPT ![a] = "over"]
      /\ UNCHANGED <<asked, ran, revoked>>
  BY DEF Stop, CloseWith
<1>2. \A b \in Attempts :
        /\ mail'[b] = <<>> /\ jobs'[b] = <<>> /\ job'[b] = NoJob /\ ~db'[b]
        /\ waiting'[b] = IF b = a THEN <<>> ELSE waiting[b]
        /\ pending'[b] \subseteq pending[b]
  BY <1>1, OneRuns DEF QInv, QueueShape, IInv, Shape
<1>3. DOMAIN <<>> = {} /\ Range(<<>>) = {}
  BY DEF Range
<1>4. Sent' \subseteq Sent
  BY <1>1, <1>2, <1>3 DEF Sent
<1>5. Calls' /\ QueueShape' /\ IdleWorkers'
  BY <1>1, <1>2 DEF QInv, Calls, QueueShape, IdleWorkers
<1>6. WaitingAreUnsent'
  BY <1>1, <1>2, <1>3, <1>4 DEF QInv, WaitingAreUnsent
<1>7. OpenComesFirst' /\ SentOnce' /\ RevokedIsBarred' /\ RevokedNeverRuns'
  BY <1>1, <1>2, <1>3
  DEF QInv, OpenComesFirst, SentOnce, RevokedIsBarred, RevokedNeverRuns
<1> QED BY <1>5, <1>6, <1>7 DEF QInv

\* A new worker, with the open as its only mail.
LEMMA GrantedQueues ==
  ASSUME QInv, IInv', NEW a \in Attempts, Granted(a)
  PROVE  QInv'
<1>1. /\ phase[a] = "locking" /\ phase' = [phase EXCEPT ![a] = "opening"]
      /\ pending' = [pending EXCEPT ![a] = {OpenId}]
      /\ mail' = [mail EXCEPT ![a] = <<Run(OpenId)>>]
      /\ UNCHANGED <<waiting, asked, job, jobs, db, canceled, ran, revoked>>
  BY DEF Granted, Decided
<1>2. ~Running(a) /\ Running(a)' /\ \A b \in Attempts : b # a => (Running(b)' <=> Running(b))
  BY <1>1 DEF Running, QInv, IInv, Shape
<1>3. mail[a] = <<>> /\ jobs[a] = <<>> /\ job[a] = NoJob /\ ~db[a]
  BY <1>2 DEF QInv, IdleWorkers
<1> DEFINE t == <<Run(OpenId)>>
<1>4. t \in Seq(Message) /\ DOMAIN t = {1} /\ t[1].id = OpenId
  BY IdsAreNumbers DEF Message, Run
<1>5. \A b \in Attempts : /\ mail'[b] = IF b = a THEN t ELSE mail[b]
                          /\ pending'[b] = IF b = a THEN {OpenId} ELSE pending[b]
  BY <1>1 DEF QInv, QueueShape, IInv, Shape
<1> HIDE DEF t
<1>6. Sent' \subseteq Sent
  BY <1>1, <1>4, <1>5, IdsAreNumbers DEF Sent
<1>7. Calls' /\ QueueShape'
  BY <1>1, <1>4, <1>5 DEF QInv, Calls, QueueShape
<1>12. IdleWorkers'
  BY <1>1, <1>2, <1>5 DEF QInv, IdleWorkers
<1>8. WaitingAreUnsent'
  BY <1>1, <1>6 DEF QInv, WaitingAreUnsent
<1>9. OpenComesFirst'
  BY <1>1, <1>3, <1>4, <1>5 DEF QInv, OpenComesFirst
<1>10. SentOnce'
  BY <1>1, <1>4, <1>5, IdsAreNumbers DEF QInv, SentOnce
<1>11. RevokedIsBarred' /\ RevokedNeverRuns'
  BY <1>1 DEF QInv, RevokedIsBarred, RevokedNeverRuns
<1> QED BY <1>7, <1>8, <1>9, <1>10, <1>11, <1>12 DEF QInv

\* An attempt without a worker is refused, and the calls that await it leave.
LEMMA RefuseQueues ==
  ASSUME QInv, IInv', NEW a \in Attempts, ~Running(a), NEW p, phase' = [phase EXCEPT ![a] = p],
         waiting' = [waiting EXCEPT ![a] = <<>>] \/ waiting' = waiting,
         UNCHANGED <<asked, pending, worker>>
  PROVE  QInv'
<1>1. \A b \in Attempts : waiting'[b] = <<>> \/ waiting'[b] = waiting[b]
  BY DEF QInv, QueueShape
<1>2. \A b \in Attempts : Running(b) => Running(b)'
  BY DEF Running, QInv, IInv, Shape
<1>3. ASSUME NEW b \in Attempts
      PROVE  /\ waiting'[b] \in Seq(Requests)
             /\ \A i \in DOMAIN waiting'[b] :
                  /\ i \in DOMAIN waiting[b] /\ waiting'[b][i] = waiting[b][i]
                  /\ waiting'[b][i] \in asked' /\ waiting'[b][i] \notin Sent
  <2>1. CASE waiting'[b] = <<>>
    BY <2>1
  <2>2. CASE waiting'[b] = waiting[b]
    BY <2>2 DEF QInv, QueueShape, WaitingAreUnsent
  <2> QED BY <1>1, <2>1, <2>2
<1>4. \A b, c \in Attempts : \A i \in DOMAIN waiting'[b], j \in DOMAIN waiting'[c] :
        waiting'[b][i] = waiting'[c][j] => b = c /\ i = j
  BY <1>3 DEF QInv, WaitingAreUnsent
<1>5. Calls' /\ asked \subseteq asked' /\ DOMAIN waiting' = Attempts
  BY DEF QInv, Calls, QueueShape
<1>6. \A b \in Attempts : pending'[b] \subseteq pending[b] \cup {OpenId, CloseId}
  OBVIOUS
<1> QED BY <1>2, <1>3, <1>4, <1>5, <1>6, PageStep

LEMMA TailOfMail ==
  ASSUME NEW m \in Seq(Message), m # <<>>
  PROVE  /\ Tail(m) \in Seq(Message) /\ Head(m) = m[1] /\ 1 \in DOMAIN m /\ m[1] \in Message
         /\ \A i \in DOMAIN Tail(m) : i \in Nat /\ i >= 1 /\ i + 1 \in DOMAIN m /\ Tail(m)[i] = m[i + 1]
<1>1. Len(m) \in Nat /\ Len(m) # 0 /\ DOMAIN m = 1..Len(m)
  OBVIOUS
<1>2. Tail(m) \in Seq(Message) /\ Len(Tail(m)) = Len(m) - 1 /\ Head(m) = m[1]
  BY <1>1
<1>3. \A i \in 1..(Len(m) - 1) : Tail(m)[i] = m[i + 1]
  BY <1>1
<1> QED BY <1>1, <1>2, <1>3

\* The command that begins the queue of ids q, in the way the worker works.
QueueOf(a, q, opened) ==
  /\ \A i \in DOMAIN mail'[a] : mail'[a][i].id # OpenId
  /\ \A i \in DOMAIN mail'[a] :
       mail'[a][i].kind = "run" /\ mail'[a][i].id \in Requests => mail'[a][i].id \notin Range(q)
  /\ \A i, j \in DOMAIN q : q[i] = q[j] /\ q[i] \in Requests => i = j
  /\ Range(q) \cap Requests \subseteq Sent
  /\ \A r \in Range(q) \cap revoked \cap (Requests \ Estimates) : r \in canceled[a] \/ ~opened

\* The worker runs what it may, and keeps the rest.
LEMMA WorksStep ==
  ASSUME QInv, IInv', NEW a \in Attempts, Running(a),
         NEW q \in Seq(Requests \cup {CloseId}), NEW opened \in BOOLEAN, NEW first,
         Works(a, q, opened, first), QueueOf(a, q, opened),
         mail' = mail \/ (mail[a] # <<>> /\ mail' = [mail EXCEPT ![a] = Tail(@)]),
         UNCHANGED <<phase, waiting, asked, pending, revoked>>
  PROVE  QInv'
<1>1. PICK n \in 0..Len(q) :
        LET begun == {i \in DOMAIN q : i <= n + 1}
            shut  == \E i \in 1..n : q[i] = CloseId
        IN  /\ job' = [job EXCEPT ![a] = IF n < Len(q) THEN q[n + 1] ELSE NoJob]
            /\ jobs' = [jobs EXCEPT ![a] = SubSeq(q, n + 2, Len(q))]
            /\ db' = [db EXCEPT ![a] = opened /\ ~shut]
            /\ canceled' = [canceled EXCEPT ![a] = IF shut THEN {} ELSE @ \ {q[i] : i \in begun}]
            /\ ran' = ran \cup ({q[i] : i \in {x \in begun : Outcome(a, q, x, opened) = "ok"}}
                               \cap Requests)
  BY DEF Works
<1> DEFINE rest == SubSeq(q, n + 2, Len(q))
           shut == \E i \in 1..n : q[i] = CloseId
<1>2. Len(q) \in Nat /\ DOMAIN q = 1..Len(q) /\ \A i \in 1..Len(q) : q[i] \in Requests \cup {CloseId}
  BY ElementOfSeq
<1>3. /\ rest \in Seq(Requests \cup {CloseId})
      /\ \A i \in DOMAIN rest : i \in Nat /\ n + 1 + i \in 1..Len(q) /\ rest[i] = q[n + 1 + i]
                                /\ i >= 1
  <2>1. /\ rest \in Seq(Requests \cup {CloseId})
        /\ Len(rest) = IF n + 2 <= Len(q) THEN Len(q) - (n + 2) + 1 ELSE 0
        /\ \A i \in 1..(Len(q) - (n + 2) + 1) : rest[i] = q[n + 2 + i - 1]
    <3>1. \A i \in (n + 2)..Len(q) : q[i] \in Requests \cup {CloseId}
      BY <1>2
    <3>2. n + 2 \in Int /\ Len(q) \in Int
      BY <1>2
    <3> QED BY <3>1, <3>2, SubSeqProperties
  <2>2. DOMAIN rest = 1..Len(rest)
    BY <2>1
  <2> HIDE DEF rest
  <2>3. ASSUME NEW i \in 1..Len(rest)
        PROVE  i \in Nat /\ n + 1 + i \in 1..Len(q) /\ rest[i] = q[n + 1 + i] /\ i >= 1
    <3>1. CASE n + 2 <= Len(q)
      <4>1. i \in 1..(Len(q) - (n + 2) + 1)
        BY <1>2, <2>1, <3>1
      <4>2. rest[i] = q[n + 2 + i - 1] /\ n + 2 + i - 1 = n + 1 + i
        BY <2>1, <4>1
      <4> QED BY <1>2, <4>1, <4>2
    <3>2. CASE ~(n + 2 <= Len(q))
      BY <2>1, <3>2
    <3> QED BY <3>1, <3>2
  <2>4. \A i \in DOMAIN rest : i \in Nat /\ n + 1 + i \in 1..Len(q) /\ rest[i] = q[n + 1 + i]
                             /\ i >= 1
    BY <2>2, <2>3
  <2> QED BY <2>1, <2>4
<1>4. \A b \in Attempts :
        /\ b # a => jobs'[b] = <<>> /\ mail'[b] = <<>> /\ job'[b] = NoJob /\ ~db'[b]
                    /\ canceled'[b] = canceled[b]
        /\ b = a => jobs'[b] = rest /\ db'[b] = (opened /\ ~shut) /\ job'[b] # OpenId
  <2>1. job'[a] # OpenId
    BY <1>1, <1>2, IdsAreNumbers DEF QInv, QueueShape
  <2> QED BY <1>1, <2>1, OneRuns DEF QInv, QueueShape
<1>5. canceled'[a] = IF shut THEN {} ELSE canceled[a] \ {q[i] : i \in {x \in DOMAIN q : x <= n + 1}}
  BY <1>1 DEF QInv, QueueShape
<1> HIDE DEF rest, shut
<1>6. mail'[a] \in Seq(Message) /\ \E k \in {0, 1} : \A i \in DOMAIN mail'[a] :
        i \in Nat /\ i >= 1 /\ i + k \in DOMAIN mail[a] /\ mail'[a][i] = mail[a][i + k]
  <2>0. mail[a] \in Seq(Message) /\ DOMAIN mail = Attempts
    BY DEF QInv, QueueShape
  <2>1. CASE mail' = mail
    <3>1. \A i \in DOMAIN mail'[a] :
            i \in Nat /\ i >= 1 /\ i + 0 \in DOMAIN mail[a] /\ mail'[a][i] = mail[a][i + 0]
      BY <2>0, <2>1
    <3> QED BY <3>1, <2>0, <2>1
  <2>2. CASE mail[a] # <<>> /\ mail' = [mail EXCEPT ![a] = Tail(@)]
    BY <2>0, <2>2, TailOfMail
  <2> QED BY <2>1, <2>2
<1>7. Range(rest) \subseteq Range(q)
  BY <1>2, <1>3 DEF Range
<1>8. Sent' \subseteq Sent
  <2> SUFFICES ASSUME NEW r \in Sent' PROVE r \in Sent
    OBVIOUS
  <2>1. CASE \E b \in Attempts : r \in Range(jobs'[b])
    <3>1. r \in Range(rest) /\ r \in Requests
      BY <1>4, <2>1 DEF Range, Sent
    <3> QED BY <1>7, <3>1 DEF QueueOf
  <2>2. CASE \E b \in Attempts : \E i \in DOMAIN mail'[b] : mail'[b][i].id = r
    <3>1. \E i \in DOMAIN mail'[a] : mail'[a][i].id = r
      BY <1>4, <2>2
    <3>2. \E i \in DOMAIN mail[a] : mail[a][i].id = r
      BY <1>6, <3>1
    <3> QED BY <3>2 DEF Sent
  <2>3. CASE r \in revoked \/ \E b \in Attempts : r \in pending[b]
    BY <2>3 DEF Sent
  <2> QED BY <2>1, <2>2, <2>3 DEF Sent
<1>9. Calls' /\ QueueShape'
  BY <1>1, <1>3, <1>4, <1>6 DEF QInv, Calls, QueueShape
<1>10. IdleWorkers'
  BY <1>4 DEF IdleWorkers, Running
<1>11. OpenComesFirst'
  BY <1>4 DEF OpenComesFirst, QueueOf
<1>12. WaitingAreUnsent'
  BY <1>8 DEF QInv, WaitingAreUnsent
<1>13. SentOnce'
  <2>1. ASSUME NEW i \in DOMAIN mail'[a], NEW j \in DOMAIN mail'[a],
               mail'[a][i].kind = "run", mail'[a][i].id \in Requests,
               mail'[a][i].id = mail'[a][j].id
        PROVE  i <= j
    <3>1. PICK k \in {0, 1} : \A x \in DOMAIN mail'[a] :
            x \in Nat /\ x >= 1 /\ x + k \in DOMAIN mail[a] /\ mail'[a][x] = mail[a][x + k]
      BY <1>6
    <3>2. i + k <= j + k
      BY <2>1, <3>1 DEF QInv, SentOnce
    <3> QED BY <3>1, <3>2
  <2>2. ASSUME NEW i \in DOMAIN mail'[a], mail'[a][i].kind = "run", mail'[a][i].id \in Requests
        PROVE  mail'[a][i].id \notin Range(rest) \cup revoked
    <3>1. mail'[a][i].id \notin Range(rest)
      BY <1>7, <2>2 DEF QueueOf
    <3>2. \E x \in DOMAIN mail[a] : mail'[a][i] = mail[a][x]
      BY <1>6
    <3>3. mail'[a][i].id \notin revoked
      BY <2>2, <3>2 DEF QInv, SentOnce
    <3> QED BY <3>1, <3>3
  <2>3. ASSUME NEW i \in DOMAIN rest, NEW j \in DOMAIN rest, rest[i] = rest[j], rest[i] \in Requests
        PROVE  i = j
    <3>1. n + 1 + i = n + 1 + j
      BY <1>2, <1>3, <2>3 DEF QueueOf
    <3> QED BY <1>3, <3>1
  <2> QED BY <1>4, <2>1, <2>2, <2>3 DEF SentOnce
<1>14. RevokedIsBarred'
  <2> SUFFICES ASSUME NEW r \in Range(rest) \cap revoked \cap (Requests \ Estimates)
               PROVE  r \in canceled'[a] \/ (~db'[a] /\ job'[a] # OpenId)
    BY <1>4 DEF RevokedIsBarred, Range
  <2>1. r \in canceled[a] \/ ~opened
    BY <1>7 DEF QueueOf
  <2>2. CASE ~opened \/ shut
    BY <1>4, <2>2
  <2>3. CASE r \in canceled[a] /\ ~shut
    <3>1. PICK i \in DOMAIN rest : r = rest[i]
      BY DEF Range
    <3>2. n + 1 + i \in DOMAIN q /\ r = q[n + 1 + i] /\ i >= 1 /\ i \in Nat
      BY <1>2, <1>3, <3>1
    <3>3. \A x \in DOMAIN q : x <= n + 1 => q[x] # r
      BY <1>2, <3>2 DEF QueueOf
    <3> QED BY <1>5, <2>3, <3>3
  <2> QED BY <2>1, <2>2, <2>3
<1>15. RevokedNeverRuns'
  <2> SUFFICES ASSUME NEW r \in revoked, r \in ran', r \notin Estimates PROVE FALSE
    BY DEF RevokedNeverRuns
  <2>1. r \notin ran
    BY DEF QInv, RevokedNeverRuns
  <2>2. PICK i \in DOMAIN q : r = q[i] /\ Outcome(a, q, i, opened) = "ok" /\ r \in Requests
    BY <1>1, <2>1
  <2>3. r \in canceled[a] \/ ~opened
    BY <2>2 DEF QueueOf, Range
  <2>4. r # CloseId
    BY <2>2, IdsAreNumbers
  <2>5. r \notin Estimates \cup {CloseId}
    BY <2>4
  <2> QED BY <2>2, <2>3, <2>5 DEF Outcome
<1> QED BY <1>9, <1>10, <1>11, <1>12, <1>13, <1>14, <1>15 DEF QInv

\* A worker that has mail, or awaits a job, runs; its queue holds calls that
\* were sent.
LEMMA QueueIsSent ==
  ASSUME QInv, NEW a \in Attempts
  PROVE  /\ mail[a] # <<>> \/ jobs[a] # <<>> \/ job[a] # NoJob => Running(a)
         /\ Range(jobs[a]) \cap Requests \subseteq Sent
         /\ \A i \in DOMAIN mail[a] : mail[a][i].id \in Requests => mail[a][i].id \in Sent
BY DEF QInv, IdleWorkers, Sent

\* Commands are received in the order they were posted.
LEMMA ReceiveQueues ==
  ASSUME QInv, IInv', NEW a \in Attempts, Receive(a)
  PROVE  QInv'
<1> DEFINE m == Head(mail[a])
<1>1. /\ mail[a] # <<>> /\ mail' = [mail EXCEPT ![a] = Tail(@)]
      /\ UNCHANGED <<lock, phase, waiting, pending, asked>>
  BY DEF Receive, page
<1>2. mail[a] \in Seq(Message) /\ DOMAIN mail = Attempts /\ Running(a)
  BY <1>1, QueueIsSent DEF QInv, QueueShape
<1>3. /\ mail'[a] \in Seq(Message) /\ m = mail[a][1] /\ 1 \in DOMAIN mail[a] /\ m \in Message
      /\ \A i \in DOMAIN mail'[a] :
           i \in Nat /\ i >= 1 /\ i + 1 \in DOMAIN mail[a] /\ mail'[a][i] = mail[a][i + 1]
  BY <1>1, <1>2, TailOfMail
<1> HIDE DEF m
<1>4. \A b \in Attempts : b # a => mail'[b] = <<>> /\ jobs[b] = <<>> /\ job[b] = NoJob /\ ~db[b]
  BY <1>1, <1>2, OneRuns
<1>5. \A i \in DOMAIN mail'[a] : mail'[a][i].id # OpenId
  <2> SUFFICES ASSUME NEW i \in DOMAIN mail'[a], mail'[a][i].id = OpenId PROVE FALSE
    OBVIOUS
  <2>1. i + 1 = 1
    BY <1>3 DEF QInv, OpenComesFirst
  <2> QED BY <1>3, <2>1
\* A command that is taken has no other copy behind it.
<1>6. ASSUME NEW i \in DOMAIN mail'[a], mail'[a][i].kind = "run", mail'[a][i].id \in Requests
      PROVE  /\ mail'[a][i].id # m.id
             /\ mail'[a][i].id \notin Range(jobs[a]) \cup revoked
  <2>1. /\ i + 1 \in DOMAIN mail[a] /\ mail[a][i + 1].kind = "run"
        /\ mail[a][i + 1].id = mail'[a][i].id
    BY <1>3, <1>6
  <2>2. mail'[a][i].id # m.id
    <3> SUFFICES ASSUME mail'[a][i].id = m.id PROVE FALSE
      OBVIOUS
    <3>1. i + 1 <= 1
      BY <1>3, <1>6, <2>1 DEF QInv, SentOnce
    <3> QED BY <1>3, <3>1
  <2>3. mail'[a][i].id \notin Range(jobs[a]) \cup revoked
    BY <1>6, <2>1 DEF QInv, SentOnce
  <2> QED BY <2>2, <2>3
<1>7. \A i, j \in DOMAIN mail'[a] :
        /\ mail'[a][i].kind = "run" /\ mail'[a][i].id \in Requests
        /\ mail'[a][i].id = mail'[a][j].id
        => i <= j
  <2> SUFFICES ASSUME NEW i \in DOMAIN mail'[a], NEW j \in DOMAIN mail'[a],
                      mail'[a][i].kind = "run", mail'[a][i].id \in Requests,
                      mail'[a][i].id = mail'[a][j].id
               PROVE  i <= j
    OBVIOUS
  <2>1. i + 1 <= j + 1
    BY <1>3 DEF QInv, SentOnce
  <2> QED BY <1>3, <2>1
<1>8. m.id \in Requests => m.id \in Sent
  BY <1>3, QueueIsSent
<1>9. ASSUME m.kind = "run", m.id # OpenId, job[a] = NoJob, Works(a, <<m.id>>, db[a], <<>>),
             UNCHANGED revoked
      PROVE  QInv'
  <2> DEFINE q == <<m.id>>
  <2>1. q \in Seq(Requests \cup {CloseId}) /\ DOMAIN q = {1} /\ q[1] = m.id /\ Range(q) = {m.id}
    BY <1>3, <1>9 DEF Message, Ids, Range
  <2>2. m.id \in Requests => m.id \notin revoked
    BY <1>3, <1>9 DEF QInv, SentOnce
  <2> HIDE DEF q
  <2>3. QueueOf(a, q, db[a])
    BY <1>5, <1>6, <1>8, <2>1, <2>2 DEF QueueOf
  <2>4. Works(a, q, db[a], <<>>) /\ db[a] \in BOOLEAN
    BY <1>9 DEF q, QInv, QueueShape
  <2>5. UNCHANGED <<phase, waiting, asked, pending, revoked>>
    BY <1>1, <1>9
  <2> QED BY <1>1, <1>2, <2>1, <2>3, <2>4, <2>5, WorksStep
\* The other commands start no statement.
<1>10. ASSUME DOMAIN jobs' = Attempts, jobs'[a] \in Seq(Requests \cup {CloseId}),
              \A i, j \in DOMAIN jobs'[a] :
                jobs'[a][i] = jobs'[a][j] /\ jobs'[a][i] \in Requests => i = j,
              \A b \in Attempts \ {a} : jobs'[b] = <<>>,
              DOMAIN job' = Attempts, \A b \in Attempts \ {a} : job'[b] = NoJob,
              DOMAIN canceled' = Attempts,
              Range(jobs'[a]) \subseteq Range(jobs[a]) \cup {m.id}, m.kind = "run" \/ jobs' = jobs,
              revoked' \subseteq revoked \cup {m.id}, m.kind = "cancel" \/ revoked' = revoked,
              RevokedIsBarred', RevokedNeverRuns', UNCHANGED <<db, ran>>
       PROVE  QInv'
  <2>1. Sent' \subseteq Sent
    <3> SUFFICES ASSUME NEW r \in Sent' PROVE r \in Sent
      OBVIOUS
    <3>1. CASE r \in revoked'
      BY <1>8, <1>10, <3>1 DEF Sent
    <3>2. CASE \E b \in Attempts : r \in pending[b]
      BY <3>2 DEF Sent
    <3>3. CASE \E b \in Attempts : r \in Range(jobs'[b])
      <4>1. r \in Range(jobs'[a]) /\ r \in Requests
        BY <1>10, <3>3 DEF Sent, Range
      <4> QED BY <1>8, <1>10, <4>1, QueueIsSent
    <3>4. CASE \E b \in Attempts : \E i \in DOMAIN mail'[b] : mail'[b][i].id = r
      <4>1. \E i \in DOMAIN mail[a] : mail[a][i].id = r
        BY <1>3, <1>4, <3>4
      <4> QED BY <4>1 DEF Sent
    <3> QED BY <1>1, <3>1, <3>2, <3>3, <3>4 DEF Sent
  <2>2. Calls'
    BY <1>1 DEF QInv, Calls
  <2>3. QueueShape'
    <3>1. revoked' \subseteq Ids
      BY <1>3, <1>10 DEF QInv, QueueShape, Message
    <3>2. \A b \in Attempts : mail'[b] \in Seq(Message) /\ jobs'[b] \in Seq(Requests \cup {CloseId})
      <4>1. <<>> \in Seq(Message) /\ <<>> \in Seq(Requests \cup {CloseId})
        OBVIOUS
      <4> QED BY <1>3, <1>4, <1>10, <4>1
    <3> QED BY <1>1, <1>10, <3>1, <3>2 DEF QInv, QueueShape
  <2>4. IdleWorkers'
    BY <1>1, <1>2, <1>4, <1>10 DEF IdleWorkers, Running
  <2>5. OpenComesFirst'
    BY <1>4, <1>5 DEF OpenComesFirst
  <2>6. WaitingAreUnsent'
    BY <1>1, <2>1 DEF QInv, WaitingAreUnsent
  <2>7. SentOnce'
    <3>1. ASSUME NEW i \in DOMAIN mail'[a], mail'[a][i].kind = "run", mail'[a][i].id \in Requests
          PROVE  mail'[a][i].id \notin Range(jobs'[a]) \cup revoked'
      BY <1>6, <1>10, <3>1
    <3>2. \A b \in Attempts : b # a => DOMAIN mail'[b] = {} /\ DOMAIN jobs'[b] = {}
      BY <1>4, <1>10
    <3> QED BY <1>7, <1>10, <3>1, <3>2 DEF SentOnce
  <2> QED BY <1>10, <2>2, <2>3, <2>4, <2>5, <2>6, <2>7 DEF QInv
<1>11. ASSUME m.kind = "cancel", canceled' = [canceled EXCEPT ![a] = @ \cup {m.id}],
              revoked' = revoked \cup ({m.id} \ ran), UNCHANGED <<job, jobs, db, replies, ran>>
       PROVE  QInv'
  <2>1. RevokedIsBarred'
    <3> SUFFICES ASSUME NEW b \in Attempts,
                        NEW r \in Range(jobs[b]) \cap revoked' \cap (Requests \ Estimates)
                 PROVE  r \in canceled'[b] \/ (~db[b] /\ job[b] # OpenId)
      BY <1>11 DEF RevokedIsBarred
    <3>1. b = a
      BY <1>4 DEF Range
    <3>2. canceled'[a] = canceled[a] \cup {m.id}
      BY <1>11 DEF QInv, QueueShape
    <3> QED BY <1>11, <3>1, <3>2 DEF QInv, RevokedIsBarred
  <2>2. RevokedNeverRuns'
    BY <1>11 DEF QInv, RevokedNeverRuns
  <2>3. jobs[a] \in Seq(Requests \cup {CloseId})
        /\ \A i, j \in DOMAIN jobs[a] : jobs[a][i] = jobs[a][j] /\ jobs[a][i] \in Requests => i = j
    BY DEF QInv, QueueShape, SentOnce
  <2>4. DOMAIN jobs' = Attempts /\ DOMAIN job' = Attempts /\ DOMAIN canceled' = Attempts
    BY <1>11 DEF QInv, QueueShape
  <2> QED BY <1>4, <1>10, <1>11, <2>1, <2>2, <2>3, <2>4
<1>12. ASSUME m.kind = "run", m.id = OpenId, job' = [job EXCEPT ![a] = OpenId],
              UNCHANGED <<jobs, db, canceled, replies, ran, revoked>>
       PROVE  QInv'
  <2>1. jobs[a] = <<>>
    BY <1>3, <1>12 DEF QInv, OpenComesFirst
  <2>2. /\ DOMAIN jobs' = Attempts /\ DOMAIN job' = Attempts /\ DOMAIN canceled' = Attempts
        /\ \A b \in Attempts : jobs'[b] = <<>>
        /\ \A b \in Attempts \ {a} : job'[b] = NoJob
    BY <1>4, <1>12, <2>1 DEF QInv, QueueShape
  <2>3. RevokedIsBarred' /\ RevokedNeverRuns'
    BY <1>12, <2>2 DEF QInv, RevokedIsBarred, RevokedNeverRuns, Range
  <2>4. Range(jobs'[a]) \subseteq Range(jobs[a]) \cup {m.id}
    BY <2>1, <2>2
  <2>5. /\ jobs'[a] \in Seq(Requests \cup {CloseId}) /\ DOMAIN jobs'[a] = {}
        /\ \A b \in Attempts \ {a} : jobs'[b] = <<>>
    <3>1. <<>> \in Seq(Requests \cup {CloseId}) /\ DOMAIN <<>> = {}
      OBVIOUS
    <3> QED BY <2>2, <3>1
  <2>6. revoked' = revoked /\ revoked' \subseteq revoked \cup {m.id} /\ jobs' = jobs
    BY <1>12
  <2> QED BY <1>10, <1>12, <2>2, <2>3, <2>4, <2>5, <2>6
<1>13. ASSUME m.kind = "run", m.id # OpenId, job[a] # NoJob,
              jobs' = [jobs EXCEPT ![a] = Append(@, m.id)],
              UNCHANGED <<job, db, canceled, replies, ran, revoked>>
       PROVE  QInv'
  <2> DEFINE old == jobs[a]
  <2>1. /\ m.id \in Requests \cup {CloseId} /\ old \in Seq(Requests \cup {CloseId})
        /\ Len(old) \in Nat /\ DOMAIN old = 1..Len(old)
    BY <1>3, <1>13 DEF Message, Ids, QInv, QueueShape
  <2>2. /\ DOMAIN jobs' = Attempts /\ DOMAIN job' = Attempts /\ DOMAIN canceled' = Attempts
        /\ jobs'[a] = Append(old, m.id)
        /\ \A b \in Attempts \ {a} : jobs'[b] = <<>> /\ job'[b] = NoJob
    BY <1>4, <1>13 DEF QInv, QueueShape
  <2>3. m.id \in Requests => m.id \notin Range(old) \cup revoked
    BY <1>3, <1>13 DEF QInv, SentOnce
  <2>4. \A i, j \in DOMAIN old : old[i] = old[j] /\ old[i] \in Requests => i = j
    BY DEF QInv, SentOnce
  <2> HIDE DEF old
  <2>5. /\ jobs'[a] \in Seq(Requests \cup {CloseId}) /\ DOMAIN jobs'[a] = 1..(Len(old) + 1)
        /\ \A i \in 1..Len(old) : jobs'[a][i] = old[i]
        /\ jobs'[a][Len(old) + 1] = m.id
    BY <2>1, <2>2, AppendProperties
  <2>6. \A i \in DOMAIN jobs'[a] : \/ i \in DOMAIN old /\ jobs'[a][i] = old[i]
                                   \/ i = Len(old) + 1 /\ jobs'[a][i] = m.id
    <3>1. \A i \in 1..(Len(old) + 1) : i \in 1..Len(old) \/ i = Len(old) + 1
      BY <2>1
    <3> QED BY <2>1, <2>5, <3>1
  <2>7. \A i, j \in DOMAIN jobs'[a] :
          jobs'[a][i] = jobs'[a][j] /\ jobs'[a][i] \in Requests => i = j
    BY <2>3, <2>4, <2>6 DEF Range
  <2>8. Range(jobs'[a]) \subseteq Range(old) \cup {m.id}
    BY <2>6 DEF Range
  <2>9. RevokedIsBarred'
    <3> SUFFICES ASSUME NEW r \in Range(jobs'[a]) \cap revoked \cap (Requests \ Estimates)
                 PROVE  r \in canceled[a] \/ (~db[a] /\ job[a] # OpenId)
      BY <1>13, <2>2 DEF RevokedIsBarred, Range
    <3>1. r \in Range(old)
      BY <2>3, <2>8
    <3> QED BY <3>1 DEF old, QInv, RevokedIsBarred
  <2>10. RevokedNeverRuns'
    BY <1>13 DEF QInv, RevokedNeverRuns
  <2> QED BY <1>10, <1>13, <2>2, <2>5, <2>7, <2>8, <2>9, <2>10 DEF old
<1> QED BY <1>9, <1>11, <1>12, <1>13 DEF Receive, m

\* A job that the worker awaited ends, and those behind it run.
LEMMA JobEndsQueues ==
  ASSUME QInv, IInv', NEW a \in Attempts, NEW opened \in BOOLEAN, NEW first, job[a] # NoJob,
         opened => db[a] \/ job[a] = OpenId,
         Works(a, jobs[a], opened, first), UNCHANGED <<lock, phase, page, mail, revoked>>
  PROVE  QInv'
<1>1. Running(a) /\ jobs[a] \in Seq(Requests \cup {CloseId})
  BY QueueIsSent DEF QInv, QueueShape
<1>2. QueueOf(a, jobs[a], opened)
  <2>1. \A i \in DOMAIN mail[a] : mail[a][i].id # OpenId
    BY DEF QInv, OpenComesFirst
  <2>2. Range(jobs[a]) \cap Requests \subseteq Sent
    BY QueueIsSent
  <2>3. \A r \in Range(jobs[a]) \cap revoked \cap (Requests \ Estimates) :
          r \in canceled[a] \/ ~opened
    BY DEF QInv, RevokedIsBarred
  <2> QED BY <2>1, <2>2, <2>3 DEF QInv, SentOnce, QueueOf
<1> QED BY <1>1, <1>2, WorksStep DEF page

LEMMA SendQueues ==
  ASSUME QInv, IInv', NEW s \in Batches, Send(s)
  PROVE  QInv'
<1> DEFINE a == openPromise
<1>1. asked' = asked \cup Range(s) /\ UNCHANGED <<job, jobs, db, canceled, replies, ran, revoked>>
  BY DEF Send
<1>2. /\ s \in Seq(Requests) /\ Len(s) \in {1, 2} /\ DOMAIN s = 1..Len(s)
      /\ \A i \in DOMAIN s : s[i] \notin asked /\ s[i] \notin Sent
      /\ \A i, j \in DOMAIN s : s[i] = s[j] => i = j
      /\ \A i \in DOMAIN s : s[i] \in asked'
      /\ Calls'
  <2>1. Calls
    BY DEF QInv
  <2>2. s \in Seq(Requests) /\ Len(s) \in {1, 2}
    BY <2>1, BatchIsNew
  <2>3. \A i \in DOMAIN s : s[i] \notin asked
    BY <2>1, BatchIsNew
  <2>4. \A i, j \in DOMAIN s : s[i] = s[j] => i = j
    BY <2>1, BatchIsNew
  <2>5. \E n \in 0..MaxRequests : asked \cup Range(s) = 1..n
    BY <2>1, BatchIsNew
  <2> QED BY <1>1, <2>2, <2>3, <2>4, <2>5 DEF QInv, WaitingAreUnsent, Calls, Range
<1>3. \A b \in Attempts : /\ waiting[b] \in Seq(Requests)
                          /\ \A i \in DOMAIN waiting[b] :
                               waiting[b][i] \in asked' /\ waiting[b][i] \notin Sent \cup Range(s)
  BY <1>1, <1>2 DEF QInv, QueueShape, WaitingAreUnsent, Range
<1>4. \A b, c \in Attempts : \A i \in DOMAIN waiting[b], j \in DOMAIN waiting[c] :
        waiting[b][i] = waiting[c][j] => b = c /\ i = j
  BY DEF QInv, WaitingAreUnsent
<1>5. DOMAIN waiting = Attempts /\ asked \subseteq asked'
  BY <1>1 DEF QInv, QueueShape
<1>6. CASE UNCHANGED <<phase, waiting, pending, mail>>
  <2>1. \A b \in Attempts : /\ Running(b) => Running(b)'
                            /\ pending'[b] \subseteq pending[b] \cup {OpenId, CloseId}
    BY <1>6 DEF Running
  <2> QED BY <1>1, <1>2, <1>3, <1>4, <1>5, <1>6, <2>1, PageStep DEF worker
<1>7. ASSUME a # 0, waiting' = [waiting EXCEPT ![a] = @ \o s], UNCHANGED <<phase, pending, mail>>
      PROVE  QInv'
  <2>1. \A b \in Attempts : Running(b) => Running(b)'
    BY <1>7 DEF Running
  <2>2. UNCHANGED <<pending, worker>>
    BY <1>1, <1>7 DEF worker
  <2>3. CASE a \in Attempts
    <3> DEFINE w == waiting[a] \o s
               o == Len(waiting[a])
    <3>1. waiting[a] \in Seq(Requests)
      BY <1>3, <2>3
    <3>2. w \in Seq(Requests) /\ o \in Nat /\ o <= Len(w) /\ Len(w) = o + Len(s)
      BY <1>2, <3>1
    <3>3. \A i \in 1..o : w[i] = waiting[a][i]
      BY <1>2, <3>1
    <3>4. \A i \in (o + 1)..Len(w) : i - o \in DOMAIN s /\ w[i] = s[i - o]
      <4>1. \A i \in (o + 1)..(o + Len(s)) : i - o \in DOMAIN s /\ w[i] = s[i - o]
        BY <1>2, <3>1
      <4> QED BY <3>2, <4>1
    <3>5. waiting' = [waiting EXCEPT ![a] = w] /\ o <= Len(waiting[a])
      BY <1>7, <3>2
    <3> HIDE DEF w, o
    <3> QED BY <1>1, <2>1, <2>2, <2>3, <3>2, <3>3, <3>4, <3>5, AwaitStep
  <2>4. CASE a \notin Attempts
    <3>1. DOMAIN waiting' = Attempts /\ \A b \in Attempts : waiting'[b] = waiting[b]
      BY <1>5, <1>7, <2>4
    <3>2. \A b \in Attempts : pending'[b] \subseteq pending[b] \cup {OpenId, CloseId}
      BY <1>7
    <3>3. \A b \in Attempts : /\ waiting'[b] \in Seq(Requests)
                              /\ \A i \in DOMAIN waiting'[b] :
                                   waiting'[b][i] \in asked' /\ waiting'[b][i] \notin Sent
      BY <1>3, <3>1
    <3>4. \A b, c \in Attempts : \A i \in DOMAIN waiting'[b], j \in DOMAIN waiting'[c] :
            waiting'[b][i] = waiting'[c][j] => b = c /\ i = j
      BY <1>4, <3>1
    <3> QED BY <1>2, <1>5, <2>1, <2>2, <3>1, <3>2, <3>3, <3>4, PageStep
  <2> QED BY <2>3, <2>4
<1>8. ASSUME NEW w, w = s \/ w = <<Head(s)>>, Begin(w), UNCHANGED <<pending, mail>>
      PROVE  QInv'
  <2>1. PICK b \in Attempts : /\ phase[b] = "none"
                              /\ phase' = [phase EXCEPT ![b] = "locking"]
                              /\ waiting' = [waiting EXCEPT ![b] = w]
    BY <1>8 DEF Begin
  <2>2. \A c \in Attempts : Running(c) => Running(c)'
    BY <2>1 DEF Running, QInv, IInv, Shape
  <2>3. w \in Seq(Requests) /\ 0 \in Nat /\ 0 <= Len(w) /\ 0 <= Len(waiting[b])
    <3>1. Head(s) \in Requests
      BY <1>2
    <3>2. w \in Seq(Requests)
      BY <1>2, <1>8, <3>1
    <3> QED BY <1>3, <3>2
  <2>4. \A i \in 1..Len(w) : i \in DOMAIN s /\ w[i] = s[i]
    BY <1>2, <1>8
  <2>5. /\ \A i \in 1..0 : w[i] = waiting[b][i]
        /\ \A i \in (0 + 1)..Len(w) : i - 0 \in DOMAIN s /\ w[i] = s[i - 0]
    BY <2>3, <2>4
  <2>6. UNCHANGED <<pending, worker>>
    BY <1>1, <1>8 DEF worker
  <2> QED BY <1>1, <2>1, <2>2, <2>3, <2>5, <2>6, AwaitStep
<1>9. ASSUME client # 0, phase[client] # "over", Post(client, s, pending[client]),
             UNCHANGED <<phase, waiting>>
      PROVE  QInv'
  <2>1. client \in Attempts /\ Running(client)
    BY <1>9 DEF QInv, IInv, Shape, ClientWasGranted, Running
  <2>2. \A b \in Attempts : Running(b) <=> Running(b)'
    BY <1>9 DEF Running
  <2>3. AwaitsApart(Range(s))
    BY <1>3, <1>4, <1>5, <1>9 DEF AwaitsApart
  <2>4. s \in Seq(Requests \cup {CloseId})
    BY <1>2
  <2>5. \A i \in DOMAIN s : s[i] \notin Sent /\ s[i] \in asked' \cup {CloseId}
    BY <1>2
  <2>6. pending[client] \in SUBSET pending[client]
    OBVIOUS
  <2> QED BY <1>1, <1>2, <1>5, <1>9, <2>1, <2>2, <2>3, <2>4, <2>5, <2>6, PostStep
<1> QED BY <1>6, <1>7, <1>8, <1>9 DEF Send

\* The calls that await stay apart from what a step posts when they do not
\* change, or when those of one attempt leave.
LEMMA AwaitsStay ==
  ASSUME QInv, UNCHANGED asked, NEW R, NEW a \in Attempts,
         \/ waiting' = waiting /\ R \cap asked = {}
         \/ waiting' = [waiting EXCEPT ![a] = <<>>] /\ R = Range(waiting[a])
  PROVE  AwaitsApart(R)
<1>1. CASE waiting' = waiting /\ R \cap asked = {}
  BY <1>1 DEF QInv, QueueShape, WaitingAreUnsent, AwaitsApart
<1>2. CASE waiting' = [waiting EXCEPT ![a] = <<>>] /\ R = Range(waiting[a])
  <2>1. \A b \in Attempts : waiting'[b] = IF b = a THEN <<>> ELSE waiting[b]
    BY <1>2 DEF QInv, QueueShape
  <2>2. \A b \in Attempts : \A i \in DOMAIN waiting'[b] :
          b # a /\ i \in DOMAIN waiting[b] /\ waiting'[b][i] = waiting[b][i]
    <3>1. DOMAIN <<>> = {}
      OBVIOUS
    <3> QED BY <2>1, <3>1
  <2>3. \A b \in Attempts : waiting'[b] \in Seq(Requests)
    <3>1. <<>> \in Seq(Requests) /\ \A b \in Attempts : waiting[b] \in Seq(Requests)
      BY DEF QInv, QueueShape
    <3> QED BY <2>1, <3>1
  <2>4. \A b \in Attempts : \A i \in DOMAIN waiting'[b] :
          waiting'[b][i] \in asked /\ waiting'[b][i] \notin Sent \cup R
    BY <1>2, <2>2 DEF QInv, WaitingAreUnsent, Range
  <2>5. \A b, c \in Attempts : \A i \in DOMAIN waiting'[b], j \in DOMAIN waiting'[c] :
          waiting'[b][i] = waiting'[c][j] => b = c /\ i = j
    BY <2>2 DEF QInv, WaitingAreUnsent
  <2> QED BY <1>2, <2>3, <2>4, <2>5 DEF AwaitsApart, QInv, QueueShape
<1> QED BY <1>1, <1>2

LEMMA CloseQueues ==
  ASSUME QInv, IInv', Close
  PROVE  QInv'
<1>1. UNCHANGED <<phase, waiting, asked, job, jobs, db, canceled, ran, revoked>>
  BY DEF Close
<1>2. Calls' /\ asked \subseteq asked' /\ \A b \in Attempts : Running(b) <=> Running(b)'
  BY <1>1 DEF Running, QInv, Calls
<1>3. CASE client = 0 \/ client \in {a \in Attempts : phase[a] = "over"}
  <2>1. UNCHANGED <<pending, mail, answer>>
    BY <1>3 DEF Close
  <2>2. /\ \A a \in Attempts : /\ waiting'[a] \in Seq(Requests)
                               /\ \A i \in DOMAIN waiting'[a] :
                                    waiting'[a][i] \in asked' /\ waiting'[a][i] \notin Sent
        /\ \A a, b \in Attempts : \A i \in DOMAIN waiting'[a], j \in DOMAIN waiting'[b] :
             waiting'[a][i] = waiting'[b][j] => a = b /\ i = j
        /\ DOMAIN waiting' = Attempts
    BY <1>1 DEF QInv, QueueShape, WaitingAreUnsent
  <2>3. UNCHANGED worker
    BY <1>1, <2>1 DEF Close, worker
  <2>4. \A a \in Attempts : pending'[a] \subseteq pending[a] \cup {OpenId, CloseId}
    BY <2>1
  <2> QED BY <1>2, <2>2, <2>3, <2>4, PageStep
<1>4. CASE ~(client = 0 \/ client \in {a \in Attempts : phase[a] = "over"})
  <2> DEFINE s == <<CloseId>>
  <2>1. Post(client, s, pending[client])
    BY <1>4 DEF Close
  <2>2. client \in Attempts /\ Running(client)
    BY <1>4 DEF QInv, IInv, Shape, ClientWasGranted, Running
  <2>3. s \in Seq(Requests \cup {CloseId}) /\ DOMAIN s = {1} /\ s[1] = CloseId /\ Range(s) = {CloseId}
    BY DEF Range
  <2>4. CloseId \notin asked /\ CloseId \notin Sent
    BY IdsAreNumbers, BoundsAssumption DEF QInv, Calls, CloseId, Sent
  <2> HIDE DEF s
  <2>5. AwaitsApart(Range(s))
    BY <1>1, <2>2, <2>3, <2>4, AwaitsStay
  <2>6. /\ \A i \in DOMAIN s : s[i] \notin Sent /\ s[i] \in asked' \cup {CloseId}
        /\ \A i, j \in DOMAIN s : s[i] = s[j] => i = j
        /\ pending[client] \in SUBSET pending[client]
    BY <2>3, <2>4
  <2> QED BY <1>1, <1>2, <2>1, <2>2, <2>3, <2>5, <2>6, PostStep
<1> QED BY <1>3, <1>4

LEMMA DeliverQueues ==
  ASSUME QInv, IInv', NEW a \in Attempts, Deliver(a)
  PROVE  QInv'
<1> DEFINE m == Head(replies[a])
<1>1. Running(a)
  BY DEF Deliver
<1>2. ASSUME phase' = [phase EXCEPT ![a] = "open"], waiting' = [waiting EXCEPT ![a] = <<>>],
             Post(a, waiting[a], pending[a] \ {OpenId}),
             UNCHANGED <<asked, job, jobs, db, canceled, ran, revoked>>
      PROVE  QInv'
  <2>1. \A b \in Attempts : Running(b) <=> Running(b)'
    BY <1>1, <1>2 DEF Running, QInv, IInv, Shape
  <2>2. AwaitsApart(Range(waiting[a]))
    BY <1>2, AwaitsStay
  <2>3. /\ waiting[a] \in Seq(Requests \cup {CloseId})
        /\ \A i, j \in DOMAIN waiting[a] : waiting[a][i] = waiting[a][j] => i = j
        /\ \A i \in DOMAIN waiting[a] :
             waiting[a][i] \notin Sent /\ waiting[a][i] \in asked' \cup {CloseId}
    BY <1>2 DEF QInv, QueueShape, WaitingAreUnsent
  <2>4. Calls' /\ asked \subseteq asked' /\ pending[a] \ {OpenId} \in SUBSET pending[a]
    BY <1>2 DEF QInv, Calls
  <2> QED BY <1>1, <1>2, <2>1, <2>2, <2>3, <2>4, PostStep
<1>3. ASSUME NEW why, NEW blocked, Stop(a, why, blocked)
      PROVE  QInv'
  BY <1>1, <1>3, StopQueues
<1>4. ASSUME UNCHANGED <<phase, waiting, asked, mail, job, jobs, db, canceled, ran, revoked>>,
             \/ pending' = [pending EXCEPT ![a] = @ \ Settles(a, m)]
             \/ pending' = pending
      PROVE  QInv'
  <2>1. Sent' \subseteq Sent
    BY <1>4 DEF Sent, QInv, IInv, Shape
  <2>2. QueueShape' /\ Calls' /\ IdleWorkers'
    BY <1>4 DEF QInv, QueueShape, Calls, IdleWorkers, Running
  <2>3. WaitingAreUnsent'
    BY <1>4, <2>1 DEF QInv, WaitingAreUnsent
  <2>4. OpenComesFirst' /\ SentOnce' /\ RevokedIsBarred' /\ RevokedNeverRuns'
    BY <1>4 DEF QInv, OpenComesFirst, SentOnce, RevokedIsBarred, RevokedNeverRuns
  <2> QED BY <2>2, <2>3, <2>4 DEF QInv
<1> QED BY <1>2, <1>3, <1>4 DEF Deliver, page

LEMMA NextQInv == QInv /\ [Next]_vars => QInv'
<1> SUFFICES ASSUME QInv, [Next]_vars PROVE QInv'
  OBVIOUS
<1>0. IInv'
  BY NextIInv DEF QInv
<1>1. ASSUME NEW s \in Batches, Send(s) PROVE QInv'
  BY <1>0, <1>1, SendQueues
<1>2. ASSUME NEW r \in Requests, Abort(r) PROVE QInv'
  <2>1. UNCHANGED <<phase, waiting, asked, job, jobs, db, canceled, replies, ran, revoked>>
    BY <1>2 DEF Abort
  <2>2. CASE \E a \in Attempts : /\ r \in pending[a]
                                 /\ pending' = [pending EXCEPT ![a] = @ \ {r}]
                                 /\ mail' = [mail EXCEPT ![a] = Append(@, Cancel(r))]
    BY <1>0, <2>1, <2>2, CancelStep
  <2>3. CASE UNCHANGED <<pending, mail>>
    BY <1>0, <2>1, <2>3
    DEF QInv, Calls, QueueShape, IdleWorkers, OpenComesFirst, WaitingAreUnsent, Sent, SentOnce,
        RevokedIsBarred, RevokedNeverRuns, Running
  <2> QED BY <1>2, <2>2, <2>3 DEF Abort
<1>3. CASE Close
  BY <1>0, <1>3, CloseQueues
<1>4. CASE UNCHANGED <<phase, waiting, pending, asked, worker>>
  BY <1>0, <1>4
  DEF QInv, Calls, QueueShape, IdleWorkers, OpenComesFirst, WaitingAreUnsent, Sent, SentOnce,
      RevokedIsBarred, RevokedNeverRuns, Running, worker
<1>5. ASSUME NEW a \in Attempts, Granted(a) PROVE QInv'
  BY <1>0, <1>5, GrantedQueues
<1>6. ASSUME NEW a \in Attempts, Fails(a) \/ Denied(a) \/ LookedUp(a) PROVE QInv'
  <2>1. ~Running(a) /\ UNCHANGED <<asked, pending, worker>>
    BY <1>6 DEF Fails, Denied, LookedUp, Decided, Running, page
  <2>2. waiting' = [waiting EXCEPT ![a] = <<>>] \/ waiting' = waiting
    BY <1>6 DEF Fails, Denied, LookedUp, Refuse, page
  <2>3. \E p : phase' = [phase EXCEPT ![a] = p]
    BY <1>6 DEF Fails, Denied, LookedUp, Refuse
  <2> QED BY <1>0, <2>1, <2>2, <2>3, RefuseQueues
<1>7. ASSUME NEW a \in Attempts, OpenTimeout(a) \/ CloseTimeout(a) \/ Crash(a) PROVE QInv'
  <2>1. Running(a)
    BY <1>7 DEF OpenTimeout, CloseTimeout, Crash, QInv, IInv, NothingPendsOnTheDead
  <2> QED BY <1>0, <1>7, <2>1, StopQueues DEF OpenTimeout, CloseTimeout, Crash
<1>8. ASSUME NEW a \in Attempts, Deliver(a) PROVE QInv'
  BY <1>0, <1>8, DeliverQueues
<1>9. ASSUME NEW a \in Attempts, NEW r \in Requests, Timeout(a, r) PROVE QInv'
  BY <1>0, <1>9, CancelStep DEF Timeout
<1>10. ASSUME NEW a \in Attempts, Receive(a) PROVE QInv'
  BY <1>0, <1>10, ReceiveQueues
<1>11. ASSUME NEW a \in Attempts, NEW outcome, OpenEnds(a, outcome) PROVE QInv'
  <2>1. job[a] # NoJob /\ (outcome = "ok") \in BOOLEAN
    BY <1>11, IdsAreNumbers DEF OpenEnds
  <2> QED BY <1>0, <1>11, <2>1, JobEndsQueues DEF OpenEnds
<1>12. ASSUME NEW a \in Attempts, EstimateEnds(a) PROVE QInv'
  <2>1. job[a] # NoJob /\ db[a] \in BOOLEAN
    BY <1>12, EstimatesAssumption, IdsAreNumbers
    DEF EstimateEnds, QInv, QueueShape, Requests, NoJob
  <2> QED BY <1>0, <1>12, <2>1, JobEndsQueues DEF EstimateEnds
<1>13. CASE CooldownEnds \/ OtherTakes \/ OtherReleases \/ UNCHANGED vars
  BY <1>4, <1>13 DEF CooldownEnds, OtherTakes, OtherReleases, vars, page
<1> QED
  BY <1>1, <1>2, <1>3, <1>5, <1>6, <1>7, <1>8, <1>9, <1>10, <1>11, <1>12, <1>13 DEF Next

\* A statement whose cancel message reached the worker before its turn never
\* runs, whatever is closed, reopened or aborted meanwhile: the worker's
\* canceled set and its promise queue (static/sqlite-opfs-worker.js).
THEOREM CanceledStaysCanceled == Spec => []RevokedNeverRuns
<1>1. QInv => RevokedNeverRuns
  BY DEF QInv
<1> QED BY InitQInv, NextQInv, <1>1, PTL DEF Spec

-----------------------------------------------------------------------------
(* The work of a relay *)

WorkTypes ==
    /\ connections \in [Relays -> {"none", "connecting", "open", "down"}]
    /\ waiters \in [Relays -> SUBSET Events]
    /\ active \in [Relays -> Nat]
    /\ subs \in [Relays -> Nat]

WaitersAreFew == \A r \in Relays : IsFiniteSet(waiters[r])

PoolInv == WorkTypes /\ WaitersAreFew /\ ActiveCountsWork

\* What begins is counted, and has a client.
LEMMA BeginsCounted ==
  ASSUME PoolInv, ~poolClosed, NEW r \in Relays, BeginWork(r), Connects(r),
         poolClosed' = poolClosed,
         \/ \E e \in Events : /\ e \notin waiters[r] /\ subs' = subs
                              /\ waiters' = [waiters EXCEPT ![r] = @ \cup {e}]
         \/ waiters' = waiters /\ subs' = [subs EXCEPT ![r] = @ + 1]
  PROVE  PoolInv'
<1>1. /\ active' = [active EXCEPT ![r] = active[r] + 1] /\ active[r] \in Nat
      /\ subs[r] \in Nat /\ IsFiniteSet(waiters[r]) /\ waiters[r] \subseteq Events
  BY DEF BeginWork, PoolInv, WorkTypes, WaitersAreFew
<1>2. /\ connections' \in [Relays -> {"none", "connecting", "open", "down"}]
      /\ connections'[r] # "none"
      /\ \A x \in Relays : x # r => connections'[x] = connections[x]
  BY DEF Connects, PoolInv, WorkTypes
<1>3. active[r] = subs[r] + Cardinality(waiters[r])
  BY DEF PoolInv, ActiveCountsWork
<1>4. /\ waiters' \in [Relays -> SUBSET Events] /\ subs' \in [Relays -> Nat]
      /\ \A x \in Relays : x # r => waiters'[x] = waiters[x] /\ subs'[x] = subs[x]
  BY <1>1 DEF PoolInv, WorkTypes
<1>5. /\ IsFiniteSet(waiters'[r])
      /\ subs'[r] + Cardinality(waiters'[r]) = subs[r] + Cardinality(waiters[r]) + 1
  <2>1. CASE waiters' = waiters /\ subs' = [subs EXCEPT ![r] = @ + 1]
    <3>1. subs'[r] = subs[r] + 1 /\ waiters'[r] = waiters[r] /\ Cardinality(waiters[r]) \in Nat
      BY <1>1, <2>1, FS_CardinalityType DEF PoolInv, WorkTypes
    <3> QED BY <1>1, <3>1
  <2>2. ASSUME NEW e \in Events, e \notin waiters[r], subs' = subs,
               waiters' = [waiters EXCEPT ![r] = @ \cup {e}]
        PROVE  /\ IsFiniteSet(waiters'[r])
               /\ subs'[r] + Cardinality(waiters'[r]) = subs[r] + Cardinality(waiters[r]) + 1
    <3>1. waiters'[r] = waiters[r] \cup {e} /\ subs'[r] = subs[r]
      BY <2>2 DEF PoolInv, WorkTypes
    <3>2. /\ IsFiniteSet(waiters[r] \cup {e})
          /\ Cardinality(waiters[r] \cup {e}) = Cardinality(waiters[r]) + 1
          /\ Cardinality(waiters[r]) \in Nat
      BY <1>1, <2>2, FS_AddElement, FS_CardinalityType
    <3> QED BY <1>1, <3>1, <3>2
  <2> QED BY <2>1, <2>2
<1>6. WorkTypes'
  BY <1>1, <1>2, <1>4 DEF PoolInv, WorkTypes
<1>7. WaitersAreFew'
  BY <1>4, <1>5 DEF PoolInv, WaitersAreFew
<1>8. ActiveCountsWork'
  <2> SUFFICES ASSUME NEW x \in Relays
               PROVE  /\ active'[x] = subs'[x] + Cardinality(waiters'[x])
                      /\ active'[x] > 0 => connections'[x] # "none"
    BY DEF ActiveCountsWork
  <2>1. CASE x = r
    BY <1>1, <1>2, <1>3, <1>5, <2>1 DEF PoolInv, WorkTypes
  <2>2. CASE x # r
    BY <1>1, <1>2, <1>4, <2>2 DEF PoolInv, WorkTypes, ActiveCountsWork
  <2> QED BY <2>1, <2>2
<1> QED BY <1>6, <1>7, <1>8 DEF PoolInv

\* What ends was counted: the tracker never ends more than began.
LEMMA EndsCounted ==
  ASSUME PoolInv, NEW r \in Relays, EndWork(r), connections' = connections,
         poolClosed' = poolClosed,
         \/ \E e \in waiters[r] : /\ waiters' = [waiters EXCEPT ![r] = @ \ {e}]
                                  /\ subs' = subs
         \/ waiters' = waiters /\ subs[r] > 0 /\ subs' = [subs EXCEPT ![r] = @ - 1]
  PROVE  PoolInv'
<1>1. /\ active' = [active EXCEPT ![r] = IF active[r] = 0 THEN 0 ELSE active[r] - 1]
      /\ active[r] \in Nat /\ subs[r] \in Nat /\ IsFiniteSet(waiters[r])
      /\ waiters[r] \subseteq Events
  BY DEF EndWork, PoolInv, WorkTypes, WaitersAreFew
<1>2. /\ waiters' \in [Relays -> SUBSET Events] /\ subs' \in [Relays -> Nat]
      /\ \A x \in Relays : x # r => waiters'[x] = waiters[x] /\ subs'[x] = subs[x]
  BY <1>1 DEF PoolInv, WorkTypes
<1>3. /\ IsFiniteSet(waiters'[r])
      /\ subs'[r] + Cardinality(waiters'[r]) + 1 = subs[r] + Cardinality(waiters[r])
      /\ subs'[r] + Cardinality(waiters'[r]) \in Nat
  <2>1. CASE waiters' = waiters /\ subs[r] > 0 /\ subs' = [subs EXCEPT ![r] = @ - 1]
    <3>1. subs'[r] = subs[r] - 1 /\ waiters'[r] = waiters[r] /\ Cardinality(waiters[r]) \in Nat
      BY <1>1, <2>1, FS_CardinalityType DEF PoolInv, WorkTypes
    <3> QED BY <1>1, <2>1, <3>1
  <2>2. ASSUME NEW e \in waiters[r], subs' = subs, waiters' = [waiters EXCEPT ![r] = @ \ {e}]
        PROVE  /\ IsFiniteSet(waiters'[r])
               /\ subs'[r] + Cardinality(waiters'[r]) + 1 = subs[r] + Cardinality(waiters[r])
               /\ subs'[r] + Cardinality(waiters'[r]) \in Nat
    <3>1. waiters'[r] = waiters[r] \ {e} /\ subs'[r] = subs[r]
      BY <2>2 DEF PoolInv, WorkTypes
    <3>2. /\ IsFiniteSet(waiters[r] \ {e})
          /\ Cardinality(waiters[r] \ {e}) = Cardinality(waiters[r]) - 1
      BY <1>1, <2>2, FS_RemoveElement
    <3>3. Cardinality(waiters[r]) \in Nat /\ Cardinality(waiters[r] \ {e}) \in Nat
      BY <1>1, <3>2, FS_CardinalityType
    <3> QED BY <1>1, <3>1, <3>2, <3>3
  <2> QED BY <2>1, <2>2
<1>4. WorkTypes'
  BY <1>1, <1>2 DEF PoolInv, WorkTypes
<1>5. WaitersAreFew'
  BY <1>2, <1>3 DEF PoolInv, WaitersAreFew
<1>6. ActiveCountsWork'
  <2> SUFFICES ASSUME ~poolClosed, NEW x \in Relays
               PROVE  /\ active'[x] = subs'[x] + Cardinality(waiters'[x])
                      /\ active'[x] > 0 => connections'[x] # "none"
    BY DEF ActiveCountsWork
  <2>1. CASE x = r
    <3>1. /\ active[r] = subs[r] + Cardinality(waiters[r])
          /\ active[r] > 0 => connections[r] # "none"
      BY DEF PoolInv, ActiveCountsWork
    <3>2. active[r] > 0 /\ active'[r] = active[r] - 1
      BY <1>1, <1>3, <3>1 DEF PoolInv, WorkTypes
    <3>3. active'[r] = subs'[r] + Cardinality(waiters'[r])
      BY <1>3, <3>1, <3>2
    <3> QED BY <2>1, <3>1, <3>2, <3>3
  <2>2. CASE x # r
    BY <1>1, <1>2, <2>2 DEF PoolInv, WorkTypes, ActiveCountsWork
  <2> QED BY <2>1, <2>2
<1> QED BY <1>4, <1>5, <1>6 DEF PoolInv

\* Only a client without work is evicted; a connection that opens, drops or
\* comes back stays a client.
LEMMA ConnectionPoolInv ==
  ASSUME PoolInv, NEW r \in Relays,
         IdleFires(r) \/ Opens(r) \/ Drops(r) \/ Reconnect(r)
  PROVE  PoolInv'
<1>1. UNCHANGED <<waiters, active, subs, poolClosed>>
  BY DEF IdleFires, Opens, Drops, Reconnect, idle
<1>2. PICK c \in {"none", "connecting", "open", "down"} :
         /\ connections' = [connections EXCEPT ![r] = c]
         /\ c = "none" => connections[r] = "none" \/ ~(active[r] > 0)
  <2>1. connections = [connections EXCEPT ![r] = connections[r]]
    BY DEF PoolInv, WorkTypes
  <2>2. connections[r] \in {"none", "connecting", "open", "down"}
    BY DEF PoolInv, WorkTypes
  <2>3. CASE IdleFires(r)
    BY <2>1, <2>2, <2>3 DEF IdleFires, clientVars
  <2>4. CASE Opens(r) \/ Drops(r)
    BY <2>4 DEF Opens, Drops
  <2>5. CASE Reconnect(r)
    BY <2>2, <2>5 DEF Reconnect, Connects
  <2> QED BY <2>3, <2>4, <2>5
<1>3. WorkTypes' /\ WaitersAreFew'
  BY <1>1, <1>2 DEF PoolInv, WorkTypes, WaitersAreFew
<1>4. ActiveCountsWork'
  BY <1>1, <1>2 DEF PoolInv, WorkTypes, ActiveCountsWork
<1> QED BY <1>3, <1>4 DEF PoolInv

LEMMA SettlePoolInv ==
  ASSUME PoolInv, NEW r \in Relays, NEW e \in Events, Settle(r, e),
         UNCHANGED <<connections, subs, poolClosed>>
  PROVE  PoolInv'
<1>1. CASE e \notin waiters[r]
  BY <1>1 DEF Settle, idle, PoolInv, WorkTypes, WaitersAreFew, ActiveCountsWork
<1>2. CASE e \in waiters[r]
  BY <1>2, EndsCounted DEF Settle
<1> QED BY <1>1, <1>2

\* Whatever OK, timeout, a second OK and cleanup do to one publish, and whatever
\* the connection does meanwhile, the tracker of a relay counts its work, and no
\* client is evicted that has work.
THEOREM WorkIsCounted == PoolSpec => []ActiveCountsWork
<1>1. PoolInit => PoolInv
  <2> SUFFICES ASSUME PoolInit PROVE PoolInv
    OBVIOUS
  <2>1. WorkTypes
    BY DEF PoolInit, WorkTypes
  <2>2. \A r \in Relays : waiters[r] = {} /\ active[r] = 0 /\ subs[r] = 0
    BY DEF PoolInit
  <2>3. IsFiniteSet({}) /\ Cardinality({}) = 0
    BY FS_EmptySet
  <2>4. \A r \in Relays : IsFiniteSet(waiters[r]) /\ Cardinality(waiters[r]) = 0
    BY <2>2, <2>3
  <2> HIDE DEF PoolInit
  <2> QED BY <2>1, <2>2, <2>4 DEF PoolInv, WaitersAreFew, ActiveCountsWork
<1>2. PoolInv /\ [PoolNext]_poolVars => PoolInv'
  <2> SUFFICES ASSUME PoolInv, [PoolNext]_poolVars PROVE PoolInv'
    OBVIOUS
  <2>1. ASSUME NEW r \in Relays, NEW e \in Events, Publish(r, e) PROVE PoolInv'
    BY <2>1, BeginsCounted DEF Publish
  <2>2. ASSUME NEW r \in Relays, Subscribe(r) PROVE PoolInv'
    BY <2>2, BeginsCounted DEF Subscribe
  <2>3. ASSUME NEW r \in Relays, Unsubscribe(r) PROVE PoolInv'
    BY <2>3, EndsCounted DEF Unsubscribe, clientVars
  <2>4. ASSUME NEW r \in Relays, NEW e \in Events, PublishTimeout(r, e) \/ ReceiveOk(r, e)
        PROVE  PoolInv'
    BY <2>4, SettlePoolInv DEF PublishTimeout, ReceiveOk, clientVars
  <2>5. ASSUME NEW r \in Relays, IdleFires(r) \/ Opens(r) \/ Drops(r) \/ Reconnect(r)
        PROVE  PoolInv'
    BY <2>5, ConnectionPoolInv
  <2>6. CASE ClosePool
    <3>1. WorkTypes' /\ poolClosed' /\ \A r \in Relays : waiters'[r] = {}
      BY <2>6 DEF ClosePool, PoolInv, WorkTypes
    <3> QED BY <3>1, FS_EmptySet DEF PoolInv, WaitersAreFew, ActiveCountsWork
  <2>7. CASE (\E r \in Relays, e \in Events : Acknowledge(r, e)) \/ UNCHANGED poolVars
    <3>1. UNCHANGED <<connections, waiters, active, subs, poolClosed>>
      BY <2>7 DEF Acknowledge, poolVars, clientVars, idle
    <3> QED BY <3>1 DEF PoolInv, WorkTypes, WaitersAreFew, ActiveCountsWork
  <2> QED BY <2>1, <2>2, <2>3, <2>4, <2>5, <2>6, <2>7 DEF PoolNext
<1>3. PoolInv => ActiveCountsWork
  BY DEF PoolInv
<1> QED BY <1>1, <1>2, <1>3, PTL DEF PoolSpec
=============================================================================
