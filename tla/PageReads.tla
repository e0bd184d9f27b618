----------------------------- MODULE PageReads -----------------------------
(***************************************************************************)
(* Paged reads of the subscription manager:                                *)
(*   src/lib/relays/subscription-manager.ts (readPageDetailed, close),     *)
(*   subscription-read-page.ts, shared-abort-controller.ts,                *)
(*   relay-read-leases.ts, and of the pool what they call: onState,        *)
(*   subscribe, snapshots and idle eviction.                               *)
(*                                                                         *)
(* A key is a dedupe key: callers of one key share one execution, its      *)
(* abort controller and its promise.  The admission of module ReadLimiter  *)
(* is reduced to its promise, which resolves or rejects later.  Every key  *)
(* reads from all Relays and all keys have the same base subscription id.  *)
(* A snapshot is "live" (connecting or open) or "dead" (closed or error).  *)
(***************************************************************************)
EXTENDS Integers, FiniteSets

CONSTANTS Callers, Keys, Relays,
          MaxSeq,   \* bound: readSeq
          MaxLeaks  \* bound: handles that were never closed, counted up to it

VARIABLES
  call,     \* call[c]: the key whose promise the caller awaits, or "none"
  phase,    \* phase[k]: where executeReadPage of k is
  aborted,  \* keys whose shared controller is aborted
  inFlight, \* the keys of inFlightReads
  subId,    \* subId[k]: 0 for the base id, or the readSeq it was made of
  readSeq,
  eose,     \* eose[k]: relays that sent EOSE for the subscription of k
  closed,   \* the manager was closed
  clients,  \* relays with a client in the pool
  snapshot, \* snapshot[r]: the latest snapshot of r in the history
  active,   \* active[r]: the idle tracker's count
  leaks     \* handles of pool.subscribe and onState nobody will close

reads == <<call, phase, aborted, inFlight, subId, readSeq, eose, closed>>
pool  == <<clients, snapshot, active, leaks>>
vars  == <<reads, pool>>

Phases == {"none",
           "acquiring", \* awaits the read limiter
           "reading",   \* subscribed, awaits finish()
           "done",      \* finish() ran, the continuation is scheduled
           "settled"}   \* returned; the finally of the manager is scheduled

Init == /\ call = [c \in Callers |-> "none"]
        /\ phase = [k \in Keys |-> "none"]
        /\ aborted = {} /\ inFlight = {}
        /\ subId = [k \in Keys |-> 0] /\ readSeq = 0
        /\ eose = [k \in Keys |-> {}]
        /\ closed = FALSE
        /\ clients = {}
        /\ snapshot = [r \in Relays |-> "none"]
        /\ active = [r \in Relays |-> 0]
        /\ leaks = 0

----------------------------------------------------------------------------
(* Helpers *)

\* The ids in activeRelaySubIds.
Leased == {subId[k] : k \in {x \in Keys : phase[x] \notin {"none", "settled"}}}

\* leaseRelayReadSubId: the base id, or one made of the next free readSeq.
Lease == IF 0 \notin Leased THEN [id |-> 0, seq |-> readSeq]
         ELSE LET n == CHOOSE m \in (readSeq + 1)..(readSeq + Cardinality(Keys) + 1) :
                         /\ m \notin Leased
                         /\ \A j \in (readSeq + 1)..(m - 1) : j \in Leased
              IN  [id |-> n, seq |-> n]

\* readPageComplete: of the relays that have a snapshot, and there is one,
\* each sent EOSE (or CLOSED) or is down.
Complete(k, snap, answered) ==
  /\ \E r \in Relays : snap[r] # "none"
  /\ \A r \in Relays : snap[r] # "none" => r \in answered[k] \/ snap[r] = "dead"

\* emitStates: every read that the new snapshots complete runs finish(),
\* which takes its handler and its subscription away.
Emit(snap, answered) ==
  LET over == {k \in Keys : phase[k] = "reading" /\ Complete(k, snap, answered)}
  IN  /\ snapshot' = snap
      /\ phase' = [k \in Keys |-> IF k \in over THEN "done" ELSE phase[k]]
      /\ eose' = [k \in Keys |-> IF k \in over THEN {} ELSE answered[k]]
      /\ active' = [r \in Relays |-> active[r] - Cardinality(over)]

\* finish() of the reads in K, on their own.
Finish(K) ==
  /\ phase' = [k \in Keys |-> IF k \in K THEN "done" ELSE phase[k]]
  /\ eose' = [k \in Keys |-> IF k \in K THEN {} ELSE eose[k]]
  /\ active' = [r \in Relays |-> active[r] - Cardinality(K)]

----------------------------------------------------------------------------
(* Callers *)

\* readPageDetailed: join the read in flight for the key, or start one.  The
\* signal may be aborted already, which aborts the shared controller.
Read(c, k, signalAborted) ==
  /\ ~closed /\ call[c] = "none"
  /\ call' = [call EXCEPT ![c] = k]
  /\ IF k \in inFlight
     THEN /\ aborted' = IF signalAborted THEN aborted \cup {k} ELSE aborted
          /\ IF signalAborted /\ phase[k] = "reading"
             THEN Finish({k})
             ELSE UNCHANGED <<phase, eose, active>>
          /\ UNCHANGED <<inFlight, subId, readSeq>>
     ELSE /\ phase[k] = "none" /\ Lease.seq <= MaxSeq
          /\ inFlight' = inFlight \cup {k}
          /\ phase' = [phase EXCEPT ![k] = "acquiring"]
          /\ aborted' = IF signalAborted THEN aborted \cup {k} ELSE aborted \ {k}
          /\ subId' = [subId EXCEPT ![k] = Lease.id]
          /\ readSeq' = Lease.seq
          /\ UNCHANGED <<eose, active>>
  /\ UNCHANGED <<closed, clients, snapshot, leaks>>

\* The signal of a caller aborts: the controller of the shared read aborts,
\* and with it the read of every caller.
Abort(c) ==
  /\ call[c] # "none" /\ call[c] \notin aborted
  /\ aborted' = aborted \cup {call[c]}
  /\ IF phase[call[c]] = "reading" THEN Finish({call[c]})
     ELSE UNCHANGED <<phase, eose, active>>
  /\ UNCHANGED <<call, inFlight, subId, readSeq, closed, clients, snapshot, leaks>>

\* close() of the manager
Close ==
  /\ ~closed
  /\ closed' = TRUE
  /\ aborted' = aborted \cup inFlight
  /\ inFlight' = {}
  /\ Finish({k \in Keys : phase[k] = "reading"})
  /\ UNCHANGED <<call, subId, readSeq, clients, snapshot, leaks>>

----------------------------------------------------------------------------
(* The execution of a read *)

\* The limiter admits the read.  An aborted one is done at once.  Otherwise
\* onState calls its handler with the snapshots there are, and subscribe
\* follows; when the handler finds the read complete, finish() has run
\* before either handle was assigned, and neither is ever closed.  (Leaks are
\* counted up to MaxLeaks: one is enough to keep a relay active for ever.)
Acquired(k) ==
  /\ phase[k] = "acquiring"
  /\ IF k \in aborted
     THEN /\ phase' = [phase EXCEPT ![k] = "done"]
          /\ UNCHANGED <<clients, snapshot, active, leaks>>
     ELSE LET complete == Complete(k, snapshot, eose)
              more == IF complete /\ leaks = MaxLeaks THEN 0 ELSE 1
          IN  /\ phase' = [phase EXCEPT ![k] = IF complete THEN "done" ELSE "reading"]
              /\ leaks' = IF complete THEN leaks + more ELSE leaks
              /\ clients' = Relays
              /\ snapshot' = [r \in Relays |-> "live"]
              /\ active' = [r \in Relays |-> active[r] + more]
  /\ UNCHANGED <<call, aborted, inFlight, subId, readSeq, eose, closed>>

\* The limiter rejects: the read returns what it has, and cleans up.
Rejected(k) ==
  /\ phase[k] = "acquiring" /\ k \in aborted
  /\ phase' = [phase EXCEPT ![k] = "settled"]
  /\ UNCHANGED <<call, aborted, inFlight, subId, readSeq, eose, closed, pool>>

\* The timer of the read, or the event that reaches its cap.
Ends(k) ==
  /\ phase[k] = "reading"
  /\ Finish({k})
  /\ UNCHANGED <<call, aborted, inFlight, subId, readSeq, closed, clients, snapshot, leaks>>

\* The continuation after the promise, and the finally block.
Returns(k) ==
  /\ phase[k] = "done"
  /\ phase' = [phase EXCEPT ![k] = "settled"]
  /\ UNCHANGED <<call, aborted, inFlight, subId, readSeq, eose, closed, pool>>

SettlesKeepingEntry(k) ==
  /\ phase[k] = "settled"
  /\ phase' = [phase EXCEPT ![k] = "none"]
  /\ call' = [c \in Callers |-> IF call[c] = k THEN "none" ELSE call[c]]
  /\ UNCHANGED <<aborted, inFlight, subId, readSeq, eose, closed, pool>>

\* finally of the manager: signals are detached, the entry goes, and every
\* caller that shared the promise gets the result.
Settles(k) ==
  /\ phase[k] = "settled"
  /\ phase' = [phase EXCEPT ![k] = "none"]
  /\ inFlight' = inFlight \ {k}
  /\ aborted' = aborted \ {k}
  /\ call' = [c \in Callers |-> IF call[c] = k THEN "none" ELSE call[c]]
  /\ UNCHANGED <<subId, readSeq, eose, closed, pool>>

----------------------------------------------------------------------------
(* The pool *)

\* A relay ends the subscription of a read, by EOSE or CLOSED.
Answers(r, k) ==
  /\ phase[k] = "reading" /\ snapshot[r] = "live" /\ r \notin eose[k]
  /\ Emit(snapshot, [eose EXCEPT ![k] = @ \cup {r}])
  /\ UNCHANGED <<call, aborted, inFlight, subId, readSeq, closed, clients, leaks>>

\* The connection of a client ends, or begins again.
Changes(r, state) ==
  /\ r \in clients /\ snapshot[r] # state
  /\ Emit([snapshot EXCEPT ![r] = state], eose)
  /\ UNCHANGED <<call, aborted, inFlight, subId, readSeq, closed, clients, leaks>>

\* Idle eviction: the client is closed, its last snapshot stays.
Evict(r) ==
  /\ r \in clients /\ active[r] = 0
  /\ clients' = clients \ {r}
  /\ Emit([snapshot EXCEPT ![r] = "dead"], eose)
  /\ UNCHANGED <<call, aborted, inFlight, subId, readSeq, closed, leaks>>

Next == \/ \E c \in Callers, k \in Keys, b \in BOOLEAN : Read(c, k, b)
        \/ \E c \in Callers : Abort(c)
        \/ Close
        \/ \E k \in Keys : \/ Acquired(k) \/ Rejected(k) \/ Ends(k)
                           \/ Returns(k) \/ Settles(k)
        \/ \E r \in Relays : \/ Evict(r)
                             \/ \E k \in Keys : Answers(r, k)
                             \/ \E s \in {"live", "dead"} : Changes(r, s)

\* The limiter settles (EveryAcquireSettles of ReadLimiter), the timer of a
\* read fires, and promise continuations run.
Fairness == \A k \in Keys : /\ WF_vars(Acquired(k) \/ Rejected(k)) /\ WF_vars(Ends(k))
                            /\ WF_vars(Returns(k)) /\ WF_vars(Settles(k))

Spec == Init /\ [][Next]_vars /\ Fairness

----------------------------------------------------------------------------
(* Properties *)

Running(k)    == phase[k] # "none"

\* Every variable has its type.
TypeOK == /\ call \in [Callers -> Keys \cup {"none"}]
          /\ phase \in [Keys -> Phases]
          /\ aborted \subseteq Keys /\ inFlight \subseteq Keys
          /\ subId \in [Keys -> 0..MaxSeq] /\ readSeq \in 0..MaxSeq
          /\ eose \in [Keys -> SUBSET Relays]
          /\ closed \in BOOLEAN
          /\ clients \subseteq Relays
          /\ snapshot \in [Relays -> {"none", "live", "dead"}]
          /\ active \in [Relays -> Nat]
          /\ leaks \in 0..MaxLeaks

\* Every caller gets its result, whatever the relays do.
EveryReadSettles == \A c \in Callers : call[c] # "none" ~> call[c] = "none"
=============================================================================
