------------------------- MODULE RelayRuntimeProofs -------------------------
(***************************************************************************)
(* The relay side of the Rust crates.  The wires of LeaseRuntime, for      *)
(* every set of runtimes, of views and for every clock: which demands      *)
(* share a wire does not matter.  The frames of RelayEffects, for any      *)
(* number of registrations, frames and records and every length of the     *)
(* queue.  The shared reads of RoutedReads, for every set of owners,       *)
(* intents, routes and relays and whatever the caps of a plan are; the     *)
(* budgets and the order of its reads, by way of lemmas on finite sums.    *)
(* The windows of FeedScan, for all contexts and histories and every span. *)
(* The reading position of ResizeAnchor, for all rows, heights and views.  *)
(***************************************************************************)
EXTENDS LeaseRuntime, RelayEffects, RoutedReads, FeedScan, ResizeAnchor,
        FiniteSetTheorems, WellFoundedInduction, TLAPS

-----------------------------------------------------------------------------
(* Wires *)

Leased == /\ DOMAIN live = Runtimes
          /\ \A d \in leases : /\ d.owner \in Runtimes /\ d.visible \in BOOLEAN
                               /\ d.lease # <<>>
                               /\ d = [lease |-> d.lease, owner |-> d.owner,
                                       surface |-> d.surface, visible |-> d.visible]

\* A runtime has one lease, the one it remembers; were it to forget an older
\* one, that would keep a place among the visible owners of its wire.
LeaseIsLive == \A d \in leases : live[d.owner] = d.lease

\* While a visible runtime has a lease, its wire is open.
SeenIsOpen == \A d \in leases : d.visible => d.lease \in open

LeaseInv == Leased /\ LeaseIsLive /\ SeenIsOpen

LEMMA FingerprintIsPair == ASSUME NEW q, NEW t PROVE Fingerprint(q, t) # <<>>
<1>1. Len(Fingerprint(q, t)) = 2 /\ Len(<<>>) = 0
  BY DEF Fingerprint
<1> QED BY <1>1

\* release_lease: the other owners of a wire that was in use keep it.
LEMMA ReleaseKeeps ==
  ASSUME LeaseInv, NEW r \in Runtimes,
         NEW T, T = ReleaseLease(leases, open, r, live[r]).leases,
         NEW W, W = ReleaseLease(leases, open, r, live[r]).open
  PROVE  /\ T \subseteq leases /\ W \subseteq open
         /\ \A d \in T : d.owner # r
         /\ \A d \in T : d.visible => d.lease \in W
         /\ \A f \in open : f # live[r] => f \in W
<1>1. /\ T = leases \ Held(leases, r, live[r])
      /\ W = IF VisibleOwners(leases, live[r]) # {} /\ VisibleOwners(T, live[r]) = {}
             THEN open \ {live[r]} ELSE open
  BY DEF ReleaseLease, Reduced
<1>2. \A d \in T : d.owner # r
  BY <1>1 DEF LeaseInv, LeaseIsLive, Held
<1>3. ASSUME NEW d \in T, d.visible PROVE d.lease \in W
  <2>1. d \in leases /\ d.lease \in open
    BY <1>1, <1>3 DEF LeaseInv, SeenIsOpen
  <2>2. d.lease = live[r] => d \in VisibleOwners(T, live[r])
    BY <1>3 DEF VisibleOwners
  <2> QED BY <1>1, <2>1, <2>2
<1> QED BY <1>1, <1>2, <1>3

\* attach_lease, of a runtime that has no other lease left: the wire of its
\* demand is open when it is visible, for it or for somebody before it.
LEMMA AttachKeeps ==
  ASSUME NEW T, NEW W, NEW r \in Runtimes, NEW f, NEW s, NEW visible \in BOOLEAN,
         T \subseteq leases, Leased, LeaseIsLive,
         \A d \in T : d.visible => d.lease \in W,
         \A d \in T : d.owner = r => d.lease = f,
         f # <<>>,
         NEW new, new = [lease |-> f, owner |-> r, surface |-> s, visible |-> visible],
         NEW done, done = AttachLease(T, W, new),
         leases' = done.leases, open' = done.open, live' = [live EXCEPT ![r] = f]
  PROVE  LeaseInv'
<1>1. /\ leases' = (T \ Held(T, r, f)) \cup {new}
      /\ open' = IF visible /\ VisibleOwners(T, f) = {} THEN W \cup {f} ELSE W
  BY DEF AttachLease, Reduced
<1>2. /\ new.lease = f /\ new.owner = r /\ new.visible = visible /\ new.surface = s
  OBVIOUS
<1>3. \A d \in leases' : d = new \/ (d \in T /\ d \in leases /\ d.owner # r)
  BY <1>1 DEF Held
<1>4. /\ DOMAIN live' = Runtimes /\ live'[r] = f
      /\ \A o \in Runtimes : o # r => live'[o] = live[o]
  BY DEF Leased
<1>5. Leased'
  <2> SUFFICES ASSUME NEW d \in leases'
               PROVE  /\ d.owner \in Runtimes /\ d.visible \in BOOLEAN /\ d.lease # <<>>
                      /\ d = [lease |-> d.lease, owner |-> d.owner,
                              surface |-> d.surface, visible |-> d.visible]
    BY <1>4 DEF Leased
  <2>1. CASE d = new
    BY <1>2, <2>1
  <2>2. CASE d \in leases
    BY <2>2 DEF Leased
  <2> QED BY <1>3, <2>1, <2>2
<1>6. LeaseIsLive'
  <2> SUFFICES ASSUME NEW d \in leases' PROVE live'[d.owner] = d.lease
    BY DEF LeaseIsLive
  <2>1. CASE d = new
    BY <1>2, <1>4, <2>1
  <2>2. CASE d \in leases /\ d.owner # r
    BY <1>4, <2>2 DEF LeaseIsLive, Leased
  <2> QED BY <1>3, <2>1, <2>2
<1>7. SeenIsOpen'
  <2> SUFFICES ASSUME NEW d \in leases', d.visible PROVE d.lease \in open'
    BY DEF SeenIsOpen
  <2>1. CASE d = new
    <3>1. CASE VisibleOwners(T, f) = {}
      BY <1>1, <1>2, <2>1, <3>1
    <3>2. CASE VisibleOwners(T, f) # {}
      <4>1. PICK x \in T : x.lease = f /\ x.visible
        BY <3>2 DEF VisibleOwners
      <4> QED BY <1>1, <1>2, <2>1, <4>1
    <3> QED BY <3>1, <3>2
  <2>2. CASE d \in T
    BY <1>1, <2>2
  <2> QED BY <1>3, <2>1, <2>2
<1> QED BY <1>5, <1>6, <1>7 DEF LeaseInv

LEMMA AttachStep ==
  ASSUME LeaseInv, NEW r \in Runtimes, NEW v \in Views, NEW visible \in BOOLEAN,
         Attach(r, v, visible)
  PROVE  LeaseInv'
<1> DEFINE f    == Fingerprint(QueryOf(v), now)
           kept == IF live[r] \in {<<>>, f} THEN Reduced(leases, open)
                   ELSE ReleaseLease(leases, open, r, live[r])
           T    == kept.leases
           W    == kept.open
<1>1. f # <<>>
  BY FingerprintIsPair
<1> DEFINE new  == [lease |-> f, owner |-> r, surface |-> v.surface, visible |-> visible]
           done == AttachLease(T, W, new)
<1>2. leases' = done.leases /\ open' = done.open /\ live' = [live EXCEPT ![r] = f]
  BY DEF Attach
<1> HIDE DEF f
<1>3. /\ T \subseteq leases /\ \A d \in T : d.visible => d.lease \in W
      /\ \A d \in T : d.owner = r => d.lease = f
  <2>1. CASE live[r] \in {<<>>, f}
    <3>1. T = leases /\ W = open
      BY <2>1 DEF Reduced
    <3> QED BY <2>1, <3>1 DEF LeaseInv, LeaseIsLive, SeenIsOpen, Leased
  <2>2. CASE live[r] \notin {<<>>, f}
    <3>1. /\ T = ReleaseLease(leases, open, r, live[r]).leases
          /\ W = ReleaseLease(leases, open, r, live[r]).open
      BY <2>2
    <3> HIDE DEF T, W
    <3> QED BY <3>1, ReleaseKeeps
  <2> QED BY <2>1, <2>2
<1>4. Leased /\ LeaseIsLive
  BY DEF LeaseInv
<1>5. \E s : new = [lease |-> f, owner |-> r, surface |-> s, visible |-> visible]
  OBVIOUS
<1>6. done = AttachLease(T, W, new)
  OBVIOUS
<1> HIDE DEF T, W, kept, new, done
<1> QED BY <1>1, <1>2, <1>3, <1>4, <1>5, <1>6, AttachKeeps

LEMMA ReleaseStep ==
  ASSUME LeaseInv, NEW r \in Runtimes, Release(r)
  PROVE  LeaseInv'
<1>1. /\ leases' = ReleaseLease(leases, open, r, live[r]).leases
      /\ open'   = ReleaseLease(leases, open, r, live[r]).open
      /\ live'   = [live EXCEPT ![r] = <<>>]
  BY DEF Release
<1>2. /\ leases' \subseteq leases
      /\ \A d \in leases' : d.owner # r
      /\ \A d \in leases' : d.visible => d.lease \in open'
  BY <1>1, ReleaseKeeps
<1>3. DOMAIN live' = Runtimes /\ \A o \in Runtimes : o # r => live'[o] = live[o]
  BY <1>1 DEF LeaseInv, Leased
<1> QED BY <1>2, <1>3 DEF LeaseInv, Leased, LeaseIsLive, SeenIsOpen

LEMMA VisibilityStep ==
  ASSUME LeaseInv, NEW r \in Runtimes, NEW visible \in BOOLEAN, SetVisibility(r, visible)
  PROVE  LeaseInv'
<1> DEFINE T    == {IF d.owner = r THEN [d EXCEPT !.visible = visible] ELSE d : d \in leases}
           mine == {d.lease : d \in {d \in leases : d.owner = r}}
           resumed   == {f \in mine : VisibleOwners(leases, f) = {} /\ VisibleOwners(T, f) # {}}
           suspended == {f \in mine : VisibleOwners(leases, f) # {} /\ VisibleOwners(T, f) = {}}
<1>1. leases' = T /\ open' = (open \ suspended) \cup resumed /\ live' = live
  BY DEF SetVisibility
<1>2. ASSUME NEW t \in T
      PROVE  \E d \in leases :
                /\ t.lease = d.lease /\ t.owner = d.owner
                /\ t.visible = (IF d.owner = r THEN visible ELSE d.visible)
                /\ t = [lease |-> d.lease, owner |-> d.owner, surface |-> d.surface,
                        visible |-> IF d.owner = r THEN visible ELSE d.visible]
  <2>1. PICK d \in leases : t = IF d.owner = r THEN [d EXCEPT !.visible = visible] ELSE d
    OBVIOUS
  <2>2. d = [lease |-> d.lease, owner |-> d.owner, surface |-> d.surface, visible |-> d.visible]
    BY DEF LeaseInv, Leased
  <2>3. t = [lease |-> d.lease, owner |-> d.owner, surface |-> d.surface,
             visible |-> IF d.owner = r THEN visible ELSE d.visible]
    BY <2>1, <2>2
  <2> QED BY <2>3
<1>3. \A f : f \in mine <=> \E d \in leases : d.owner = r /\ d.lease = f
  OBVIOUS
<1> HIDE DEF T, mine
<1>4. Leased'
  <2> SUFFICES ASSUME NEW t \in T
               PROVE  /\ t.owner \in Runtimes /\ t.visible \in BOOLEAN /\ t.lease # <<>>
                      /\ t = [lease |-> t.lease, owner |-> t.owner,
                              surface |-> t.surface, visible |-> t.visible]
    BY <1>1 DEF LeaseInv, Leased
  <2> QED BY <1>2 DEF LeaseInv, Leased
<1>5. LeaseIsLive'
  BY <1>1, <1>2 DEF LeaseInv, LeaseIsLive
<1>6. SeenIsOpen'
  <2> SUFFICES ASSUME NEW t \in T, t.visible PROVE t.lease \in open'
    BY <1>1 DEF SeenIsOpen
  <2>1. PICK d \in leases :
           /\ t.lease = d.lease /\ t.owner = d.owner
           /\ t.visible = (IF d.owner = r THEN visible ELSE d.visible)
    BY <1>2
  <2>2. t \in VisibleOwners(T, t.lease)
    BY DEF VisibleOwners
  <2>3. t.lease \notin suspended
    BY <2>2
  <2>4. CASE t.lease \in open
    BY <1>1, <2>3, <2>4
  <2>5. CASE t.lease \notin open
    <3>1. VisibleOwners(leases, t.lease) = {}
      BY <2>5 DEF VisibleOwners, LeaseInv, SeenIsOpen
    <3>2. d.owner = r
      BY <2>1, <2>5 DEF LeaseInv, SeenIsOpen
    <3>3. t.lease \in resumed
      BY <1>3, <2>1, <2>2, <3>1, <3>2
    <3> QED BY <1>1, <3>3
  <2> QED BY <2>4, <2>5
<1> QED BY <1>4, <1>5, <1>6 DEF LeaseInv

\* A visible runtime has its wire, and it is the one of its last attach,
\* whatever shares it: a release, a hidden tab or a change of view never closes
\* a wire that another visible runtime needs.
THEOREM VisibleRuntimesAreServed == Spec => []VisibleHasWire
<1>1. Init => LeaseInv
  BY DEF Init, LeaseInv, Leased, LeaseIsLive, SeenIsOpen
<1>2. LeaseInv /\ [Next]_vars => LeaseInv'
  <2> SUFFICES ASSUME LeaseInv, [Next]_vars PROVE LeaseInv'
    OBVIOUS
  <2>1. CASE \E r \in Runtimes, visible \in BOOLEAN : SetVisibility(r, visible)
    BY <2>1, VisibilityStep
  <2>2. CASE \E r \in Runtimes, visible \in BOOLEAN, v \in Views : Attach(r, v, visible)
    BY <2>2, AttachStep
  <2>3. CASE \E r \in Runtimes : Release(r)
    BY <2>3, ReleaseStep
  <2>4. CASE Tick \/ UNCHANGED vars
    <3>1. UNCHANGED <<leases, open, live>>
      BY <2>4 DEF Tick, vars
    <3> QED BY <3>1 DEF LeaseInv, Leased, LeaseIsLive, SeenIsOpen
  <2> QED BY <2>1, <2>2, <2>3, <2>4 DEF Next
<1>3. LeaseInv => VisibleHasWire
  BY DEF LeaseInv, LeaseIsLive, SeenIsOpen, VisibleHasWire
<1> QED BY <1>1, <1>2, <1>3, PTL DEF Spec

-----------------------------------------------------------------------------
(* Frames *)

Records == [conn : {"idle", "connecting", "open", "error", "closed"}, queue : Seq(Nat),
            attempts : Nat, final : BOOLEAN, eose : SUBSET Subs, closed : SUBSET Subs]

EffectTypes ==
    /\ slot \in [gen : Nat, closed : BOOLEAN]
    /\ clients \in [Gens -> Records]
    /\ timers \in [Gens -> SUBSET Timers]
    /\ asked \in [Gens -> Nat]

\* A generation that is not registered yet has not been used.
NewUntilRegistered == \A g \in Gens : slot.gen < g => clients[g] = NewClient

\* What a live client with these timers relies on: an attempt has its deadline,
\* and frames wait for an attempt or a reconnect only.
Served(c, armed) ==
    /\ ~c.final
    /\ c.conn = "connecting" => "deadline" \in armed
    /\ c.conn = "open" => c.queue = <<>>
    /\ c.queue # <<>> => c.conn = "connecting" \/ "reconnect" \in armed

LiveAreServed == \A g \in Gens : Active(g) => Served(clients[g], timers[g])

FramesInv == EffectTypes /\ NewUntilRegistered /\ LiveAreServed

\* A reduction gives a client and effects.
Reduction(s) ==
    /\ s.client \in Records /\ s.clear \subseteq Timers /\ s.arm \subseteq Timers
    /\ s.drop \in BOOLEAN

\* The client is served with the timers that the effects leave.
Serves(s, armed) == Served(s.client, (armed \ s.clear) \cup s.arm)

LEMMA StepIs ==
  ASSUME NEW c \in Records
  PROVE  /\ Reduction(Step(c)) /\ Step(c).client = c /\ ~Step(c).drop
         /\ \A armed : Served(c, armed) => Serves(Step(c), armed)
<1>1. Step(c) = [client |-> c, clear |-> {}, arm |-> {}, socket |-> "keep",
                 send |-> <<>>, drop |-> FALSE]
  BY DEF Step
<1>2. Reduction(Step(c)) /\ Step(c).client = c /\ ~Step(c).drop
  BY <1>1 DEF Reduction
<1>3. ASSUME NEW armed, Served(c, armed) PROVE Serves(Step(c), armed)
  <2>1. \A k : k \in ((armed \ Step(c).clear) \cup Step(c).arm) <=> k \in armed
    BY <1>1
  <2> QED BY <1>2, <1>3, <2>1 DEF Serves, Served
<1> QED BY <1>2, <1>3

\* An attempt takes its deadline with it.
LEMMA ConnectServes ==
  ASSUME NEW c \in Records
  PROVE  /\ Reduction(StartConnect(c)) /\ ~StartConnect(c).drop
         /\ \A armed : ~c.final => Serves(StartConnect(c), armed)
<1> DEFINE d == [c EXCEPT !.conn = "connecting"]
           s == StartConnect(c)
<1>1. /\ d \in Records /\ d.conn = "connecting" /\ d.queue = c.queue /\ d.final = c.final
  BY DEF Records
<1>2. /\ s.client = d /\ s.clear = {"reconnect"} /\ s.arm = {"deadline"} /\ s.drop = FALSE
  BY DEF StartConnect, Step
<1> HIDE DEF d, s
<1>3. Reduction(s) /\ ~s.drop
  BY <1>1, <1>2 DEF Reduction, Timers
<1>4. ASSUME NEW armed, ~c.final PROVE Serves(s, armed)
  BY <1>1, <1>2, <1>4 DEF Serves, Served
<1> QED BY <1>3, <1>4 DEF s

LEMMA DelayIsNatural == ASSUME NEW n \in Nat PROVE ReconnectDelay(n + 1) \in Nat
<1> DEFINE S == {n + 1, MaxDelay}
<1>1. \E x \in S : \A y \in S : x <= y
  BY DEF MaxDelay
<1>2. Min(S) \in S
  BY <1>1 DEF Min
<1> QED BY <1>2 DEF ReconnectDelay, MaxDelay

\* What a failed attempt or a lost socket does before it is scheduled again.
Failures == [client : Records, clear : SUBSET Timers, arm : SUBSET Timers,
             socket : {"keep", "close"}, send : {<<>>}, drop : {FALSE}]

\* A failed attempt leaves frames to a reconnect.
LEMMA ScheduleServes ==
  ASSUME NEW s \in Failures, s.client.conn \in {"error", "closed"}
  PROVE  /\ Reduction(ScheduleReconnectIfNeeded(s)) /\ ~ScheduleReconnectIfNeeded(s).drop
         /\ \A armed : ~s.client.final => Serves(ScheduleReconnectIfNeeded(s), armed)
<1>0. Reduction(s) /\ ~s.drop /\ s.client \in Records
  BY DEF Reduction, Failures
<1> DEFINE t == ScheduleReconnectIfNeeded(s)
           c == s.client
           d == [c EXCEPT !.attempts = ReconnectDelay(c.attempts + 1)]
<1>1. CASE c.queue = <<>>
  <2>1. t = s
    BY <1>1 DEF ScheduleReconnectIfNeeded
  <2> QED BY <1>0, <1>1, <2>1 DEF Serves, Served
<1>2. CASE c.queue # <<>>
  <2>1. /\ t.client = d /\ t.arm = s.arm \cup {"reconnect"} /\ t.clear = s.clear
        /\ t.drop = s.drop
    BY <1>2 DEF ScheduleReconnectIfNeeded, Failures
  <2>2. /\ d \in Records /\ d.conn = c.conn /\ d.queue = c.queue /\ d.final = c.final
    BY <1>0, DelayIsNatural DEF Records
  <2> HIDE DEF t, c, d
  <2>3. Reduction(t) /\ ~t.drop
    BY <1>0, <2>1, <2>2 DEF Reduction, Timers
  <2>4. ASSUME NEW armed, ~c.final PROVE Serves(t, armed)
    BY <2>1, <2>2, <2>4 DEF Serves, Served, c
  <2> QED BY <2>3, <2>4 DEF t, c
<1> QED BY <1>1, <1>2

\* What the host asks of a client that is served, except to close it.
LEMMA RequestsServe ==
  ASSUME NEW c \in Records, NEW f \in Nat,
         NEW s \in {ConnectRequested(c), SendRequested(c, f)}
  PROVE  Reduction(s) /\ \A armed : Served(c, armed) => Serves(s, armed)
<1>1. CASE s = Step(c) \/ (s = StartConnect(c) /\ ~c.final)
  BY <1>1, StepIs, ConnectServes
<1>2. CASE s = ConnectRequested(c)
  BY <1>1, <1>2 DEF ConnectRequested
<1>3. CASE s = SendRequested(c, f)
  <2>1. CASE c.final
    BY <1>1, <1>3, <2>1 DEF SendRequested
  <2>2. CASE ~c.final /\ c.conn = "open"
    <3>1. s = [Step(c) EXCEPT !.send = <<f>>]
      BY <1>3, <2>2 DEF SendRequested
    <3>2. /\ s.client = Step(c).client /\ s.clear = Step(c).clear /\ s.arm = Step(c).arm
          /\ s.drop = Step(c).drop
      BY <3>1 DEF Step
    <3> QED BY <3>2, StepIs DEF Reduction, Serves
  <2>3. CASE ~c.final /\ c.conn # "open"
    <3> DEFINE d == [c EXCEPT !.queue = Append(c.queue, f)]
    <3>0. Append(c.queue, f) \in Seq(Nat)
      BY DEF Records
    <3>1. /\ d \in Records /\ d.conn = c.conn /\ d.final = c.final
      BY <3>0 DEF Records
    <3>2. s = IF Len(c.queue) >= MaxQueue THEN Step(c)
              ELSE IF c.conn = "connecting" THEN Step(d) ELSE StartConnect(d)
      BY <1>3, <2>3 DEF SendRequested
    <3>3. CASE s = Step(c)
      BY <1>1, <3>3
    <3>4. CASE s = Step(d) /\ c.conn = "connecting"
      <4>1. \A armed : Served(c, armed) => Served(d, armed)
        BY <3>1, <3>4 DEF Served
      <4> HIDE DEF d
      <4> QED BY <3>1, <3>4, <4>1, StepIs
    <3>5. CASE s = StartConnect(d)
      <4> HIDE DEF d
      <4> QED BY <2>3, <3>1, <3>5, ConnectServes
    <3> QED BY <3>2, <3>3, <3>4, <3>5
  <2> QED BY <2>1, <2>2, <2>3
<1> QED BY <1>2, <1>3

LEMMA CloseDrops ==
  ASSUME NEW c \in Records
  PROVE  Reduction(FinalClose(c)) /\ (~c.final => FinalClose(c).drop)
<1>1. CASE c.final
  BY <1>1, StepIs DEF FinalClose
<1>2. CASE ~c.final
  <2> DEFINE d == [c EXCEPT !.final = TRUE, !.conn = "closed", !.attempts = 0, !.queue = <<>>]
  <2>0. <<>> \in Seq(Nat) /\ 0 \in Nat /\ TRUE \in BOOLEAN
    OBVIOUS
  <2>1. d \in Records
    BY <2>0 DEF Records
  <2> HIDE DEF d
  <2>2. /\ FinalClose(c).client = d /\ FinalClose(c).clear = Timers
        /\ FinalClose(c).arm = {} /\ FinalClose(c).drop = TRUE
    BY <1>2 DEF FinalClose, Step, d
  <2> QED BY <2>1, <2>2 DEF Reduction
<1> QED BY <1>1, <1>2

\* What a socket reports.
LEMMA SocketServes ==
  ASSUME NEW c \in Records, NEW s \in {SocketOpened(c), SocketError(c), SocketClosed(c)}
  PROVE  Reduction(s) /\ \A armed : ~c.final => Serves(s, armed)
<1>1. CASE s = SocketOpened(c)
  <2> DEFINE d == [c EXCEPT !.conn = "open", !.attempts = 0, !.queue = <<>>]
  <2>0. <<>> \in Seq(Nat) /\ 0 \in Nat
    OBVIOUS
  <2>1. d \in Records /\ d.conn = "open" /\ d.queue = <<>> /\ d.final = c.final
    BY <2>0 DEF Records
  <2> HIDE DEF d
  <2>2. s.client = d /\ s.clear = Timers /\ s.arm = {} /\ s.drop = FALSE
    BY <1>1 DEF SocketOpened, Step, d
  <2> QED BY <2>1, <2>2 DEF Reduction, Serves, Served
<1>2. ASSUME NEW conn \in {"error", "closed"},
             s = ScheduleReconnectIfNeeded(
                    [Step([c EXCEPT !.conn = conn]) EXCEPT !.clear = {"deadline"}])
      PROVE  Reduction(s) /\ \A armed : ~c.final => Serves(s, armed)
  <2> DEFINE d == [c EXCEPT !.conn = conn]
             t == [Step(d) EXCEPT !.clear = {"deadline"}]
  <2>1. d \in Records /\ d.conn = conn /\ d.final = c.final
    BY conn \in {"idle", "connecting", "open", "error", "closed"} DEF Records
  <2> HIDE DEF d
  <2>2. Step(d) \in Failures /\ {"deadline"} \in SUBSET Timers
    BY <2>1 DEF Step, Failures, Timers
  <2>3. t.client = d
    BY DEF Step
  <2>4. t \in Failures
    BY <2>2 DEF Failures
  <2> HIDE DEF t
  <2>5. s = ScheduleReconnectIfNeeded(t)
    BY <1>2 DEF t, d
  <2> QED BY <2>1, <2>3, <2>4, <2>5, ScheduleServes
<1>3. CASE s = SocketError(c)
  BY <1>2, <1>3 DEF SocketError
<1>4. CASE s = SocketClosed(c)
  BY <1>2, <1>4 DEF SocketClosed
<1> QED BY <1>1, <1>3, <1>4

\* A timer that fires is armed no more.
LEMMA TimersServe ==
  ASSUME NEW c \in Records
  PROVE  /\ Reduction(ConnectDeadlineElapsed(c)) /\ Reduction(ReconnectTimerElapsed(c))
         /\ \A armed : Served(c, armed) =>
               /\ Serves(ConnectDeadlineElapsed(c), armed \ {"deadline"})
               /\ Serves(ReconnectTimerElapsed(c), armed \ {"reconnect"})
<1>1. /\ Reduction(ConnectDeadlineElapsed(c))
      /\ \A armed : Served(c, armed) => Serves(ConnectDeadlineElapsed(c), armed \ {"deadline"})
  <2> DEFINE s == ConnectDeadlineElapsed(c)
  <2>1. CASE c.conn # "connecting" \/ c.final
    <3>1. s = Step(c)
      BY <2>1 DEF ConnectDeadlineElapsed
    <3>2. \A armed : Served(c, armed) => Served(c, armed \ {"deadline"})
      BY <2>1 DEF Served
    <3> QED BY <3>1, <3>2, StepIs
  <2>2. CASE c.conn = "connecting" /\ ~c.final
    <3> DEFINE d == [c EXCEPT !.conn = "error"]
               t == [Step(d) EXCEPT !.clear = {"deadline"}, !.socket = "close"]
    <3>1. d \in Records /\ d.conn = "error" /\ d.final = c.final
      BY DEF Records
    <3> HIDE DEF d
    <3>2. Step(d) \in Failures /\ {"deadline"} \in SUBSET Timers
      BY <3>1 DEF Step, Failures, Timers
    <3>3. t.client = d
      BY DEF Step
    <3>4. t \in Failures
      BY <3>2 DEF Failures
    <3> HIDE DEF t
    <3>5. s = ScheduleReconnectIfNeeded(t)
      BY <2>2 DEF ConnectDeadlineElapsed, t, d
    <3> HIDE DEF s
    <3> QED BY <2>2, <3>1, <3>3, <3>4, <3>5, ScheduleServes DEF s
  <2> QED BY <2>1, <2>2
<1>2. /\ Reduction(ReconnectTimerElapsed(c))
      /\ \A armed : Served(c, armed) => Serves(ReconnectTimerElapsed(c), armed \ {"reconnect"})
  <2> DEFINE s == ReconnectTimerElapsed(c)
  <2>1. CASE c.final \/ c.queue = <<>>
    <3>1. s.client = c /\ s.clear = {"reconnect"} /\ s.arm = {} /\ s.drop = FALSE
      BY <2>1 DEF ReconnectTimerElapsed, Step
    <3>2. Reduction(s)
      BY <3>1 DEF Reduction, Timers
    <3>3. ASSUME NEW armed, Served(c, armed) PROVE Serves(s, armed \ {"reconnect"})
      BY <2>1, <3>1, <3>3 DEF Serves, Served
    <3> QED BY <3>2, <3>3
  <2>2. CASE ~(c.final \/ c.queue = <<>>)
    BY <2>2, ConnectServes DEF ReconnectTimerElapsed
  <2> QED BY <2>1, <2>2
<1> QED BY <1>1, <1>2

LEMMA RecordsServe ==
  ASSUME NEW c \in Records, NEW id \in Subs,
         NEW s \in {RecordEose(c, id), RecordClosed(c, id)}
  PROVE  Reduction(s) /\ \A armed : Served(c, armed) => Serves(s, armed)
<1>1. PICK d \in Records : /\ s = Step(d) /\ d.conn = c.conn /\ d.queue = c.queue
                           /\ d.final = c.final
  <2>1. CASE s = RecordEose(c, id)
    <3>1. s = Step([c EXCEPT !.eose = c.eose \cup {id}])
      BY <2>1 DEF RecordEose
    <3>2. c.eose \cup {id} \in SUBSET Subs
      BY DEF Records
    <3> QED BY <3>1, <3>2 DEF Records
  <2>2. CASE s = RecordClosed(c, id)
    <3>1. s = Step([c EXCEPT !.closed = Pruned(c.closed) \cup {id}])
      BY <2>2 DEF RecordClosed
    <3>2. Pruned(c.closed) \cup {id} \in SUBSET Subs
      BY DEF Records, Pruned
    <3> QED BY <3>1, <3>2 DEF Records
  <2> QED BY <2>1, <2>2
<1>2. \A armed : Served(c, armed) => Served(d, armed)
  BY <1>1 DEF Served
<1> QED BY <1>1, <1>2, StepIs

\* A request reaches the owner's client; the last one closes the slot.
LEMMA AppliedFramesInv ==
  ASSUME FramesInv, NEW g \in Gens, Registered(g), NEW s, Reduction(s),
         Active(g) => s.drop \/ Serves(s, timers[g]),
         ApplyEffects(g, s), asked' \in [Gens -> Nat]
  PROVE  FramesInv'
<1>1. CASE Active(g)
  <2>1. /\ slot' = [gen |-> g, closed |-> s.drop]
        /\ clients' = [clients EXCEPT ![g] = s.client]
        /\ timers' = [timers EXCEPT ![g] = (timers[g] \ s.clear) \cup s.arm]
    BY <1>1 DEF ApplyEffects, Active
  <2>2. g \in Nat /\ slot.gen = g
    BY <1>1 DEF Active, Gens
  <2>3. EffectTypes'
    BY <2>1, <2>2 DEF FramesInv, EffectTypes, Reduction
  <2>4. NewUntilRegistered'
    BY <2>1, <2>2 DEF FramesInv, EffectTypes, NewUntilRegistered, Gens
  <2>5. ASSUME NEW h \in Gens, Active(h)' PROVE Served(clients'[h], timers'[h])
    <3>1. h = g /\ ~s.drop
      BY <2>1, <2>5 DEF Active, Reduction
    <3>2. clients'[h] = s.client /\ timers'[h] = (timers[g] \ s.clear) \cup s.arm
      BY <2>1, <3>1 DEF FramesInv, EffectTypes
    <3> QED BY <1>1, <3>1, <3>2 DEF Serves
  <2> QED BY <2>3, <2>4, <2>5 DEF FramesInv, LiveAreServed
<1>2. CASE ~Active(g)
  <2>1. /\ clients' = [clients EXCEPT ![g] = s.client]
        /\ slot' = slot /\ timers' = timers
    BY <1>2 DEF ApplyEffects
  <2>2. EffectTypes'
    BY <2>1 DEF FramesInv, EffectTypes, Reduction
  <2>3. NewUntilRegistered'
    BY <2>1 DEF FramesInv, EffectTypes, NewUntilRegistered, Registered, Gens
  <2>4. ASSUME NEW h \in Gens, Active(h)' PROVE Served(clients'[h], timers'[h])
    <3>1. Active(h) /\ h # g
      BY <1>2, <2>1, <2>4 DEF Active
    <3> QED BY <2>1, <3>1 DEF FramesInv, EffectTypes, LiveAreServed
  <2> QED BY <2>2, <2>3, <2>4 DEF FramesInv, LiveAreServed
<1> QED BY <1>1, <1>2

\* The browser reports to a client; an owner that was replaced hears nothing.
LEMMA ReportedFramesInv ==
  ASSUME FramesInv, NEW g \in Gens, NEW s, Reduction(s), NEW sockets,
         NEW armed \in SUBSET Timers, Active(g) => Serves(s, armed),
         Report(g, s, sockets, armed)
  PROVE  FramesInv'
<1>1. slot' = slot /\ asked' = asked
  BY DEF Report
<1>2. CASE Active(g)
  <2>1. /\ clients' = [clients EXCEPT ![g] = s.client]
        /\ timers' = [timers EXCEPT ![g] = (armed \ s.clear) \cup s.arm]
    BY <1>2 DEF Report
  <2>2. g \in Nat /\ slot.gen = g
    BY <1>2 DEF Active, Gens
  <2>3. EffectTypes'
    BY <1>1, <2>1 DEF FramesInv, EffectTypes, Reduction
  <2>4. NewUntilRegistered'
    BY <1>1, <2>1, <2>2 DEF FramesInv, EffectTypes, NewUntilRegistered, Gens
  <2>5. ASSUME NEW h \in Gens, Active(h)' PROVE Served(clients'[h], timers'[h])
    <3>1. h = g
      BY <1>1, <1>2, <2>5 DEF Active
    <3>2. clients'[h] = s.client /\ timers'[h] = (armed \ s.clear) \cup s.arm
      BY <2>1, <3>1 DEF FramesInv, EffectTypes
    <3> QED BY <1>2, <3>2 DEF Serves
  <2> QED BY <2>3, <2>4, <2>5 DEF FramesInv, LiveAreServed
<1>3. CASE ~Active(g)
  <2>1. clients' = clients /\ timers' = [timers EXCEPT ![g] = armed]
    BY <1>3 DEF Report
  <2>2. EffectTypes' /\ NewUntilRegistered'
    BY <1>1, <2>1 DEF FramesInv, EffectTypes, NewUntilRegistered
  <2>3. ASSUME NEW h \in Gens, Active(h)' PROVE Served(clients'[h], timers'[h])
    <3>1. Active(h) /\ h # g
      BY <1>1, <1>3, <2>3 DEF Active
    <3> QED BY <2>1, <3>1 DEF FramesInv, EffectTypes, LiveAreServed
  <2> QED BY <2>2, <2>3 DEF FramesInv, LiveAreServed
<1> QED BY <1>2, <1>3

LEMMA RegisterFramesInv == ASSUME FramesInv, RegisterOwner PROVE FramesInv'
<1>1. /\ slot' = [gen |-> slot.gen + 1, closed |-> FALSE]
      /\ UNCHANGED <<clients, timers, asked>> /\ slot.gen \in Nat
  BY DEF RegisterOwner, FramesInv, EffectTypes
<1>2. EffectTypes'
  BY <1>1 DEF FramesInv, EffectTypes
<1>3. NewUntilRegistered'
  BY <1>1 DEF FramesInv, NewUntilRegistered, Gens
<1>4. ASSUME NEW g \in Gens, Active(g)' PROVE Served(clients'[g], timers'[g])
  <2>1. slot.gen < g
    BY <1>1, <1>4 DEF Active
  <2>2. clients'[g] = NewClient
    BY <1>1, <2>1 DEF FramesInv, NewUntilRegistered
  <2> QED BY <2>2 DEF Served, NewClient
<1> QED BY <1>2, <1>3, <1>4 DEF FramesInv, LiveAreServed

\* What a host asks of a client.
LEMMA RequestedFramesInv ==
  ASSUME FramesInv, NEW g \in Gens, Connect(g) \/ Send(g) \/ Close(g)
  PROVE  FramesInv'
<1>1. /\ Registered(g) /\ clients[g] \in Records /\ asked[g] + 1 \in Nat
      /\ asked' \in [Gens -> Nat]
  BY DEF Connect, Send, Close, FramesInv, EffectTypes
<1>2. Active(g) => Served(clients[g], timers[g])
  BY DEF FramesInv, LiveAreServed
<1>3. CASE Connect(g)
  <2> DEFINE s == ConnectRequested(clients[g])
  <2>1. Reduction(s) /\ (Active(g) => Serves(s, timers[g]))
    BY <1>1, <1>2, RequestsServe
  <2>2. ApplyEffects(g, s)
    BY <1>3 DEF Connect
  <2> HIDE DEF s
  <2> QED BY <1>1, <2>1, <2>2, AppliedFramesInv
<1>4. CASE Send(g)
  <2> DEFINE s == SendRequested(clients[g], asked[g] + 1)
  <2>1. Reduction(s) /\ (Active(g) => Serves(s, timers[g]))
    BY <1>1, <1>2, RequestsServe
  <2>2. ApplyEffects(g, s)
    BY <1>4 DEF Send
  <2> HIDE DEF s
  <2> QED BY <1>1, <2>1, <2>2, AppliedFramesInv
<1>5. CASE Close(g)
  <2> DEFINE s == FinalClose(clients[g])
  <2>1. Reduction(s) /\ (Active(g) => s.drop)
    BY <1>1, <1>2, CloseDrops DEF Served
  <2>2. ApplyEffects(g, s)
    BY <1>5 DEF Close
  <2> HIDE DEF s
  <2> QED BY <1>1, <2>1, <2>2, AppliedFramesInv
<1> QED BY <1>3, <1>4, <1>5

\* What a socket or a timer reports.
LEMMA BrowserFramesInv ==
  ASSUME FramesInv, NEW g \in Gens,
         \/ SocketOpens(g) \/ SocketBreaks(g) \/ NonText(g) \/ SocketCloses(g) \/ Message(g)
         \/ \E k \in Timers : TimerFires(g, k)
  PROVE  FramesInv'
<1>1. clients[g] \in Records /\ timers[g] \in SUBSET Timers
  BY DEF FramesInv, EffectTypes
<1>2. Active(g) => Served(clients[g], timers[g])
  BY DEF FramesInv, LiveAreServed
<1>3. ASSUME NEW s \in {SocketOpened(clients[g]), SocketError(clients[g]),
                        SocketClosed(clients[g])},
             NEW sockets, Report(g, s, sockets, timers[g])
      PROVE  FramesInv'
  <2>1. Reduction(s) /\ (Active(g) => Serves(s, timers[g]))
    BY <1>1, <1>2, SocketServes DEF Served
  <2> QED BY <1>1, <1>3, <2>1, ReportedFramesInv
<1>4. CASE SocketOpens(g) \/ SocketBreaks(g) \/ NonText(g) \/ SocketCloses(g)
  BY <1>3, <1>4 DEF SocketOpens, SocketBreaks, NonText, SocketCloses
<1>5. CASE Message(g)
  <2>1. PICK id \in Subs : \E s \in {RecordEose(clients[g], id), RecordClosed(clients[g], id)} :
           Report(g, s, "open", timers[g])
    BY <1>5 DEF Message
  <2>2. PICK s \in {RecordEose(clients[g], id), RecordClosed(clients[g], id)} :
           Report(g, s, "open", timers[g])
    BY <2>1
  <2>3. Reduction(s) /\ (Active(g) => Serves(s, timers[g]))
    BY <1>1, <1>2, RecordsServe
  <2> QED BY <1>1, <2>2, <2>3, ReportedFramesInv
<1>6. ASSUME NEW k \in Timers, TimerFires(g, k) PROVE FramesInv'
  <2> DEFINE s == IF k = "deadline" THEN ConnectDeadlineElapsed(clients[g])
                  ELSE ReconnectTimerElapsed(clients[g])
             armed == timers[g] \ {k}
  <2>1. Reduction(s) /\ (Active(g) => Serves(s, armed)) /\ armed \in SUBSET Timers
    BY <1>1, <1>2, TimersServe DEF Timers
  <2>2. Report(g, s, socket[g], armed)
    BY <1>6 DEF TimerFires
  <2> HIDE DEF s, armed
  <2> QED BY <2>1, <2>2, ReportedFramesInv
<1> QED BY <1>4, <1>5, <1>6

\* A frame in the queue of a live client waits for an attempt with a deadline or
\* for a reconnect, whatever order errors, closes, timers and new frames take.
THEOREM FramesAreNotStranded == EffectsSpec => []NoStrandedFrames
<1>1. EffectsInit => FramesInv
  <2> SUFFICES ASSUME EffectsInit PROVE FramesInv
    OBVIOUS
  <2>1. NewClient \in Records
    <3>1. <<>> \in Seq(Nat) /\ 0 \in Nat
      OBVIOUS
    <3> QED BY <3>1 DEF NewClient, Records
  <2>2. EffectTypes
    BY <2>1 DEF EffectsInit, EffectTypes
  <2> QED BY <2>2 DEF EffectsInit, FramesInv, NewUntilRegistered, LiveAreServed, Active, Gens
<1>2. FramesInv /\ [EffectsNext]_effectVars => FramesInv'
  <2> SUFFICES ASSUME FramesInv, [EffectsNext]_effectVars PROVE FramesInv'
    OBVIOUS
  <2>1. CASE RegisterOwner
    BY <2>1, RegisterFramesInv
  <2>2. ASSUME NEW g \in Gens, Connect(g) \/ Send(g) \/ Close(g) PROVE FramesInv'
    BY <2>2, RequestedFramesInv
  <2>3. ASSUME NEW g \in Gens,
               \/ SocketOpens(g) \/ SocketBreaks(g) \/ NonText(g) \/ SocketCloses(g)
               \/ Message(g) \/ \E k \in Timers : TimerFires(g, k)
        PROVE FramesInv'
    BY <2>3, BrowserFramesInv
  <2>4. CASE UNCHANGED effectVars
    BY <2>4 DEF effectVars, FramesInv, EffectTypes, NewUntilRegistered, LiveAreServed, Active
  <2> QED BY <2>1, <2>2, <2>3, <2>4 DEF EffectsNext
<1>3. FramesInv => NoStrandedFrames
  BY DEF FramesInv, LiveAreServed, Served, NoStrandedFrames
<1> QED BY <1>1, <1>2, <1>3, PTL DEF EffectsSpec

-----------------------------------------------------------------------------
(* Shared reads *)

\* What the key of a read says of its answer.
AnsweredBy(k) == [groups |-> k[2], bounds |-> k[1][5], page |-> k[1][4], purpose |-> k[1][7]]

FlightFields == {"key", "asks", "intent", "owners", "aborted"}

FlightsAnswerTheirKeys ==
    \A f \in flights : DOMAIN f = FlightFields /\ f.asks = AnsweredBy(f.key)

JoinedAreCarried ==
    \A j \in joined : /\ j.asks = AnsweredBy(j.key)
                      /\ \E f \in flights : f.key = j.key /\ j.owner \in f.owners

SharedInv == FlightsAnswerTheirKeys /\ JoinedAreCarried

\* Equal keys stand for equal questions, whatever the routes are by now.
LEMMA KeyTellsAsks == ASSUME NEW i PROVE Asks(i) = AnsweredBy(SemanticKey(i))
BY DEF Asks, AnsweredBy, SemanticKey, KeyWithoutRoutes

LEMMA AttachReadSharedInv ==
  ASSUME SharedInv, NEW o, NEW i, AttachRead(o, i) PROVE SharedInv'
<1> DEFINE k    == SemanticKey(i)
           mine == [owner |-> o, key |-> k, asks |-> Asks(i)]
           held == {f \in flights : f.key = k}
           base == IF held = {} THEN {Flight(k, i)} ELSE held
<1>1. flights' = (flights \ held) \cup {Joined(f, o) : f \in base}
  BY DEF AttachRead
<1>2. joined' = joined \cup {mine}
  BY DEF AttachRead
<1>3. Asks(i) = AnsweredBy(k)
  BY KeyTellsAsks
<1>4. /\ DOMAIN Flight(k, i) = FlightFields /\ Flight(k, i).key = k
      /\ Flight(k, i).asks = Asks(i)
  BY DEF Flight, FlightFields
<1>5. mine.owner = o /\ mine.key = k /\ mine.asks = Asks(i)
  OBVIOUS
<1> HIDE DEF k, mine
<1>6. \A f \in base : DOMAIN f = FlightFields /\ f.key = k /\ f.asks = AnsweredBy(k)
  BY <1>3, <1>4 DEF SharedInv, FlightsAnswerTheirKeys
<1>7. ASSUME NEW f \in base
      PROVE  LET g == Joined(f, o) IN
             /\ g \in flights' /\ DOMAIN g = FlightFields /\ g.key = k
             /\ g.asks = AnsweredBy(k) /\ g.owners = f.owners \cup {o}
  <2>1. Joined(f, o) \in flights'
    BY <1>1
  <2>2. /\ DOMAIN Joined(f, o) = FlightFields /\ Joined(f, o).key = f.key
        /\ Joined(f, o).asks = f.asks /\ Joined(f, o).owners = f.owners \cup {o}
    BY <1>6 DEF Joined, FlightFields
  <2> QED BY <1>6, <2>1, <2>2
<1>8. base # {}
  OBVIOUS
<1>9. \A f \in flights \ held : f.key # k /\ f \in flights'
  BY <1>1
<1>10. held # {} => base = held
  OBVIOUS
<1>11. \A f \in held : f \in flights /\ f.key = k
  OBVIOUS
<1>12. \A f \in flights : f \in held \/ f \in flights \ held
  OBVIOUS
<1> HIDE DEF base
<1>13. FlightsAnswerTheirKeys'
  <2> SUFFICES ASSUME NEW g \in flights' PROVE DOMAIN g = FlightFields /\ g.asks = AnsweredBy(g.key)
    BY DEF FlightsAnswerTheirKeys
  <2>1. g \in flights \/ \E f \in base : g = Joined(f, o)
    BY <1>1
  <2> QED BY <1>7, <2>1 DEF SharedInv, FlightsAnswerTheirKeys
<1> HIDE DEF held
<1>14. ASSUME NEW j \in joined'
       PROVE  /\ j.asks = AnsweredBy(j.key)
              /\ \E f \in flights' : f.key = j.key /\ j.owner \in f.owners
  <2>1. CASE j = mine
    <3>1. PICK f \in base : TRUE
      BY <1>8
    <3> QED BY <1>3, <1>5, <1>7, <2>1, <3>1
  <2>2. CASE j \in joined
    <3>1. PICK f \in flights : f.key = j.key /\ j.owner \in f.owners
      BY <2>2 DEF SharedInv, JoinedAreCarried
    <3>2. j.asks = AnsweredBy(j.key)
      BY <2>2 DEF SharedInv, JoinedAreCarried
    <3>3. CASE f \in held
      <4>1. f \in base /\ f.key = k
        BY <1>10, <1>11, <3>3
      <4> QED BY <1>7, <3>1, <3>2, <4>1
    <3>4. CASE f \in flights \ held
      BY <1>9, <3>1, <3>2, <3>4
    <3> QED BY <1>12, <3>3, <3>4
  <2> QED BY <1>2, <1>14, <2>1, <2>2
<1> QED BY <1>13, <1>14 DEF SharedInv, JoinedAreCarried

LEMMA AbortSharedInv ==
  ASSUME SharedInv, NEW f \in flights, Abort(f) PROVE SharedInv'
<1> DEFINE g == [f EXCEPT !.aborted = TRUE]
<1>1. flights' = (flights \ {f}) \cup {g} /\ joined' = joined
  BY DEF Abort
<1>2. /\ DOMAIN g = FlightFields /\ g.key = f.key /\ g.asks = f.asks
      /\ g.owners = f.owners
  BY DEF SharedInv, FlightsAnswerTheirKeys, FlightFields
<1> HIDE DEF g
<1> QED BY <1>1, <1>2 DEF SharedInv, FlightsAnswerTheirKeys, JoinedAreCarried

\* The owners of a read leave with it.
LEMMA SettleSharedInv ==
  ASSUME SharedInv, NEW f \in flights, NEW seen, Settle(f, seen) PROVE SharedInv'
<1>1. flights' = flights \ {f} /\ joined' = {j \in joined : j.key # f.key}
  BY DEF Settle
<1> QED BY <1>1 DEF SharedInv, FlightsAnswerTheirKeys, JoinedAreCarried

\* An owner that shares a read is answered what it asked for, though routes were
\* learned and relays disabled since the read began: the key tells the plan.
THEOREM SharedReadsAreOwn == ReadsSpec => []SharedReadIsOwn
<1>1. ReadsInit => SharedInv
  BY DEF ReadsInit, SharedInv, FlightsAnswerTheirKeys, JoinedAreCarried
<1>2. SharedInv /\ [ReadsNext]_readVars => SharedInv'
  <2> SUFFICES ASSUME SharedInv, [ReadsNext]_readVars PROVE SharedInv'
    OBVIOUS
  <2>1. ASSUME NEW o \in Owners, NEW i \in Intents, AttachRead(o, i) PROVE SharedInv'
    BY <2>1, AttachReadSharedInv
  <2>2. ASSUME NEW f \in flights, Abort(f) PROVE SharedInv'
    BY <2>2, AbortSharedInv
  <2>3. ASSUME NEW f \in flights, NEW seen, Settle(f, seen) PROVE SharedInv'
    BY <2>3, SettleSharedInv
  <2>4. CASE CloseReads
    BY <2>4 DEF CloseReads, SharedInv, FlightsAnswerTheirKeys, JoinedAreCarried
  <2>5. CASE \/ \E r \in RoutePool : Learn(r)
             \/ \E u \in Blockable : SetDisabled(u)
             \/ TimePasses \/ UNCHANGED readVars
    <3>1. UNCHANGED <<flights, joined>>
      BY <2>5 DEF Learn, SetDisabled, TimePasses, readVars
    <3> QED BY <3>1 DEF SharedInv, FlightsAnswerTheirKeys, JoinedAreCarried
  <2> QED BY <2>1, <2>2, <2>3, <2>4, <2>5 DEF ReadsNext
<1>3. SharedInv => SharedReadIsOwn
  BY DEF SharedInv, FlightsAnswerTheirKeys, JoinedAreCarried, SharedReadIsOwn
<1> QED BY <1>1, <1>2, <1>3, PTL DEF ReadsSpec

-----------------------------------------------------------------------------
(* Windows of a scan *)

Segments == [since : Int, until : Int]

Left(todo)  == UNION {SecondsOf(todo[i]) : i \in DOMAIN todo}
Apart(todo) == \A i, j \in DOMAIN todo :
                   i # j => SecondsOf(todo[i]) \cap SecondsOf(todo[j]) = {}

ScanRecords == [window : SUBSET Int, todo : Seq(Segments), done : SUBSET Int,
                unresolved : SUBSET Int, broken : SUBSET Int]

Accounted(scan) ==
    /\ scan \in ScanRecords
    /\ scan.window = scan.done \cup scan.unresolved \cup scan.broken \cup Left(scan.todo)
    /\ Left(scan.todo) \cap scan.done = {}
    /\ Apart(scan.todo)

\* The widths the models remember are whole seconds, so every segment a scan
\* plans or halves is a range of them.
ModelsMeasure == \A m \in models : "last" \in DOMAIN m /\ m.last \in Int

ScansAccount ==
    /\ DOMAIN scans = Contexts
    /\ \A c \in Contexts : scans[c] = <<>> \/ \E scan : scans[c] = <<scan>> /\ Accounted(scan)

ScanInv == ModelsMeasure /\ ScansAccount

\* Every second of a segment that is halved is in one of the halves.
LEMMA HalvesPartition ==
  ASSUME NEW s \in Segments, NEW dir, CanSplit(s)
  PROVE  \E a, b \in Segments :
            /\ Split(s, dir) = <<a, b>>
            /\ SecondsOf(a) \cup SecondsOf(b) = SecondsOf(s)
            /\ SecondsOf(a) \cap SecondsOf(b) = {}
<1> DEFINE mid == s.since + Span(s) \div 2
           lower == Segment(s.since, mid)
           upper == Segment(mid, s.until)
<1>1. s.since \in Int /\ s.until \in Int /\ s.until > s.since + 1
  BY DEF Segments, CanSplit
<1>2. Span(s) = s.until - s.since
  BY <1>1 DEF Span, MaxOf
<1>3. mid \in Int /\ s.since <= mid /\ mid <= s.until
  BY <1>1, <1>2
<1>4. /\ lower \in Segments /\ upper \in Segments
      /\ lower.since = s.since /\ lower.until = mid
      /\ upper.since = mid /\ upper.until = s.until
  BY <1>1, <1>3 DEF Segment, Segments
<1>5. Split(s, dir) = IF dir = "older" THEN <<upper, lower>> ELSE <<lower, upper>>
  BY DEF Split
<1> HIDE DEF mid, lower, upper
<1>6. /\ SecondsOf(lower) \cup SecondsOf(upper) = SecondsOf(s)
      /\ SecondsOf(lower) \cap SecondsOf(upper) = {}
  BY <1>1, <1>3, <1>4 DEF SecondsOf
<1> QED BY <1>4, <1>5, <1>6

\* The first segment is taken off; the rest stays apart from it.
LEMMA TakeFirst ==
  ASSUME NEW t \in Seq(Segments), t # <<>>, Apart(t)
  PROVE  /\ Head(t) \in Segments /\ Tail(t) \in Seq(Segments)
         /\ Left(t) = SecondsOf(Head(t)) \cup Left(Tail(t))
         /\ Apart(Tail(t)) /\ SecondsOf(Head(t)) \cap Left(Tail(t)) = {}
<1>1. /\ Head(t) \in Segments /\ Tail(t) \in Seq(Segments) /\ Len(t) \in Nat \ {0}
      /\ Head(t) = t[1] /\ Len(Tail(t)) = Len(t) - 1
      /\ DOMAIN t = 1..Len(t) /\ DOMAIN Tail(t) = 1..(Len(t) - 1)
      /\ \A i \in 1..(Len(t) - 1) : Tail(t)[i] = t[i + 1]
  OBVIOUS
<1>2. \A i \in DOMAIN t : i = 1 \/ (i - 1 \in DOMAIN Tail(t) /\ t[i] = Tail(t)[i - 1])
  BY <1>1
<1>3. \A i \in DOMAIN Tail(t) : i + 1 \in DOMAIN t /\ i + 1 # 1 /\ Tail(t)[i] = t[i + 1]
  BY <1>1
<1>4. 1 \in DOMAIN t
  BY <1>1
<1>5. Left(t) = SecondsOf(Head(t)) \cup Left(Tail(t))
  <2>1. Left(t) \subseteq SecondsOf(Head(t)) \cup Left(Tail(t))
    BY <1>1, <1>2 DEF Left
  <2>2. SecondsOf(Head(t)) \cup Left(Tail(t)) \subseteq Left(t)
    BY <1>1, <1>3, <1>4 DEF Left
  <2> QED BY <2>1, <2>2
<1>6. Apart(Tail(t))
  <2> SUFFICES ASSUME NEW i \in DOMAIN Tail(t), NEW j \in DOMAIN Tail(t), i # j
               PROVE  SecondsOf(Tail(t)[i]) \cap SecondsOf(Tail(t)[j]) = {}
    BY DEF Apart
  <2>1. i \in Nat /\ j \in Nat /\ i + 1 # j + 1
    BY <1>1
  <2> QED BY <1>3, <2>1 DEF Apart
<1>7. SecondsOf(Head(t)) \cap Left(Tail(t)) = {}
  <2> SUFFICES ASSUME NEW i \in DOMAIN Tail(t)
               PROVE  SecondsOf(Head(t)) \cap SecondsOf(Tail(t)[i]) = {}
    BY DEF Left
  <2> QED BY <1>1, <1>3, <1>4 DEF Apart
<1> QED BY <1>1, <1>5, <1>6, <1>7

\* Two halves are put back in front of the rest.
LEMMA PutTwo ==
  ASSUME NEW a \in Segments, NEW b \in Segments, NEW t \in Seq(Segments), Apart(t),
         SecondsOf(a) \cap SecondsOf(b) = {},
         (SecondsOf(a) \cup SecondsOf(b)) \cap Left(t) = {}
  PROVE  /\ <<a, b>> \o t \in Seq(Segments) /\ Apart(<<a, b>> \o t)
         /\ Left(<<a, b>> \o t) = SecondsOf(a) \cup SecondsOf(b) \cup Left(t)
<1> DEFINE u == <<a, b>> \o t
<1>1. /\ u \in Seq(Segments) /\ Len(t) \in Nat
      /\ DOMAIN t = 1..Len(t) /\ DOMAIN u = 1..(Len(t) + 2)
      /\ u[1] = a /\ u[2] = b
      /\ \A i \in 1..Len(t) : u[i + 2] = t[i]
  OBVIOUS
<1> HIDE DEF u
<1>2. \A i \in DOMAIN u : \/ i = 1 /\ u[i] = a
                          \/ i = 2 /\ u[i] = b
                          \/ i - 2 \in DOMAIN t /\ u[i] = t[i - 2]
  <2> TAKE i \in DOMAIN u
  <2>1. CASE i \in {1, 2}
    BY <1>1, <2>1
  <2>2. CASE i \notin {1, 2}
    <3>1. i - 2 \in 1..Len(t) /\ (i - 2) + 2 = i
      BY <1>1, <2>2
    <3> QED BY <1>1, <3>1
  <2> QED BY <2>1, <2>2
<1>3. \A i \in DOMAIN t : i + 2 \in DOMAIN u /\ u[i + 2] = t[i]
  BY <1>1
<1>4. 1 \in DOMAIN u /\ 2 \in DOMAIN u
  BY <1>1
<1>5. Left(u) = SecondsOf(a) \cup SecondsOf(b) \cup Left(t)
  <2>1. Left(u) \subseteq SecondsOf(a) \cup SecondsOf(b) \cup Left(t)
    BY <1>2 DEF Left
  <2>2. SecondsOf(a) \cup SecondsOf(b) \cup Left(t) \subseteq Left(u)
    BY <1>1, <1>3, <1>4 DEF Left
  <2> QED BY <2>1, <2>2
<1>6. \A i \in DOMAIN t : /\ SecondsOf(a) \cap SecondsOf(t[i]) = {}
                          /\ SecondsOf(b) \cap SecondsOf(t[i]) = {}
  BY DEF Left
<1>7. Apart(u)
  <2> SUFFICES ASSUME NEW i \in DOMAIN u, NEW j \in DOMAIN u, i # j
               PROVE  SecondsOf(u[i]) \cap SecondsOf(u[j]) = {}
    BY DEF Apart
  <2>1. CASE i - 2 \in DOMAIN t /\ j - 2 \in DOMAIN t
    <3>1. i - 2 # j - 2 /\ u[i] = t[i - 2] /\ u[j] = t[j - 2]
      BY <1>1, <1>2, <2>1
    <3> QED BY <2>1, <3>1 DEF Apart
  <2>2. CASE ~(i - 2 \in DOMAIN t /\ j - 2 \in DOMAIN t)
    BY <1>2, <1>6, <2>2
  <2> QED BY <2>1, <2>2
<1> QED BY <1>1, <1>5, <1>7 DEF u

\* reduce_scan_observation: the part that was read is done, given up, broken, or
\* back in the queue as two halves.
LEMMA ReduceAccounts ==
  ASSUME NEW scan, Accounted(scan), scan.todo # <<>>, NEW dir,
         NEW feedback \in {"Done", "LimitHit", "Incomplete"}
  PROVE  Accounted(AfterRead(scan, dir, feedback))
<1> DEFINE s    == Head(scan.todo)
           more == FollowUps(s, dir, feedback)
           rest == Tail(scan.todo)
           next == AfterRead(scan, dir, feedback)
<1>1. /\ scan \in ScanRecords /\ scan.todo \in Seq(Segments) /\ Apart(scan.todo)
      /\ scan.done \subseteq Int /\ scan.unresolved \subseteq Int /\ scan.broken \subseteq Int
  BY DEF Accounted, ScanRecords
<1>2. /\ s \in Segments /\ rest \in Seq(Segments)
      /\ Left(scan.todo) = SecondsOf(s) \cup Left(rest)
      /\ Apart(rest) /\ SecondsOf(s) \cap Left(rest) = {}
  BY <1>1, TakeFirst
<1>3. SecondsOf(s) \subseteq Int
  BY <1>2 DEF SecondsOf, Segments
<1>4. /\ scan.window = scan.done \cup scan.unresolved \cup scan.broken
                       \cup SecondsOf(s) \cup Left(rest)
      /\ (SecondsOf(s) \cup Left(rest)) \cap scan.done = {}
  BY <1>2 DEF Accounted
<1>5. /\ next.window = scan.window /\ next.todo = more \o rest
      /\ next.done = IF feedback = "Done" THEN scan.done \cup SecondsOf(s) ELSE scan.done
      /\ next.unresolved = IF feedback = "LimitHit" /\ more = <<>>
                           THEN scan.unresolved \cup SecondsOf(s) ELSE scan.unresolved
      /\ next.broken = IF feedback = "Incomplete" THEN scan.broken \cup SecondsOf(s)
                       ELSE scan.broken
  BY <1>1 DEF ScanRecords, AfterRead
<1>6. more \o rest \in Seq(Segments) => next \in ScanRecords
  BY <1>1, <1>3 DEF ScanRecords, AfterRead
<1> SUFFICES Accounted(next)
  OBVIOUS
<1> HIDE DEF s, more, rest, next
<1>7. CASE feedback = "LimitHit" /\ CanSplit(s)
  <2>1. PICK a, b \in Segments : /\ Split(s, dir) = <<a, b>>
                                 /\ SecondsOf(a) \cup SecondsOf(b) = SecondsOf(s)
                                 /\ SecondsOf(a) \cap SecondsOf(b) = {}
    BY <1>2, <1>7, HalvesPartition
  <2>2. more = <<a, b>>
    BY <1>7, <2>1 DEF FollowUps, more
  <2>3. more # <<>>
    <3>1. Len(more) = 2
      BY <2>2
    <3>2. Len(<<>>) = 0
      OBVIOUS
    <3> QED BY <3>1, <3>2
  <2>4. /\ more \o rest \in Seq(Segments) /\ Apart(more \o rest)
        /\ Left(more \o rest) = SecondsOf(s) \cup Left(rest)
    <3>1. (SecondsOf(a) \cup SecondsOf(b)) \cap Left(rest) = {}
      BY <1>2, <2>1
    <3>2. /\ <<a, b>> \o rest \in Seq(Segments) /\ Apart(<<a, b>> \o rest)
          /\ Left(<<a, b>> \o rest) = SecondsOf(a) \cup SecondsOf(b) \cup Left(rest)
      BY <1>2, <2>1, <3>1, PutTwo
    <3> QED BY <2>1, <2>2, <3>2
  <2>5. /\ next.done = scan.done /\ next.unresolved = scan.unresolved
        /\ next.broken = scan.broken
    BY <1>5, <1>7, <2>3
  <2> QED BY <1>4, <1>5, <1>6, <2>4, <2>5 DEF Accounted
<1>8. CASE ~(feedback = "LimitHit" /\ CanSplit(s))
  <2>1. more = <<>>
    BY <1>8 DEF FollowUps, more
  <2>2. more \o rest = rest
    BY <1>2, <2>1
  <2>3. next \in ScanRecords /\ next.todo = rest
    BY <1>2, <1>5, <1>6, <2>2
  <2>4. next.window = next.done \cup next.unresolved \cup next.broken \cup Left(rest)
    <3>1. CASE feedback = "Done"
      BY <1>4, <1>5, <3>1
    <3>2. CASE feedback = "LimitHit"
      BY <1>4, <1>5, <2>1, <3>2
    <3>3. CASE feedback = "Incomplete"
      BY <1>4, <1>5, <3>3
    <3> QED BY <3>1, <3>2, <3>3
  <2>5. Left(rest) \cap next.done = {}
    BY <1>2, <1>4, <1>5
  <2> QED BY <1>2, <2>3, <2>4, <2>5 DEF Accounted
<1> QED BY <1>7, <1>8

\* A proposed span is a number of seconds.
LEMMA ProposalsAreSpans ==
  ASSUME NEW ms, \A m \in ms : m.last \in Int, NEW hinted,
         NEW span \in Proposals(ms, hinted)
  PROVE  span \in Int
<1>1. PICK n \in (IF Contributing(ms) = {} THEN {NeutralSpan} ELSE MinSpan .. MaxSpan),
           p \in PreviousSpans(ms, hinted) : span = ChangeCapped(n, p)
  BY DEF Proposals
<1>2. n \in Int
  BY <1>1, SpanAssumption
<1>3. p \in Int
  BY <1>1, SpanAssumption DEF PreviousSpans, Contributing
<1>4. p \div ChangeFactor \in Int /\ p * ChangeFactor \in Int
  BY <1>3, SpanAssumption
<1> QED
  BY <1>1, <1>2, <1>4, SpanAssumption DEF ChangeCapped, BoundedSpan, Clamp, MinOf, MaxOf

\* matching_gap_segments: the gaps of one relay do not overlap.
LEMMA GapsAreApart ==
  ASSUME NEW c \in Contexts, NEW gaps \in GapLists(c),
         NEW segments \in GapSegments(c, gaps)
  PROVE  segments \in Seq(Segments) /\ Apart(segments)
<1> DEFINE edge == LastSecond + 1
           mine == {i \in DOMAIN gaps : gaps[i].relay = c.relay /\ ShouldQuery(gaps[i])}
           n    == MinOf(Cardinality(mine), MaxSegments)
<1>1. PICK f \in Positions(mine) :
         segments = [i \in DOMAIN f |-> Segment(gaps[f[i]].since, gaps[f[i]].until)]
  BY DEF GapSegments
<1>2. edge \in Nat \ {0} /\ edge \div 2 \in Nat
  BY SpanAssumption
<1>3. c.relay # "elsewhere"
  BY ContextAssumption
<1> HIDE DEF edge
<1>4. \/ gaps = <<>>
      \/ gaps = <<Gap(0, edge, "elsewhere")>>
      \/ gaps = <<Gap(0, edge \div 2, c.relay), Gap(0, 1, "elsewhere"),
                  Gap(edge \div 2 + 1, edge, c.relay)>>
  BY DEF GapLists, edge
<1>5. \A k \in mine :
         \/ k = 1 /\ gaps[k].since = 0 /\ gaps[k].until = edge \div 2
         \/ k = 3 /\ gaps[k].since = edge \div 2 + 1 /\ gaps[k].until = edge
  <2>1. CASE gaps = <<>>
    BY <2>1
  <2>2. CASE gaps = <<Gap(0, edge, "elsewhere")>>
    <3>1. DOMAIN gaps = {1} /\ gaps[1].relay = "elsewhere"
      BY <2>2 DEF Gap
    <3> QED BY <1>3, <3>1
  <2>3. CASE gaps = <<Gap(0, edge \div 2, c.relay), Gap(0, 1, "elsewhere"),
                      Gap(edge \div 2 + 1, edge, c.relay)>>
    <3>1. DOMAIN gaps = {1, 2, 3} /\ gaps[2].relay = "elsewhere"
      BY <2>3 DEF Gap
    <3>2. /\ gaps[1].since = 0 /\ gaps[1].until = edge \div 2
          /\ gaps[3].since = edge \div 2 + 1 /\ gaps[3].until = edge
      BY <2>3 DEF Gap
    <3>3. mine \subseteq {1, 3}
      BY <1>3, <3>1
    <3> HIDE DEF mine
    <3> QED BY <3>2, <3>3
  <2> QED BY <1>4, <2>1, <2>2, <2>3
<1>6. n \in Nat
  <2>1. IsFiniteSet(mine) /\ Cardinality(mine) \in Nat
    <3> HIDE DEF mine
    <3>1. IsFiniteSet(1..3)
      <4>1. 1 \in Int /\ 3 \in Int
        OBVIOUS
      <4> QED BY <4>1, FS_Interval
    <3>2. mine \subseteq 1..3
      BY <1>5
    <3> QED BY <3>1, <3>2, FS_Subset, FS_CardinalityType
  <2> QED BY <2>1, SpanAssumption DEF MinOf
<1>7. /\ DOMAIN f = 1..n /\ \A i \in 1..n : f[i] \in mine
      /\ \A i, j \in 1..n : i < j => f[i] < f[j]
  BY DEF Positions
<1> HIDE DEF mine, n
<1>8. DOMAIN segments = 1..n
  BY <1>1, <1>7
<1>9. \A i \in 1..n : /\ segments[i].since = gaps[f[i]].since
                      /\ segments[i].until = gaps[f[i]].until
                      /\ segments[i] \in Segments
  <2> TAKE i \in 1..n
  <2>1. segments[i] = Segment(gaps[f[i]].since, gaps[f[i]].until)
    BY <1>1, <1>7
  <2>2. f[i] \in mine
    BY <1>7
  <2>3. gaps[f[i]].since \in Int /\ gaps[f[i]].until \in Int
    BY <1>2, <1>5, <2>2
  <2> QED BY <2>1, <2>3 DEF Segment, Segments
<1>10. segments \in Seq(Segments)
  <2>1. segments = [i \in 1..n |-> segments[i]]
    BY <1>1, <1>7
  <2> QED BY <1>6, <1>9, <2>1
<1>11. Apart(segments)
  <2> SUFFICES ASSUME NEW i \in 1..n, NEW j \in 1..n, i # j
               PROVE  SecondsOf(segments[i]) \cap SecondsOf(segments[j]) = {}
    BY <1>8 DEF Apart
  <2>1. f[i] \in mine /\ f[j] \in mine /\ f[i] # f[j]
    BY <1>5, <1>6, <1>7
  <2>2. (f[i] = 1 \/ f[i] = 3) /\ (f[j] = 1 \/ f[j] = 3)
    BY <1>5, <2>1
  <2> QED BY <1>2, <1>5, <1>9, <2>1, <2>2 DEF SecondsOf
<1> QED BY <1>10, <1>11

LEMMA PlannedAccounts ==
  ASSUME NEW segments \in Seq(Segments), Apart(segments)
  PROVE  \E scan : Planned(segments) = <<scan>> /\ Accounted(scan)
<1> DEFINE window == UNION {SecondsOf(s) : s \in ToSet(segments)}
           scan == [window |-> window, todo |-> segments, done |-> {},
                    unresolved |-> {}, broken |-> {}]
<1>1. window = Left(segments)
  BY DEF ToSet, Left
<1>2. \A i \in DOMAIN segments : segments[i] \in Segments
  OBVIOUS
<1>3. Left(segments) \subseteq Int
  BY <1>2 DEF Left, SecondsOf, Segments
<1>4. Planned(segments) = <<scan>>
  BY DEF Planned
<1> HIDE DEF window
<1>5. scan \in ScanRecords
  BY <1>1, <1>3 DEF ScanRecords
<1> QED BY <1>1, <1>4, <1>5 DEF Accounted

\* update_scan_density_model: a model remembers a width in seconds.
LEMMA ModelsStayMeasured ==
  ASSUME ModelsMeasure, NEW c, NEW s \in Segments, NEW read,
         NEW m \in Upserted(UpdatedModels(c, s, read))
  PROVE  "last" \in DOMAIN m /\ m.last \in Int
<1>1. CASE m \in models
  BY <1>1 DEF ModelsMeasure
<1>2. CASE m \in UpdatedModels(c, s, read)
  <2>1. PICK scope \in Scopes :
           m = Learned({x \in StoredFor(c) : x.scope = scope}, c, scope, s, read)
    BY <1>2 DEF UpdatedModels
  <2> DEFINE prior == {x \in StoredFor(c) : x.scope = scope}
             old == IF prior = {} THEN EmptyModel(c, scope) ELSE CHOOSE x \in prior : TRUE
             width == MaxOf(Span(s), 1)
  <2>2. "last" \in DOMAIN old /\ old.last \in Int
    <3>1. CASE prior = {}
      BY <3>1 DEF EmptyModel
    <3>2. CASE prior # {}
      <4>1. old \in prior
        BY <3>2
      <4>2. prior \subseteq models
        BY DEF StoredFor
      <4> QED BY <4>1, <4>2 DEF ModelsMeasure
    <3> QED BY <3>1, <3>2
  <2>3. width \in Int
    BY DEF MaxOf, Span, Segments
  <2>4. m = [old EXCEPT !.weighs = @ \/ GivesWeight(read),
                        !.last = IF read.complete \/ ~old.good THEN width ELSE @,
                        !.good = @ \/ read.complete,
                        !.from = @ \union {c}]
    BY <2>1 DEF Learned
  <2> HIDE DEF old, width
  <2> QED BY <2>2, <2>3, <2>4
<1> QED BY <1>1, <1>2 DEF Upserted

LEMMA PlanScanInv ==
  ASSUME ScanInv, NEW c \in Contexts, Plan(c) PROVE ScanInv'
<1>1. PICK h \in {<<>>} \union {<<x>> : x \in hints} :
        \E input \in WebInputs(c, h) \union AppInputs(c, h) :
        \E span \in Proposals(SelectedModels(StoredFor(c), c),
                              HintStatus(input[1], c) = "Used") :
        \E segments \in GapSegments(c, input[2]) :
          scans' = [scans EXCEPT ![c] = Planned(
             IF segments = <<>>
             THEN <<SegmentFromEdge(c.dir, IF c.dir = "older" THEN LastSecond + 1 ELSE 0, span)>>
             ELSE segments)]
  BY DEF Plan
<1>2. PICK input \in WebInputs(c, h) \union AppInputs(c, h) :
        \E span \in Proposals(SelectedModels(StoredFor(c), c),
                              HintStatus(input[1], c) = "Used") :
        \E segments \in GapSegments(c, input[2]) :
          scans' = [scans EXCEPT ![c] = Planned(
             IF segments = <<>>
             THEN <<SegmentFromEdge(c.dir, IF c.dir = "older" THEN LastSecond + 1 ELSE 0, span)>>
             ELSE segments)]
  BY <1>1
<1>3. PICK span \in Proposals(SelectedModels(StoredFor(c), c),
                              HintStatus(input[1], c) = "Used") :
        \E segments \in GapSegments(c, input[2]) :
          scans' = [scans EXCEPT ![c] = Planned(
             IF segments = <<>>
             THEN <<SegmentFromEdge(c.dir, IF c.dir = "older" THEN LastSecond + 1 ELSE 0, span)>>
             ELSE segments)]
  BY <1>2
<1> DEFINE edge  == IF c.dir = "older" THEN LastSecond + 1 ELSE 0
           whole == SegmentFromEdge(c.dir, edge, span)
<1>4. PICK segments \in GapSegments(c, input[2]) :
        scans' = [scans EXCEPT ![c] = Planned(IF segments = <<>> THEN <<whole>>
                                              ELSE segments)]
  BY <1>3
<1>5. input[2] \in GapLists(c)
  <2>1. <<>> \in GapLists(c)
    BY DEF GapLists
  <2> QED BY <2>1 DEF WebInputs, AppInputs
<1>6. segments \in Seq(Segments) /\ Apart(segments)
  BY <1>5, GapsAreApart
<1>7. whole \in Segments
  <2>1. span \in Int
    <3>1. \A m \in SelectedModels(StoredFor(c), c) : m.last \in Int
      BY DEF SelectedModels, StoredFor, ScanInv, ModelsMeasure
    <3> QED BY <3>1, ProposalsAreSpans
  <2>2. edge \in Int
    BY SpanAssumption
  <2> HIDE DEF edge
  <2> QED BY <2>1, <2>2 DEF SegmentFromEdge, Segment, Segments, MaxOf
<1> HIDE DEF whole
<1>8. <<whole>> \in Seq(Segments) /\ Apart(<<whole>>)
  BY <1>7 DEF Apart
<1>9. \E scan : /\ scans' = [scans EXCEPT ![c] = <<scan>>]
                /\ Accounted(scan)
  <2>1. CASE segments = <<>>
    <3>1. PICK scan : Planned(<<whole>>) = <<scan>> /\ Accounted(scan)
      BY <1>8, PlannedAccounts
    <3> QED BY <1>4, <2>1, <3>1
  <2>2. CASE segments # <<>>
    <3>1. PICK scan : Planned(segments) = <<scan>> /\ Accounted(scan)
      BY <1>6, PlannedAccounts
    <3> QED BY <1>4, <2>2, <3>1
  <2> QED BY <2>1, <2>2
<1>10. models' = models
  BY DEF Plan
<1> QED BY <1>9, <1>10 DEF ScanInv, ModelsMeasure, ScansAccount

LEMMA ReduceScanInv ==
  ASSUME ScanInv, NEW c \in Contexts, Reduce(c) PROVE ScanInv'
<1>1. PICK scan : scans[c] = <<scan>> /\ Accounted(scan)
  BY DEF Reduce, ScanInv, ScansAccount
<1>2. scans[c][1] = scan /\ scan.todo # <<>>
  BY <1>1 DEF Reduce
<1> DEFINE s == Head(scan.todo)
<1>3. PICK read \in Reads(c, s) :
        /\ models' = Upserted(UpdatedModels(c, s, read))
        /\ scans' = [scans EXCEPT ![c] = <<AfterRead(scan, c.dir, Feedback(read))>>]
  BY <1>2 DEF Reduce
<1>4. Feedback(read) \in {"Done", "LimitHit", "Incomplete"}
  BY DEF Feedback
<1>5. s \in Segments
  BY <1>1, <1>2, TakeFirst DEF Accounted, ScanRecords
<1>6. Accounted(AfterRead(scan, c.dir, Feedback(read)))
  BY <1>1, <1>2, <1>4, ReduceAccounts
<1> HIDE DEF s
<1>7. ModelsMeasure'
  BY <1>3, <1>5, ModelsStayMeasured DEF ModelsMeasure, ScanInv
<1> QED BY <1>3, <1>6, <1>7 DEF ScanInv, ScansAccount

\* However often windows hit the limit of a relay and are halved, every second
\* of the window is read to its end, given up, broken, or still to be read.
THEOREM WindowsAreAccounted == ScanSpec => []WindowAccounted
<1>1. ScanInit => ScanInv
  BY DEF ScanInit, ScanInv, ModelsMeasure, ScansAccount
<1>2. ScanInv /\ [ScanNext]_scanVars => ScanInv'
  <2> SUFFICES ASSUME ScanInv, [ScanNext]_scanVars PROVE ScanInv'
    OBVIOUS
  <2>1. ASSUME NEW c \in Contexts, Plan(c) PROVE ScanInv'
    BY <2>1, PlanScanInv
  <2>2. ASSUME NEW c \in Contexts, Reduce(c) PROVE ScanInv'
    BY <2>2, ReduceScanInv
  <2>3. ASSUME NEW c \in Contexts, Finish(c) PROVE ScanInv'
    BY <2>3 DEF Finish, ScanInv, ModelsMeasure, ScansAccount
  <2>4. ASSUME NEW h \in hints, Expire(h) PROVE ScanInv'
    BY <2>4 DEF Expire, ScanInv, ModelsMeasure, ScansAccount
  <2>5. CASE UNCHANGED scanVars
    BY <2>5 DEF scanVars, ScanInv, ModelsMeasure, ScansAccount
  <2> QED BY <2>1, <2>2, <2>3, <2>4, <2>5 DEF ScanNext
<1>3. ScanInv => WindowAccounted
  <2> SUFFICES ASSUME ScanInv, NEW c \in Contexts, scans[c] # <<>>
               PROVE  LET scan == scans[c][1]
                          parts == [i \in 1 .. Len(scan.todo) |-> SecondsOf(scan.todo[i])]
                      IN /\ scan.window = scan.done \union scan.unresolved \union scan.broken
                                          \union UNION {parts[i] : i \in DOMAIN parts}
                         /\ \A i \in DOMAIN parts : parts[i] \cap scan.done = {}
                         /\ \A i, j \in DOMAIN parts :
                               i # j => parts[i] \cap parts[j] = {}
    BY DEF WindowAccounted
  <2> DEFINE scan == scans[c][1]
             parts == [i \in 1 .. Len(scan.todo) |-> SecondsOf(scan.todo[i])]
  <2>1. Accounted(scan)
    BY DEF ScanInv, ScansAccount
  <2>2. DOMAIN scan.todo = 1..Len(scan.todo)
    BY <2>1 DEF Accounted, ScanRecords
  <2>3. /\ DOMAIN parts = DOMAIN scan.todo
        /\ \A i \in DOMAIN parts : parts[i] = SecondsOf(scan.todo[i])
    BY <2>2
  <2> HIDE DEF scan, parts
  <2>4. UNION {parts[i] : i \in DOMAIN parts} = Left(scan.todo)
    BY <2>3 DEF Left
  <2>5. \A i \in DOMAIN parts : parts[i] \cap scan.done = {}
    BY <2>1, <2>3 DEF Accounted, Left
  <2>6. \A i, j \in DOMAIN parts : i # j => parts[i] \cap parts[j] = {}
    BY <2>1, <2>3 DEF Accounted, Apart
  <2>7. scan.window = scan.done \union scan.unresolved \union scan.broken
                      \union UNION {parts[i] : i \in DOMAIN parts}
    BY <2>1, <2>4 DEF Accounted
  <2> QED BY <2>5, <2>6, <2>7 DEF scan, parts
<1> QED BY <1>1, <1>2, <1>3, PTL DEF ScanSpec

-----------------------------------------------------------------------------
(* Sums over a finite set *)

Pick(s) == CHOOSE x \in s : TRUE

\* A function that sums f over every subset of S, one element after another.
SumsUp(f, S, g) ==
    g = [s \in SUBSET S |-> IF s = {} THEN 0 ELSE f[Pick(s)] + g[s \ {Pick(s)}]]

\* The natural numbers are reached one by one.
LEMMA UpToEveryNumber ==
    ASSUME NEW T, T \subseteq Nat, 0 \in T, \A n \in T : n + 1 \in T
    PROVE  \A n \in Nat : n \in T
<1> SUFFICES ASSUME Nat \ T # {} PROVE FALSE
  OBVIOUS
<1> DEFINE R == OpToRel(<, Nat)
<1>1. PICK n \in Nat \ T : \A m \in Nat \ T : <<m, n>> \notin R
  <2>1. IsWellFoundedOn(R, Nat)
    BY NatLessThanWellFounded
  <2> HIDE DEF R
  <2> QED BY <2>1, WFMin
<1>2. \A m \in Nat \ T : ~(m < n)
  BY <1>1 DEF OpToRel
<1>3. n - 1 \in Nat
  OBVIOUS
<1>4. n - 1 \in T
  BY <1>2, <1>3
<1> QED BY <1>4

\* What holds of a subset once it holds without any one element holds of all.
LEMMA UpToEverySubset ==
    ASSUME NEW S, IsFiniteSet(S), NEW P,
           \A s \in SUBSET S : (\A x \in s : s \ {x} \in P) => s \in P
    PROVE  \A s \in SUBSET S : s \in P
<1> DEFINE T == {n \in Nat : \A s \in SUBSET S : Cardinality(s) = n => s \in P}
<1>1. \A s \in SUBSET S : IsFiniteSet(s) /\ Cardinality(s) \in Nat
  BY FS_Subset, FS_CardinalityType
<1>2. 0 \in T
  <2> SUFFICES ASSUME NEW s \in SUBSET S, Cardinality(s) = 0 PROVE s \in P
    OBVIOUS
  <2>1. s = {}
    BY <1>1, FS_EmptySet
  <2> QED BY <2>1
<1>3. ASSUME NEW n \in T PROVE n + 1 \in T
  <2> SUFFICES ASSUME NEW s \in SUBSET S, Cardinality(s) = n + 1 PROVE s \in P
    OBVIOUS
  <2>1. ASSUME NEW x \in s PROVE s \ {x} \in P
    <3>1. Cardinality(s \ {x}) = n
      BY <1>1, FS_RemoveElement
    <3> QED BY <3>1
  <2> QED BY <2>1
<1>4. \A n \in Nat : n \in T
  <2>1. T \subseteq Nat
    OBVIOUS
  <2> HIDE DEF T
  <2> QED BY <1>2, <1>3, <2>1, UpToEveryNumber
<1> QED BY <1>1, <1>4

\* The function that the sum is defined by exists: by way of those that are right
\* for the subsets of at most n elements.
LEMMA SumsExist ==
    ASSUME NEW S, IsFiniteSet(S), NEW f
    PROVE  \E g : SumsUp(f, S, g)
<1> DEFINE Then(g, s) == IF s = {} THEN 0 ELSE f[Pick(s)] + g[s \ {Pick(s)}]
           Right(g, n) == \A s \in SUBSET S : Cardinality(s) <= n => g[s] = Then(g, s)
           T == {n \in Nat : \E g : Right(g, n)}
<1>1. \A s \in SUBSET S : IsFiniteSet(s) /\ Cardinality(s) \in Nat
  BY FS_Subset, FS_CardinalityType
<1>2. \A s \in SUBSET S : s # {} =>
         /\ s \ {Pick(s)} \in SUBSET S
         /\ Cardinality(s \ {Pick(s)}) = Cardinality(s) - 1
  BY <1>1, FS_RemoveElement DEF Pick
<1>3. 0 \in T
  <2> DEFINE g == [s \in SUBSET S |-> 0]
  <2>1. ASSUME NEW s \in SUBSET S, Cardinality(s) <= 0 PROVE g[s] = Then(g, s)
    <3>1. s = {}
      BY <1>1, <2>1, FS_EmptySet
    <3> QED BY <3>1
  <2> HIDE DEF g, Then
  <2> QED BY <2>1
<1>4. ASSUME NEW n \in T PROVE n + 1 \in T
  <2>1. PICK g : Right(g, n)
    OBVIOUS
  <2> DEFINE h == [s \in SUBSET S |-> Then(g, s)]
  <2>2. ASSUME NEW s \in SUBSET S, Cardinality(s) <= n PROVE h[s] = g[s]
    BY <2>1, <2>2
  <2>3. ASSUME NEW s \in SUBSET S, Cardinality(s) <= n + 1 PROVE h[s] = Then(h, s)
    <3>1. CASE s = {}
      BY <3>1
    <3>2. CASE s # {}
      <4> DEFINE t == s \ {Pick(s)}
      <4>1. t \in SUBSET S /\ Cardinality(t) <= n
        BY <1>1, <1>2, <2>3, <3>2
      <4>2. h[t] = g[t]
        <5> HIDE DEF t, h
        <5> QED BY <2>2, <4>1
      <4>3. h[s] = f[Pick(s)] + g[t]
        BY <3>2
      <4> HIDE DEF h
      <4> QED BY <3>2, <4>2, <4>3
    <3> QED BY <3>1, <3>2
  <2>4. Right(h, n + 1)
    <3> HIDE DEF h, Then
    <3> QED BY <2>3
  <2> HIDE DEF Right
  <2> QED BY <2>4
<1>5. \A n \in Nat : n \in T
  <2>1. T \subseteq Nat
    OBVIOUS
  <2> HIDE DEF T
  <2> QED BY <1>3, <1>4, <2>1, UpToEveryNumber
<1>6. PICK g : Right(g, Cardinality(S))
  BY <1>1, <1>5
<1> DEFINE h == [s \in SUBSET S |-> g[s]]
<1>7. ASSUME NEW s \in SUBSET S PROVE h[s] = Then(h, s)
  <2>1. Cardinality(s) <= Cardinality(S)
    BY FS_Subset
  <2>2. g[s] = Then(g, s)
    BY <1>6, <2>1
  <2> QED BY <1>2, <2>2
<1>8. h = [s \in SUBSET S |-> h[s]]
  OBVIOUS
<1>9. h = [s \in SUBSET S |-> Then(h, s)]
  <2> HIDE DEF h, Then
  <2> QED BY <1>7, <1>8
<1> HIDE DEF h
<1> QED BY <1>9 DEF SumsUp

LEMMA SumIsSumsUp ==
    ASSUME NEW S, IsFiniteSet(S), NEW f
    PROVE  \E g : SumsUp(f, S, g) /\ SumFunctionOnSet(f, S) = g[S]
<1> DEFINE k == CHOOSE g : SumsUp(f, S, g)
<1>1. SumFunctionOnSet(f, S) = k[S]
  BY DEF SumFunctionOnSet, FoldFunctionOnSet, MapThenFoldSet, SumsUp, Pick
<1>2. SumsUp(f, S, k)
  BY SumsExist
<1> QED BY <1>1, <1>2

\* A sum takes one element, and goes on with the others.
LEMMA SumTakesOne ==
    ASSUME NEW S, IsFiniteSet(S), NEW f
    PROVE  /\ S = {} => SumFunctionOnSet(f, S) = 0
           /\ S # {} => SumFunctionOnSet(f, S)
                          = f[Pick(S)] + SumFunctionOnSet(f, S \ {Pick(S)})
<1>1. PICK g : SumsUp(f, S, g) /\ SumFunctionOnSet(f, S) = g[S]
  BY SumIsSumsUp
<1>2. CASE S = {}
  BY <1>1, <1>2 DEF SumsUp
<1>3. CASE S # {}
  <2> DEFINE U == S \ {Pick(S)}
  <2>1. IsFiniteSet(U) /\ U \subseteq S
    BY FS_RemoveElement
  <2>2. PICK h : SumsUp(f, U, h) /\ SumFunctionOnSet(f, U) = h[U]
    <3> HIDE DEF U
    <3> QED BY <2>1, SumIsSumsUp
  <2> DEFINE P == {s \in SUBSET U : g[s] = h[s]}
  <2>3. ASSUME NEW s \in SUBSET U, \A x \in s : s \ {x} \in P PROVE s \in P
    <3> HIDE DEF U
    <3>1. h[s] = IF s = {} THEN 0 ELSE f[Pick(s)] + h[s \ {Pick(s)}]
      BY <2>2 DEF SumsUp
    <3>2. g[s] = IF s = {} THEN 0 ELSE f[Pick(s)] + g[s \ {Pick(s)}]
      <4>1. s \in SUBSET S
        BY <2>1
      <4> QED BY <1>1, <4>1 DEF SumsUp
    <3>3. s # {} => Pick(s) \in s
      BY DEF Pick
    <3> QED BY <2>3, <3>1, <3>2, <3>3
  <2>4. g[U] = h[U]
    <3>1. \A s \in SUBSET U : s \in P
      <4> HIDE DEF P, U
      <4> QED BY <2>1, <2>3, UpToEverySubset
    <3> QED BY <3>1
  <2>5. g[S] = f[Pick(S)] + g[U]
    BY <1>1, <1>3 DEF SumsUp
  <2> QED BY <1>1, <1>3, <2>2, <2>4, <2>5
<1> QED BY <1>2, <1>3

LEMMA SumIsWhole ==
    ASSUME NEW S, IsFiniteSet(S), NEW f, \A x \in S : f[x] \in Int
    PROVE  SumFunctionOnSet(f, S) \in Int
<1> DEFINE P == {s \in SUBSET S : SumFunctionOnSet(f, s) \in Int}
<1>1. ASSUME NEW s \in SUBSET S, \A x \in s : s \ {x} \in P PROVE s \in P
  <2>1. IsFiniteSet(s)
    BY FS_Subset
  <2>2. CASE s = {}
    BY <2>1, <2>2, SumTakesOne
  <2>3. CASE s # {}
    <3>1. Pick(s) \in s
      BY <2>3 DEF Pick
    <3>2. SumFunctionOnSet(f, s) = f[Pick(s)] + SumFunctionOnSet(f, s \ {Pick(s)})
      BY <2>1, <2>3, SumTakesOne
    <3> QED BY <1>1, <3>1, <3>2
  <2> QED BY <2>2, <2>3
<1>2. \A s \in SUBSET S : s \in P
  <2> HIDE DEF P
  <2> QED BY <1>1, UpToEverySubset
<1> QED BY <1>2

LEMMA SumIsNatural ==
    ASSUME NEW S, IsFiniteSet(S), NEW f, \A x \in S : f[x] \in Nat
    PROVE  SumFunctionOnSet(f, S) \in Nat
<1> DEFINE P == {s \in SUBSET S : SumFunctionOnSet(f, s) \in Nat}
<1>1. ASSUME NEW s \in SUBSET S, \A x \in s : s \ {x} \in P PROVE s \in P
  <2>1. IsFiniteSet(s)
    BY FS_Subset
  <2>2. CASE s = {}
    <3>1. SumFunctionOnSet(f, s) = 0
      BY <2>1, <2>2, SumTakesOne
    <3> QED BY <3>1
  <2>3. CASE s # {}
    <3>1. Pick(s) \in s
      BY <2>3 DEF Pick
    <3>2. SumFunctionOnSet(f, s) = f[Pick(s)] + SumFunctionOnSet(f, s \ {Pick(s)})
      BY <2>1, <2>3, SumTakesOne
    <3> QED BY <1>1, <3>1, <3>2
  <2> QED BY <2>2, <2>3
<1>2. \A s \in SUBSET S : s \in P
  <2> HIDE DEF P
  <2> QED BY <1>1, UpToEverySubset
<1> QED BY <1>2

\* The order in which the elements are taken makes no difference.
LEMMA SumTakesAny ==
    ASSUME NEW S, IsFiniteSet(S), NEW f, \A x \in S : f[x] \in Int, NEW y \in S
    PROVE  SumFunctionOnSet(f, S) = f[y] + SumFunctionOnSet(f, S \ {y})
<1> DEFINE P == {s \in SUBSET S :
                   \A x \in s : SumFunctionOnSet(f, s) = f[x] + SumFunctionOnSet(f, s \ {x})}
<1>1. ASSUME NEW s \in SUBSET S, \A x \in s : s \ {x} \in P PROVE s \in P
  <2> SUFFICES ASSUME NEW x \in s
               PROVE  SumFunctionOnSet(f, s) = f[x] + SumFunctionOnSet(f, s \ {x})
    OBVIOUS
  <2> DEFINE c == Pick(s)
  <2>1. IsFiniteSet(s) /\ c \in s
    BY FS_Subset DEF Pick
  <2>2. SumFunctionOnSet(f, s) = f[c] + SumFunctionOnSet(f, s \ {c})
    BY <2>1, SumTakesOne
  <2>3. s \ {c} \in P /\ s \ {x} \in P
    BY <1>1, <2>1
  <2> HIDE DEF c
  <2>4. CASE x = c
    BY <2>2, <2>4
  <2>5. CASE x # c
    <3> DEFINE rest == (s \ {c}) \ {x}
    <3>1. SumFunctionOnSet(f, s \ {c}) = f[x] + SumFunctionOnSet(f, rest)
      BY <2>1, <2>3, <2>5
    <3>2. SumFunctionOnSet(f, s \ {x}) = f[c] + SumFunctionOnSet(f, rest)
      <4>1. rest = (s \ {x}) \ {c}
        OBVIOUS
      <4> HIDE DEF rest
      <4> QED BY <2>1, <2>3, <2>5, <4>1
    <3>3. SumFunctionOnSet(f, rest) \in Int
      <4>1. IsFiniteSet(rest) /\ \A z \in rest : f[z] \in Int
        BY <2>1, FS_RemoveElement
      <4> HIDE DEF rest
      <4> QED BY <4>1, SumIsWhole
    <3>4. f[x] \in Int /\ f[c] \in Int
      BY <2>1
    <3> HIDE DEF rest
    <3> QED BY <2>2, <3>1, <3>2, <3>3, <3>4
  <2> QED BY <2>4, <2>5
<1>2. \A s \in SUBSET S : s \in P
  <2> HIDE DEF P
  <2> QED BY <1>1, UpToEverySubset
<1>3. S \in P
  <2> HIDE DEF P
  <2> QED BY <1>2
<1> QED BY <1>3

LEMMA SumGrows ==
    ASSUME NEW S, IsFiniteSet(S), NEW f, NEW g,
           \A x \in S : f[x] \in Int /\ g[x] \in Int /\ f[x] <= g[x]
    PROVE  SumFunctionOnSet(f, S) <= SumFunctionOnSet(g, S)
<1> DEFINE P == {s \in SUBSET S : SumFunctionOnSet(f, s) <= SumFunctionOnSet(g, s)}
<1>1. ASSUME NEW s \in SUBSET S, \A x \in s : s \ {x} \in P PROVE s \in P
  <2>1. IsFiniteSet(s)
    BY FS_Subset
  <2>2. CASE s = {}
    BY <2>1, <2>2, SumTakesOne
  <2>3. CASE s # {}
    <3>1. Pick(s) \in s
      BY <2>3 DEF Pick
    <3>2. /\ SumFunctionOnSet(f, s) = f[Pick(s)] + SumFunctionOnSet(f, s \ {Pick(s)})
          /\ SumFunctionOnSet(g, s) = g[Pick(s)] + SumFunctionOnSet(g, s \ {Pick(s)})
      BY <2>1, <2>3, SumTakesOne
    <3>3. /\ SumFunctionOnSet(f, s \ {Pick(s)}) \in Int
          /\ SumFunctionOnSet(g, s \ {Pick(s)}) \in Int
      <4> DEFINE rest == s \ {Pick(s)}
      <4>1. IsFiniteSet(rest) /\ \A z \in rest : f[z] \in Int /\ g[z] \in Int
        BY <2>1, FS_RemoveElement
      <4> HIDE DEF rest
      <4>2. SumFunctionOnSet(f, rest) \in Int /\ SumFunctionOnSet(g, rest) \in Int
        BY <4>1, SumIsWhole
      <4> QED BY <4>2 DEF rest
    <3>4. SumFunctionOnSet(f, s \ {Pick(s)}) <= SumFunctionOnSet(g, s \ {Pick(s)})
      BY <1>1, <3>1
    <3> QED BY <3>1, <3>2, <3>3, <3>4
  <2> QED BY <2>2, <2>3
<1>2. \A s \in SUBSET S : s \in P
  <2> HIDE DEF P
  <2> QED BY <1>1, UpToEverySubset
<1> QED BY <1>2

\* A finite set of numbers has a largest and a smallest.
LEMMA FiniteHasExtremes ==
    ASSUME NEW S, IsFiniteSet(S), S \subseteq Int, S # {}
    PROVE  /\ Max(S) \in S /\ \A y \in S : Max(S) >= y
           /\ Min(S) \in S /\ \A y \in S : Min(S) <= y
<1> DEFINE P == {s \in SUBSET S : s = {} \/ \E x, y \in s : \A z \in s : x >= z /\ y <= z}
<1>1. ASSUME NEW s \in SUBSET S, \A x \in s : s \ {x} \in P PROVE s \in P
  <2> SUFFICES ASSUME NEW e \in s PROVE \E x, y \in s : \A z \in s : x >= z /\ y <= z
    OBVIOUS
  <2>1. s \ {e} \in P
    BY <1>1
  <2>2. CASE s \ {e} = {}
    BY <2>2
  <2>3. CASE s \ {e} # {}
    <3>1. PICK x \in s, y \in s : \A z \in s \ {e} : x >= z /\ y <= z
      BY <2>1, <2>3
    <3> DEFINE p == IF x >= e THEN x ELSE e
               q == IF y <= e THEN y ELSE e
    <3>2. p \in s /\ q \in s /\ \A z \in s : p >= z /\ q <= z
      BY <3>1
    <3> HIDE DEF p, q
    <3> QED BY <3>2
  <2> QED BY <2>2, <2>3
<1>2. \A s \in SUBSET S : s \in P
  <2> HIDE DEF P
  <2> QED BY <1>1, UpToEverySubset
<1>3. PICK x \in S, y \in S : \A z \in S : x >= z /\ y <= z
  BY <1>2
<1> QED BY <1>3 DEF Max, Min

-----------------------------------------------------------------------------
(* The budget of a read *)

LEMMA OptionalIsFinite ==
    ASSUME NEW S, Optional(S), NEW n \in Nat
    PROVE  IsFiniteSet(S \cup {n}) /\ S \cup {n} \subseteq Nat
BY FS_AddElement DEF Optional

LEMMA ExtremeOfTwo ==
    ASSUME NEW a \in Int, NEW b \in Int
    PROVE  /\ Max({a, b}) = IF a >= b THEN a ELSE b
           /\ Min({a, b}) = IF a <= b THEN a ELSE b
<1> DEFINE S == {a, b}
<1>1. IsFiniteSet(S) /\ S \subseteq Int /\ S # {}
  <2>1. S = ({} \cup {a}) \cup {b}
    OBVIOUS
  <2>2. IsFiniteSet({}) /\ IsFiniteSet({} \cup {a})
    BY FS_EmptySet, FS_AddElement
  <2>3. IsFiniteSet(({} \cup {a}) \cup {b})
    BY <2>2, FS_AddElement
  <2> QED BY <2>1, <2>3
<1>2. \A y : y \in S <=> y = a \/ y = b
  OBVIOUS
<1> HIDE DEF S
<1>3. /\ Max(S) \in S /\ \A y \in S : Max(S) >= y
      /\ Min(S) \in S /\ \A y \in S : Min(S) <= y
  BY <1>1, FiniteHasExtremes
<1>4. /\ Max(S) = IF a >= b THEN a ELSE b
      /\ Min(S) = IF a <= b THEN a ELSE b
  BY <1>2, <1>3
<1> QED BY <1>4 DEF S

\* A filter asks for one event at least, and for no more than its relay serves.
LEMMA FilterLimitFits ==
    ASSUME NEW i \in Intents, NEW w \in DOMAIN RelayMax
    PROVE  /\ FilterLimit(BudgetInput(i, w)) \in Nat \ {0}
           /\ \A m \in RelayMax[w] : m > 0 => FilterLimit(BudgetInput(i, w)) <= m
<1> DEFINE q    == BudgetInput(i, w)
           caps == {Intended(q), AppCap(q.purpose)} \cup RelayMax[w]
           cap  == Min(caps)
<1>1. /\ i.page \in Nat /\ IsFiniteSet(i.limit) /\ i.limit \subseteq Nat
      /\ IsFiniteSet(RelayMax[w]) /\ RelayMax[w] \subseteq Nat
  BY ReadsAssumption DEF Optional
<1>2. q.requested = i.limit /\ q.page = i.page /\ q.relayMax = RelayMax[w]
  BY DEF BudgetInput
<1>3. AppCap(q.purpose) \in Nat
  BY DEF AppCap
<1> HIDE DEF q
<1>4. Intended(q) \in Nat
  <2> DEFINE positive == {l \in i.limit : l > 0}
  <2>1. Intended(q) = IF positive = {} THEN i.page ELSE Max(positive)
    BY <1>2 DEF Intended
  <2>2. IsFiniteSet(positive) /\ positive \subseteq Nat
    <3>1. positive \subseteq i.limit
      OBVIOUS
    <3> HIDE DEF positive
    <3> QED BY <1>1, <3>1, FS_Subset
  <2> HIDE DEF positive
  <2>3. CASE positive = {}
    BY <1>1, <2>1, <2>3
  <2>4. CASE positive # {}
    <3>1. positive \subseteq Int
      BY <2>2
    <3>2. Max(positive) \in positive
      BY <2>2, <2>4, <3>1, FiniteHasExtremes
    <3> QED BY <2>1, <2>2, <2>4, <3>2
  <2> QED BY <2>3, <2>4
<1>5. IsFiniteSet(caps) /\ caps \subseteq Nat /\ caps # {}
  <2>1. caps = (RelayMax[w] \cup {Intended(q)}) \cup {AppCap(q.purpose)}
    OBVIOUS
  <2>2. IsFiniteSet(RelayMax[w] \cup {Intended(q)})
    BY <1>1, FS_AddElement
  <2>3. IsFiniteSet((RelayMax[w] \cup {Intended(q)}) \cup {AppCap(q.purpose)})
    BY <2>2, FS_AddElement
  <2> QED BY <1>1, <1>3, <1>4, <2>1, <2>3
<1>6. \A m \in RelayMax[w] : m \in caps
  OBVIOUS
<1>7. FilterLimit(q) = Max({1, cap})
  BY <1>2 DEF FilterLimit
<1> HIDE DEF caps
<1>8. cap \in Nat /\ \A m \in RelayMax[w] : cap <= m
  <2>1. caps \subseteq Int
    BY <1>5
  <2>2. cap \in caps /\ \A y \in caps : cap <= y
    BY <1>5, <2>1, FiniteHasExtremes
  <2> QED BY <1>5, <1>6, <2>2
<1> HIDE DEF cap
<1>9. FilterLimit(q) = IF 1 >= cap THEN 1 ELSE cap
  BY <1>7, <1>8, ExtremeOfTwo
<1>10. FilterLimit(q) \in Nat \ {0} /\ \A m \in RelayMax[w] : m > 0 => FilterLimit(q) <= m
  BY <1>1, <1>8, <1>9
<1> QED BY <1>10 DEF q

\* What a filter is sent never exceeds its budget.
LEMMA SentWithinBudget ==
    ASSUME NEW i \in Intents, NEW w \in DOMAIN RelayMax
    PROVE  /\ SentLimit(i, w) \in Nat
           /\ SentLimit(i, w) <= FilterLimit(BudgetInput(i, w))
<1> DEFINE l == FilterLimit(BudgetInput(i, w))
           S == i.limit \cup {l}
<1>1. l \in Nat
  BY FilterLimitFits
<1>2. SentLimit(i, w) = Min(S)
  BY DEF SentLimit, Budget
<1>3. IsFiniteSet(i.limit) /\ i.limit \subseteq Nat
  BY ReadsAssumption DEF Optional
<1> HIDE DEF l
<1>4. IsFiniteSet(S) /\ S \subseteq Nat /\ S # {} /\ l \in S
  BY <1>1, <1>3, FS_AddElement
<1> HIDE DEF S
<1>5. Min(S) \in Nat /\ Min(S) <= l
  <2>1. S \subseteq Int
    BY <1>4
  <2>2. Min(S) \in S /\ \A y \in S : Min(S) <= y
    BY <1>4, <2>1, FiniteHasExtremes
  <2> QED BY <1>4, <2>2
<1> QED BY <1>2, <1>5 DEF l

LEMMA BudgetCoversItsFilters ==
    ASSUME NEW i \in Intents, i.purpose # "lookup", NEW w \in DOMAIN RelayMax
    PROVE  /\ Budget(i, w).events \in Nat
           /\ \/ Budget(i, w).events = EventsCap
              \/ SentLimit(i, w) * i.filters <= Budget(i, w).events
<1> DEFINE q == BudgetInput(i, w)
           l == FilterLimit(q)
           p == Max({1, i.page})
           m == Max({1, i.filters})
           all == l * m + p
<1>1. i.page \in Nat /\ i.filters \in Nat
  BY ReadsAssumption
<1>2. l \in Nat /\ SentLimit(i, w) \in Nat /\ SentLimit(i, w) <= l
  BY FilterLimitFits, SentWithinBudget
<1>3. p \in Nat
  <2>1. p = IF 1 >= i.page THEN 1 ELSE i.page
    BY <1>1, ExtremeOfTwo
  <2> QED BY <1>1, <2>1
<1>4. m \in Nat /\ i.filters <= m
  <2>1. m = IF 1 >= i.filters THEN 1 ELSE i.filters
    BY <1>1, ExtremeOfTwo
  <2> QED BY <1>1, <2>1
<1>5. ~q.exact /\ q.page = i.page /\ q.filters = i.filters
  BY DEF BudgetInput
<1>6. Budget(i, w).events = Min({EventsCap, all})
  BY <1>5 DEF Budget, MaxEvents
<1> HIDE DEF q, p, l, m
<1>7. /\ SentLimit(i, w) * i.filters \in Nat /\ l * m \in Nat
      /\ SentLimit(i, w) * i.filters <= l * m
  <2>1. SentLimit(i, w) * i.filters <= l * i.filters /\ l * i.filters \in Nat
    BY <1>1, <1>2
  <2>2. l * i.filters <= l * m /\ l * m \in Nat
    BY <1>1, <1>2, <1>4
  <2>3. SentLimit(i, w) * i.filters \in Nat
    BY <1>1, <1>2
  <2> QED BY <2>1, <2>2, <2>3
<1>8. all \in Nat /\ SentLimit(i, w) * i.filters <= all
  BY <1>3, <1>7
<1> HIDE DEF all
<1>9. Min({EventsCap, all}) = IF EventsCap <= all THEN EventsCap ELSE all
  <2>1. EventsCap \in Int /\ all \in Int
    BY <1>8 DEF EventsCap
  <2> QED BY <2>1, ExtremeOfTwo
<1> QED BY <1>6, <1>8, <1>9 DEF EventsCap

\* The sums stop at the cap at the same place.
LEMMA CapAllowsWhatIsAsked ==
    ASSUME NEW i \in Intents, i.purpose # "lookup",
           NEW relays, relays \subseteq DOMAIN RelayMax
    PROVE  Min({EventsCap, SumFunction([w \in relays |-> SentLimit(i, w) * i.filters])})
             <= MergedCap(i, relays)
<1> DEFINE wanted == [w \in relays |-> SentLimit(i, w) * i.filters]
           given == [w \in relays |-> Budget(i, w).events]
           A == SumFunctionOnSet(wanted, relays)
           G == SumFunctionOnSet(given, relays)
<1>1. IsFiniteSet(relays)
  BY ReadsAssumption, FS_Subset
<1>2. \A w \in relays : /\ wanted[w] = SentLimit(i, w) * i.filters
                         /\ given[w] = Budget(i, w).events
  OBVIOUS
<1>3. \A w \in relays : wanted[w] \in Nat /\ given[w] \in Nat
                         /\ (given[w] = EventsCap \/ wanted[w] <= given[w])
  <2> SUFFICES ASSUME NEW w \in relays
               PROVE  /\ SentLimit(i, w) * i.filters \in Nat /\ Budget(i, w).events \in Nat
                      /\ \/ Budget(i, w).events = EventsCap
                         \/ SentLimit(i, w) * i.filters <= Budget(i, w).events
    BY <1>2
  <2>1. SentLimit(i, w) \in Nat /\ i.filters \in Nat
    BY SentWithinBudget, ReadsAssumption
  <2> QED BY <2>1, BudgetCoversItsFilters
<1>4. SumFunction(wanted) = A /\ MergedCap(i, relays) = Min({EventsCap, G})
  BY DEF SumFunction, MergedCap
<1> HIDE DEF wanted, given
<1>5. A \in Int /\ G \in Int
  BY <1>1, <1>3, SumIsWhole
<1>6. EventsCap <= G \/ A <= G
  <2>1. CASE \E w \in relays : given[w] = EventsCap
    <3>1. PICK w \in relays : given[w] = EventsCap
      BY <2>1
    <3>2. G = given[w] + SumFunctionOnSet(given, relays \ {w})
      BY <1>1, <1>3, SumTakesAny
    <3>3. SumFunctionOnSet(given, relays \ {w}) \in Nat
      <4> DEFINE rest == relays \ {w}
      <4>1. IsFiniteSet(rest) /\ \A z \in rest : given[z] \in Nat
        BY <1>1, <1>3, FS_RemoveElement
      <4> HIDE DEF rest
      <4>2. SumFunctionOnSet(given, rest) \in Nat
        BY <4>1, SumIsNatural
      <4> QED BY <4>2 DEF rest
    <3> QED BY <3>1, <3>2, <3>3 DEF EventsCap
  <2>2. CASE \A w \in relays : given[w] # EventsCap
    BY <1>1, <1>3, <2>2, SumGrows
  <2> QED BY <2>1, <2>2
<1> HIDE DEF A, G
<1>7. /\ Min({EventsCap, A}) = IF EventsCap <= A THEN EventsCap ELSE A
      /\ Min({EventsCap, G}) = IF EventsCap <= G THEN EventsCap ELSE G
  <2>1. EventsCap \in Int
    BY DEF EventsCap
  <2> QED BY <1>5, <2>1, ExtremeOfTwo
<1>8. Min({EventsCap, A}) <= Min({EventsCap, G})
  BY <1>5, <1>6, <1>7 DEF EventsCap
<1> QED BY <1>4, <1>8 DEF wanted

\* A plan names relays whose limits are known, and a read keeps to its plan.
RequestInv ==
    /\ routes \subseteq RoutePool
    /\ \A f \in flights : f.intent \in Intents /\ Flattened(f.asks.groups) \subseteq DOMAIN RelayMax

LEMMA PlansNameRelays ==
    ASSUME routes \subseteq RoutePool, NEW i \in Intents
    PROVE  Flattened(PlanGroups(i)) \subseteq DOMAIN RelayMax
<1> SUFFICES ASSUME NEW g \in PlanGroups(i) PROVE g.relays \subseteq DOMAIN RelayMax
  BY DEF Flattened
<1>1. CASE g \in AuthorGroups(i)
  <2>1. PICK a : g = Group("author-route", AuthorRelays(a), {a})
    BY <1>1 DEF AuthorGroups
  <2>2. AuthorRelays(a) \subseteq {r.url.host : r \in Candidates(a)}
    BY DEF AuthorRelays
  <2>3. {r.url.host : r \in Candidates(a)} \subseteq DOMAIN RelayMax
    BY ReadsAssumption DEF Candidates
  <2> QED BY <2>1, <2>2, <2>3 DEF Group
<1>2. CASE g.relays = Hosts(i.selected) \ Hosts(disabled)
  BY <1>2, ReadsAssumption DEF Hosts
<1> QED BY <1>1, <1>2 DEF PlanGroups, Group

LEMMA RequestsStart == ReadsInit => RequestInv
BY DEF ReadsInit, RequestInv

LEMMA RequestsKeep == RequestInv /\ [ReadsNext]_readVars => RequestInv'
<1> SUFFICES ASSUME RequestInv, [ReadsNext]_readVars PROVE RequestInv'
  OBVIOUS
<1>1. ASSUME NEW r \in RoutePool, Learn(r) PROVE RequestInv'
  BY <1>1 DEF Learn, RequestInv
<1>2. ASSUME NEW o, NEW i \in Intents, AttachRead(o, i) PROVE RequestInv'
  <2> DEFINE k == SemanticKey(i)
  <2>1. Flattened(Asks(i).groups) \subseteq DOMAIN RelayMax
    BY PlansNameRelays DEF RequestInv, Asks
  <2>2. Flight(k, i).intent = i /\ Flight(k, i).asks = Asks(i)
    BY DEF Flight
  <2>3. \A f : (f \in flights \/ f = Flight(k, i)) =>
                 Joined(f, o).intent = f.intent /\ Joined(f, o).asks = f.asks
    BY DEF Joined
  <2> HIDE DEF k
  <2>4. ASSUME NEW f \in flights'
        PROVE  f.intent \in Intents /\ Flattened(f.asks.groups) \subseteq DOMAIN RelayMax
    <3>1. \/ f \in flights
          \/ \E h : (h \in flights \/ h = Flight(k, i)) /\ f = Joined(h, o)
      BY <1>2 DEF AttachRead, k
    <3>2. \A h : h \in flights \/ h = Flight(k, i) =>
             h.intent \in Intents /\ Flattened(h.asks.groups) \subseteq DOMAIN RelayMax
      BY <2>1, <2>2 DEF RequestInv
    <3> QED BY <2>3, <3>1, <3>2
  <2> QED BY <1>2, <2>4 DEF AttachRead, RequestInv
<1>3. ASSUME NEW f \in flights, Abort(f) PROVE RequestInv'
  <2> DEFINE g == [f EXCEPT !.aborted = TRUE]
  <2>1. g.intent = f.intent /\ g.asks = f.asks
    OBVIOUS
  <2>2. flights' = (flights \ {f}) \cup {g} /\ routes' = routes
    BY <1>3 DEF Abort
  <2> HIDE DEF g
  <2> QED BY <2>1, <2>2 DEF RequestInv
<1>4. ASSUME NEW f \in flights, NEW seen, Settle(f, seen) PROVE RequestInv'
  BY <1>4 DEF Settle, RequestInv
<1>5. CASE CloseReads \/ TimePasses \/ (\E u \in Blockable : SetDisabled(u)) \/ UNCHANGED readVars
  BY <1>5 DEF CloseReads, TimePasses, SetDisabled, readVars, RequestInv
<1> QED BY <1>1, <1>2, <1>3, <1>4, <1>5 DEF ReadsNext

\* crates/lkjstr-relays/src/request_budget: whatever routes are known and relays
\* disabled when a read begins, its merged cap allows what its filters ask for,
\* and no filter asks a relay for more than it announced.
THEOREM RequestsFit == ReadsSpec => []RequestsFitTheCap
<1>1. RequestInv => RequestsFitTheCap
  <2> SUFFICES ASSUME RequestInv, NEW f \in flights, f.intent.purpose # "lookup"
               PROVE  LET relays == Flattened(f.asks.groups)
                          wanted == [w \in relays |-> SentLimit(f.intent, w) * f.intent.filters]
                      IN  /\ Min({EventsCap, SumFunction(wanted)}) <= MergedCap(f.intent, relays)
                          /\ \A w \in relays : \A m \in RelayMax[w] :
                                 m > 0 => SentLimit(f.intent, w) <= m
    BY DEF RequestsFitTheCap
  <2> DEFINE relays == Flattened(f.asks.groups)
  <2>1. f.intent \in Intents /\ relays \subseteq DOMAIN RelayMax
    BY DEF RequestInv
  <2> HIDE DEF relays
  <2>2. Min({EventsCap, SumFunction([w \in relays |-> SentLimit(f.intent, w) * f.intent.filters])})
          <= MergedCap(f.intent, relays)
    BY <2>1, CapAllowsWhatIsAsked
  <2>3. ASSUME NEW w \in relays, NEW m \in RelayMax[w], m > 0
        PROVE  SentLimit(f.intent, w) <= m
    <3>1. m \in Nat
      BY <2>1, ReadsAssumption DEF Optional
    <3> QED BY <2>1, <2>3, <3>1, FilterLimitFits, SentWithinBudget
  <2> QED BY <2>2, <2>3 DEF relays
<1> QED BY <1>1, RequestsStart, RequestsKeep, PTL DEF ReadsSpec

-----------------------------------------------------------------------------
(* The scores of relays *)

ScoreRows ==
    [reliability : Int, first : Int, eose : Int, useful : Int, unique : Int,
     penalty : Int, samples : Nat, at : Int]

ScoresInv ==
    /\ clock \in Nat
    /\ DOMAIN scores = DOMAIN RelayMax
    /\ \A w \in DOMAIN RelayMax : scores[w] \subseteq ScoreRows

LEMMA UnitIs ==
    ASSUME NEW n \in Int
    PROVE  Unit(n) = IF n <= 0 THEN 0 ELSE IF n <= Full THEN n ELSE Full
<1> DEFINE m == Min({Full, n})
<1>1. m = IF Full <= n THEN Full ELSE n
  <2>1. Full \in Int
    BY DEF Full
  <2> QED BY <2>1, ExtremeOfTwo
<1>2. Unit(n) = Max({0, m})
  BY DEF Unit
<1> HIDE DEF m
<1>3. m \in Int
  BY <1>1 DEF Full
<1>4. Unit(n) = IF 0 >= m THEN 0 ELSE m
  BY <1>2, <1>3, ExtremeOfTwo
<1> QED BY <1>1, <1>4 DEF Full

LEMMA SpeedIsWhole ==
    ASSUME NEW seconds, Optional(seconds)
    PROVE  Speed(seconds) \in Int
<1> DEFINE S == seconds \cup {10}
<1>1. IsFiniteSet(S) /\ S \subseteq Int /\ S # {}
  BY FS_AddElement DEF Optional
<1>2. Speed(seconds) = IF seconds = {} THEN 2500 ELSE Full - Min(S) * 1000
  BY DEF Speed
<1> HIDE DEF S
<1>3. Min(S) \in Int
  BY <1>1, FiniteHasExtremes
<1> QED BY <1>2, <1>3 DEF Full

LEMMA RatioIsWhole ==
    ASSUME NEW n \in Nat, NEW m \in Nat
    PROVE  Ratio(n, m) \in Int
<1>1. CASE m = 0
  BY <1>1 DEF Ratio
<1>2. CASE m # 0
  <2> DEFINE q == (n * Full) \div m
  <2>1. q \in Int
    BY <1>2 DEF Full
  <2>2. Ratio(n, m) = Unit(q)
    BY <1>2 DEF Ratio
  <2> HIDE DEF q
  <2> QED BY <2>1, <2>2, UnitIs DEF Full
<1> QED BY <1>1, <1>2

LEMMA PenaltyIsWhole == ASSUME NEW o PROVE Penalty(o) \in Int
<1> DEFINE Flag(name, weight) == IF name \in o.flags THEN weight ELSE 0
           sum == Flag("timeout", 3500) + Flag("error", 3000) + Flag("closed", 2000)
                  + Flag("auth", 2000) + Flag("full", 800)
<1>1. sum \in Int
  OBVIOUS
<1>2. Penalty(o) = Unit(sum)
  BY DEF Penalty
<1> HIDE DEF sum
<1> QED BY <1>1, <1>2, UnitIs DEF Full

LEMMA UpdatedIsRow ==
    ASSUME NEW s \in ScoreRows, NEW o \in Observations, NEW t \in Nat
    PROVE  Updated(s, o, t) \in ScoreRows
<1> DEFINE w == SmoothingWeight(s.samples)
           Smooth(old, new) == (old * (100 - w) + new * w) \div 100
<1>1. /\ s.reliability \in Int /\ s.first \in Int /\ s.eose \in Int /\ s.useful \in Int
      /\ s.unique \in Int /\ s.penalty \in Int /\ s.samples \in Nat
  BY DEF ScoreRows
<1>2. /\ Optional(o.first) /\ Optional(o.eose)
      /\ o.events \in Nat /\ o.unique \in Nat /\ o.final \in Nat
  BY ReadsAssumption
<1>3. w \in {100, 25, 10}
  BY DEF SmoothingWeight
<1>4. /\ Reliability(o) \in Int /\ Speed(o.first) \in Int /\ Speed(o.eose) \in Int
      /\ Useful(o) \in Int /\ Unique(o) \in Int /\ Penalty(o) \in Int
  <2>1. Reliability(o) \in Int
    BY DEF Reliability, Full, Neutral
  <2>2. Useful(o) \in Int
    <3> DEFINE m == IF o.final > 0 THEN o.final ELSE 10
    <3>1. m \in Nat
      BY <1>2
    <3>2. Useful(o) = Ratio(o.events, m)
      BY DEF Useful
    <3> HIDE DEF m
    <3> QED BY <1>2, <3>1, <3>2, RatioIsWhole
  <2> QED BY <1>2, <2>1, <2>2, SpeedIsWhole, RatioIsWhole, PenaltyIsWhole DEF Unique
<1>5. ASSUME NEW old \in Int, NEW new \in Int PROVE Smooth(old, new) \in Int
  <2> HIDE DEF w
  <2> DEFINE n == old * (100 - w) + new * w
  <2>1. n \in Int
    BY <1>3
  <2> HIDE DEF n
  <2>2. n \div 100 \in Int
    BY <2>1
  <2> QED BY <2>2 DEF n
<1> DEFINE a == Smooth(s.reliability, Reliability(o))
           b == Smooth(s.first, Speed(o.first))
           c == Smooth(s.eose, Speed(o.eose))
           d == Smooth(s.useful, Useful(o))
           e == Smooth(s.unique, Unique(o))
           p == Smooth(s.penalty, Penalty(o))
           n == s.samples + 1
<1>6. Updated(s, o, t) = [reliability |-> a, first |-> b, eose |-> c, useful |-> d,
                          unique |-> e, penalty |-> p, samples |-> n, at |-> t]
  BY DEF Updated
<1> HIDE DEF Smooth
<1>7. /\ a \in Int /\ b \in Int /\ c \in Int /\ d \in Int /\ e \in Int /\ p \in Int
      /\ n \in Nat /\ t \in Int
  <2>1. a \in Int
    BY <1>1, <1>4, <1>5
  <2>2. b \in Int
    BY <1>1, <1>4, <1>5
  <2>3. c \in Int
    BY <1>1, <1>4, <1>5
  <2>4. d \in Int
    BY <1>1, <1>4, <1>5
  <2>5. e \in Int
    BY <1>1, <1>4, <1>5
  <2>6. p \in Int
    BY <1>1, <1>4, <1>5
  <2>7. n \in Nat /\ t \in Int
    BY <1>1
  <2> QED BY <2>1, <2>2, <2>3, <2>4, <2>5, <2>6, <2>7
<1> HIDE DEF a, b, c, d, e, p, n
<1> QED BY <1>6, <1>7 DEF ScoreRows

LEMMA RowsAreRows ==
    ASSUME ScoresInv, NEW w \in DOMAIN RelayMax
    PROVE  RowOf(w) \in ScoreRows
<1>1. CASE scores[w] = {}
  <2>1. NewScore(clock) \in ScoreRows
    BY DEF NewScore, ScoreRows, ScoresInv, Neutral
  <2> QED BY <1>1, <2>1 DEF RowOf
<1>2. CASE scores[w] # {}
  <2>1. RowOf(w) \in scores[w]
    BY <1>2 DEF RowOf
  <2> QED BY <2>1 DEF ScoresInv
<1> QED BY <1>1, <1>2

LEMMA ScoresStart == ReadsInit => ScoresInv
BY DEF ReadsInit, ScoresInv

LEMMA ScoresKeep == ScoresInv /\ [ReadsNext]_readVars => ScoresInv'
<1> SUFFICES ASSUME ScoresInv, [ReadsNext]_readVars PROVE ScoresInv'
  OBVIOUS
<1>1. ASSUME UNCHANGED scores, clock' \in Nat PROVE ScoresInv'
  BY <1>1 DEF ScoresInv
<1>2. ASSUME UNCHANGED <<scores, clock>> PROVE ScoresInv'
  BY <1>1, <1>2 DEF ScoresInv
<1>3. ASSUME NEW r, Learn(r) PROVE ScoresInv'
  BY <1>2, <1>3 DEF Learn
<1>4. ASSUME NEW o, NEW i, AttachRead(o, i) PROVE ScoresInv'
  BY <1>2, <1>4 DEF AttachRead
<1>5. ASSUME NEW f, Abort(f) PROVE ScoresInv'
  BY <1>2, <1>5 DEF Abort
<1>6. ASSUME NEW f, NEW W, NEW seen \in [W -> Observations], Settle(f, seen) PROVE ScoresInv'
  <2> DEFINE new == [w \in DOMAIN scores |->
                        IF w \in DOMAIN seen THEN {Updated(RowOf(w), seen[w], clock)}
                        ELSE scores[w]]
  <2>1. scores' = new /\ clock' = clock
    BY <1>6 DEF Settle
  <2>2. DOMAIN new = DOMAIN RelayMax
    BY DEF ScoresInv
  <2>3. ASSUME NEW w \in DOMAIN RelayMax PROVE new[w] \subseteq ScoreRows
    <3>1. CASE w \in DOMAIN seen
      <4>1. RowOf(w) \in ScoreRows /\ seen[w] \in Observations /\ clock \in Nat
        BY <3>1, RowsAreRows DEF ScoresInv
      <4>2. Updated(RowOf(w), seen[w], clock) \in ScoreRows
        BY <4>1, UpdatedIsRow
      <4>3. new[w] = {Updated(RowOf(w), seen[w], clock)}
        BY <3>1 DEF ScoresInv
      <4> HIDE DEF new
      <4> QED BY <4>2, <4>3
    <3>2. CASE w \notin DOMAIN seen
      BY <3>2 DEF ScoresInv
    <3> QED BY <3>1, <3>2
  <2> HIDE DEF new
  <2> QED BY <2>1, <2>2, <2>3 DEF ScoresInv
<1>7. CASE CloseReads \/ (\E u \in Blockable : SetDisabled(u)) \/ UNCHANGED readVars
  BY <1>2, <1>7 DEF CloseReads, SetDisabled, readVars
<1>8. CASE TimePasses
  BY <1>1, <1>8 DEF TimePasses, ScoresInv
<1> QED BY <1>3, <1>4, <1>5, <1>6, <1>7, <1>8 DEF ReadsNext

-----------------------------------------------------------------------------
(* The order of the next read *)

\* One tuple of five numbers comes before another.
Larger(a, b) ==
    \/ a[1] > b[1]
    \/ a[1] = b[1] /\ a[2] > b[2]
    \/ a[1] = b[1] /\ a[2] = b[2] /\ a[3] > b[3]
    \/ a[1] = b[1] /\ a[2] = b[2] /\ a[3] = b[3] /\ a[4] > b[4]
    \/ a[1] = b[1] /\ a[2] = b[2] /\ a[3] = b[3] /\ a[4] = b[4] /\ a[5] > b[5]

LEMMA LargerIsOrder ==
    ASSUME NEW a, NEW b, NEW c, \A n \in 1..5 : a[n] \in Int /\ b[n] \in Int /\ c[n] \in Int
    PROVE  /\ ~Larger(a, a)
           /\ Larger(a, b) /\ Larger(b, c) => Larger(a, c)
           /\ a[5] # b[5] => Larger(a, b) \/ Larger(b, a)
<1>1. /\ a[1] \in Int /\ a[2] \in Int /\ a[3] \in Int /\ a[4] \in Int /\ a[5] \in Int
      /\ b[1] \in Int /\ b[2] \in Int /\ b[3] \in Int /\ b[4] \in Int /\ b[5] \in Int
      /\ c[1] \in Int /\ c[2] \in Int /\ c[3] \in Int /\ c[4] \in Int /\ c[5] \in Int
  OBVIOUS
<1> QED BY <1>1 DEF Larger

LEMMA FirstDifferenceIsLarger ==
    ASSUME NEW a, NEW b
    PROVE  (\E n \in 1..5 : a[n] > b[n] /\ \A m \in 1..(n - 1) : a[m] = b[m]) <=> Larger(a, b)
<1>1. ASSUME Larger(a, b)
      PROVE  \E n \in 1..5 : a[n] > b[n] /\ \A m \in 1..(n - 1) : a[m] = b[m]
  <2>1. CASE a[1] > b[1]
    <3>1. \A m \in 1..(1 - 1) : FALSE
      OBVIOUS
    <3> QED BY <2>1, <3>1
  <2>2. CASE a[1] = b[1] /\ a[2] > b[2]
    <3>1. \A m \in 1..(2 - 1) : m = 1
      OBVIOUS
    <3> QED BY <2>2, <3>1
  <2>3. CASE a[1] = b[1] /\ a[2] = b[2] /\ a[3] > b[3]
    <3>1. \A m \in 1..(3 - 1) : m = 1 \/ m = 2
      OBVIOUS
    <3> QED BY <2>3, <3>1
  <2>4. CASE a[1] = b[1] /\ a[2] = b[2] /\ a[3] = b[3] /\ a[4] > b[4]
    <3>1. \A m \in 1..(4 - 1) : m = 1 \/ m = 2 \/ m = 3
      OBVIOUS
    <3> QED BY <2>4, <3>1
  <2>5. CASE a[1] = b[1] /\ a[2] = b[2] /\ a[3] = b[3] /\ a[4] = b[4] /\ a[5] > b[5]
    <3>1. \A m \in 1..(5 - 1) : m = 1 \/ m = 2 \/ m = 3 \/ m = 4
      OBVIOUS
    <3> QED BY <2>5, <3>1
  <2> QED BY <1>1, <2>1, <2>2, <2>3, <2>4, <2>5 DEF Larger
<1>2. ASSUME NEW n \in 1..5, a[n] > b[n], \A m \in 1..(n - 1) : a[m] = b[m]
      PROVE  Larger(a, b)
  <2>1. CASE n = 1
    BY <1>2, <2>1 DEF Larger
  <2>2. CASE n = 2
    BY <1>2, <2>2 DEF Larger
  <2>3. CASE n = 3
    BY <1>2, <2>3 DEF Larger
  <2>4. CASE n = 4
    BY <1>2, <2>4 DEF Larger
  <2>5. CASE n = 5
    BY <1>2, <2>5 DEF Larger
  <2> QED BY <2>1, <2>2, <2>3, <2>4, <2>5
<1> QED BY <1>1, <1>2

RankOf(x) == <<ScoreAt(RowOf(x), clock), RowOf(x).reliability, RowOf(x).first, RowOf(x).eose, -x>>

LEMMA ScoreIs ==
    ASSUME NEW s \in ScoreRows, NEW t \in Nat
    PROVE  /\ Credit(s.at, t) \in Int /\ Weighed(s) \in Int
           /\ ScoreAt(s, t) = IF 0 >= Weighed(s) + Credit(s.at, t) * 5 THEN 0
                               ELSE Weighed(s) + Credit(s.at, t) * 5
<1>1. /\ s.reliability \in Int /\ s.first \in Int /\ s.eose \in Int /\ s.useful \in Int
      /\ s.unique \in Int /\ s.penalty \in Int /\ s.at \in Int
  BY DEF ScoreRows
<1>2. Weighed(s) \in Int
  BY <1>1 DEF Weighed
<1>3. Credit(s.at, t) \in Int
  <2>1. CASE t - s.at <= 1
    BY <2>1 DEF Credit
  <2>2. CASE ~(t - s.at <= 1)
    <3> DEFINE c == ((t - s.at - 1) * Full) \div 3
    <3>1. c \in Int
      BY <1>1 DEF Full
    <3>2. Credit(s.at, t) = Unit(c)
      BY <2>2 DEF Credit
    <3> HIDE DEF c
    <3> QED BY <3>1, <3>2, UnitIs DEF Full
  <2> QED BY <2>1, <2>2
<1> DEFINE all == Weighed(s) + Credit(s.at, t) * 5
<1>4. all \in Int
  BY <1>2, <1>3
<1>5. ScoreAt(s, t) = Max({0, all})
  BY DEF ScoreAt
<1> HIDE DEF all
<1>6. ScoreAt(s, t) = IF 0 >= all THEN 0 ELSE all
  BY <1>4, <1>5, ExtremeOfTwo
<1> QED BY <1>2, <1>3, <1>6 DEF all

LEMMA RanksAreNumbers ==
    ASSUME ScoresInv, NEW x \in DOMAIN RelayMax
    PROVE  \A n \in 1..5 : RankOf(x)[n] \in Int
<1>1. RowOf(x) \in ScoreRows /\ clock \in Nat /\ x \in Nat
  BY RowsAreRows, ReadsAssumption DEF ScoresInv
<1>2. ScoreAt(RowOf(x), clock) \in Int
  BY <1>1, ScoreIs
<1>3. RowOf(x).reliability \in Int /\ RowOf(x).first \in Int /\ RowOf(x).eose \in Int
  BY <1>1 DEF ScoreRows
<1> QED BY <1>1, <1>2, <1>3 DEF RankOf

LEMMA PrecedesIsOrder ==
    ASSUME ScoresInv, NEW u \in DOMAIN RelayMax, NEW v \in DOMAIN RelayMax, NEW w \in DOMAIN RelayMax
    PROVE  /\ ~Precedes(u, u)
           /\ Precedes(u, v) /\ Precedes(v, w) => Precedes(u, w)
           /\ u # v => Precedes(u, v) \/ Precedes(v, u)
<1>1. \A x, y \in DOMAIN RelayMax : Precedes(x, y) <=> Larger(RankOf(x), RankOf(y))
  <2> SUFFICES ASSUME NEW x \in DOMAIN RelayMax, NEW y \in DOMAIN RelayMax
               PROVE  Precedes(x, y) <=> Larger(RankOf(x), RankOf(y))
    OBVIOUS
  <2>1. Precedes(x, y) <=> \E n \in 1..5 : /\ RankOf(x)[n] > RankOf(y)[n]
                                           /\ \A m \in 1..(n - 1) : RankOf(x)[m] = RankOf(y)[m]
    BY DEF Precedes, RankOf
  <2> QED BY <2>1, FirstDifferenceIsLarger
<1>2. \A x \in DOMAIN RelayMax : \A n \in 1..5 : RankOf(x)[n] \in Int
  BY RanksAreNumbers
<1>3. u # v => RankOf(u)[5] # RankOf(v)[5]
  BY ReadsAssumption DEF RankOf
<1> DEFINE a == RankOf(u)
           b == RankOf(v)
           c == RankOf(w)
<1>4. \A n \in 1..5 : a[n] \in Int /\ b[n] \in Int /\ c[n] \in Int
  BY <1>2
<1> HIDE DEF a, b, c
<1>5. /\ ~Larger(a, a)
      /\ Larger(a, b) /\ Larger(b, c) => Larger(a, c)
      /\ a[5] # b[5] => Larger(a, b) \/ Larger(b, a)
  BY <1>4, LargerIsOrder
<1> QED BY <1>1, <1>3, <1>5 DEF a, b, c

\* Longer waiting is a larger credit, and so a larger score.
LEMMA WaitingRaisesTheScore ==
    ASSUME NEW s \in ScoreRows, NEW t \in ScoreRows, NEW time \in Nat,
           [s EXCEPT !.at = 0] = [t EXCEPT !.at = 0], Weighed(s) > 0,
           time - s.at > 1, s.at < t.at, time - t.at < 4
    PROVE  ScoreAt(s, time) > ScoreAt(t, time)
<1>1. s.at \in Int /\ t.at \in Int
  BY DEF ScoreRows
<1>2. Weighed(t) = Weighed(s)
  <2> DEFINE a == [s EXCEPT !.at = 0]
             b == [t EXCEPT !.at = 0]
  <2>1. /\ a.reliability = s.reliability /\ a.first = s.first /\ a.eose = s.eose
        /\ a.useful = s.useful /\ a.unique = s.unique /\ a.penalty = s.penalty
        /\ b.reliability = t.reliability /\ b.first = t.first /\ b.eose = t.eose
        /\ b.useful = t.useful /\ b.unique = t.unique /\ b.penalty = t.penalty
    BY DEF ScoreRows
  <2>2. a = b
    OBVIOUS
  <2> HIDE DEF a, b
  <2> QED BY <2>1, <2>2 DEF Weighed
<1> DEFINE d == time - s.at
           e == time - t.at
           p == ((d - 1) * 10000) \div 3
           q == ((e - 1) * 10000) \div 3
<1>3. d \in Int /\ e \in Int /\ e < d /\ d > 1 /\ e < 4
  BY <1>1
<1>4. /\ Credit(s.at, time) = Unit(p)
      /\ Credit(t.at, time) = IF e <= 1 THEN 0 ELSE Unit(q)
  BY <1>3 DEF Credit, Full
<1> HIDE DEF d, e
<1>5. p \in Int /\ q \in Int
  BY <1>3
<1>6. /\ d >= 2 => p > 0
      /\ d >= 3 => p > 3333
      /\ d >= 4 => p >= 10000
      /\ e = 2 => q = 3333
      /\ e = 3 => q = 6666
      /\ d = 3 => p = 6666
  BY <1>3
<1> HIDE DEF p, q
<1>7. /\ Unit(p) = IF p <= 0 THEN 0 ELSE IF p <= 10000 THEN p ELSE 10000
      /\ Unit(q) = IF q <= 0 THEN 0 ELSE IF q <= 10000 THEN q ELSE 10000
  BY <1>5, UnitIs DEF Full
<1>8. Credit(s.at, time) > Credit(t.at, time) /\ Credit(t.at, time) >= 0
  <2>1. CASE e <= 1
    BY <1>3, <1>4, <1>5, <1>6, <1>7, <2>1
  <2>2. CASE e = 2
    BY <1>3, <1>4, <1>5, <1>6, <1>7, <2>2
  <2>3. CASE e = 3
    BY <1>3, <1>4, <1>5, <1>6, <1>7, <2>3
  <2> QED BY <1>3, <2>1, <2>2, <2>3
<1>9. /\ Credit(s.at, time) \in Int /\ Weighed(s) \in Int /\ Credit(t.at, time) \in Int
      /\ ScoreAt(s, time) = IF 0 >= Weighed(s) + Credit(s.at, time) * 5 THEN 0
                             ELSE Weighed(s) + Credit(s.at, time) * 5
      /\ ScoreAt(t, time) = IF 0 >= Weighed(t) + Credit(t.at, time) * 5 THEN 0
                             ELSE Weighed(t) + Credit(t.at, time) * 5
  BY ScoreIs
<1> QED BY <1>2, <1>8, <1>9

\* Who precedes another has fewer before it, so its place is its own.
LEMMA PlacesFollowPrecedence ==
    ASSUME ScoresInv, NEW relays, relays \subseteq DOMAIN RelayMax,
           NEW v \in relays, NEW w \in relays, Precedes(v, w)
    PROVE  /\ Cardinality({u \in relays : Precedes(u, v)}) \in Nat
           /\ Cardinality({u \in relays : Precedes(u, w)}) \in Nat
           /\ Cardinality({u \in relays : Precedes(u, v)})
                < Cardinality({u \in relays : Precedes(u, w)})
           /\ Cardinality({u \in relays : Precedes(u, w)}) < Cardinality(relays)
<1> DEFINE A(x) == {u \in relays : Precedes(u, x)}
<1>1. IsFiniteSet(relays)
  BY ReadsAssumption, FS_Subset
<1>2. \A x, y \in DOMAIN RelayMax : ~Precedes(x, x)
  BY PrecedesIsOrder
<1>3. A(v) \subseteq A(w) /\ v \in A(w) /\ v \notin A(v)
  <2>1. \A u \in relays : Precedes(u, v) => Precedes(u, w)
    BY PrecedesIsOrder
  <2> QED BY <1>2, <2>1
<1>4. A(w) \subseteq relays /\ w \notin A(w)
  BY <1>2
<1> DEFINE B == A(v)
           C == A(w)
<1>5. B \subseteq C /\ v \in C /\ v \notin B /\ C \subseteq relays /\ w \notin C
  BY <1>3, <1>4
<1> HIDE DEF B, C
<1>6. IsFiniteSet(C) /\ IsFiniteSet(B) /\ Cardinality(C) \in Nat /\ Cardinality(B) \in Nat
      /\ Cardinality(relays) \in Nat
  <2>1. IsFiniteSet(C)
    BY <1>1, <1>5, FS_Subset
  <2>2. IsFiniteSet(B)
    BY <1>5, <2>1, FS_Subset
  <2> QED BY <1>1, <2>1, <2>2, FS_CardinalityType
<1>7. Cardinality(B) < Cardinality(C)
  <2>1. B \subseteq C \ {v} /\ IsFiniteSet(C \ {v}) /\ Cardinality(C \ {v}) = Cardinality(C) - 1
    BY <1>5, <1>6, FS_RemoveElement
  <2>2. Cardinality(B) <= Cardinality(C \ {v})
    BY <2>1, FS_Subset
  <2> QED BY <1>6, <2>1, <2>2
<1>8. Cardinality(C) < Cardinality(relays)
  <2>1. C \subseteq relays \ {w} /\ IsFiniteSet(relays \ {w})
        /\ Cardinality(relays \ {w}) = Cardinality(relays) - 1
    BY <1>1, <1>5, FS_RemoveElement
  <2>2. Cardinality(C) <= Cardinality(relays \ {w})
    BY <2>1, FS_Subset
  <2> QED BY <1>6, <2>1, <2>2
<1> QED BY <1>6, <1>7, <1>8 DEF B, C

LEMMA OrderedPlaces ==
    ASSUME ScoresInv, NEW relays, relays \subseteq DOMAIN RelayMax,
           NEW v \in relays, NEW w \in relays, Precedes(v, w)
    PROVE  \E m, n \in DOMAIN Ordered(relays) :
              m < n /\ Ordered(relays)[m] = v /\ Ordered(relays)[n] = w
<1> DEFINE C(x) == Cardinality({u \in relays : Precedes(u, x)})
           At(n) == CHOOSE x \in relays : C(x) = n - 1
           total == Cardinality(relays)
<1>1. C(v) \in Nat /\ C(w) \in Nat /\ C(v) < C(w) /\ C(w) < total /\ total \in Nat
  <2>1. total \in Nat
    BY ReadsAssumption, FS_Subset, FS_CardinalityType
  <2> QED BY <2>1, PlacesFollowPrecedence
<1>2. \A x, y \in relays : Precedes(x, y) => C(x) \in Nat /\ C(y) \in Nat /\ C(x) < C(y)
  BY PlacesFollowPrecedence
<1>3. \A x, y \in relays : x # y => Precedes(x, y) \/ Precedes(y, x)
  BY PrecedesIsOrder
<1>4. Ordered(relays) = [n \in 1..total |-> At(n)]
  BY DEF Ordered
<1> HIDE DEF C
<1>5. \A x, y \in relays : C(x) = C(y) => x = y
  BY <1>2, <1>3
<1>6. At(C(v) + 1) = v /\ At(C(w) + 1) = w
  <2>1. ASSUME NEW y \in relays, C(y) \in Nat PROVE At(C(y) + 1) = y
    <3> DEFINE z == At(C(y) + 1)
    <3>1. z \in relays /\ C(z) = (C(y) + 1) - 1
      BY <2>1
    <3> HIDE DEF z
    <3>2. C(z) = C(y)
      BY <2>1, <3>1
    <3> QED BY <1>5, <3>1, <3>2 DEF z
  <2> QED BY <1>1, <2>1
<1> HIDE DEF At, total
<1>7. C(v) + 1 \in 1..total /\ C(w) + 1 \in 1..total /\ C(v) + 1 < C(w) + 1
  BY <1>1
<1>8. DOMAIN Ordered(relays) = 1..total
  BY <1>4
<1> QED BY <1>4, <1>6, <1>7, <1>8

\* crates/lkjstr-relays/src/read_score: of two relays with one record the one
\* that waited longer is asked first, after any reads and at any time.
THEOREM WaitingPays == ReadsSpec => []WaitingIsRewarded
<1>1. ScoresInv => WaitingIsRewarded
  <2> SUFFICES ASSUME ScoresInv PROVE WaitingIsRewarded
    OBVIOUS
  <2> DEFINE relays == {w \in DOMAIN scores : scores[w] # {}}
  <2>1. relays \subseteq DOMAIN RelayMax /\ clock \in Nat
    BY DEF ScoresInv
  <2> HIDE DEF relays
  <2>2. ASSUME NEW v \in relays, NEW w \in relays,
               [RowOf(v) EXCEPT !.at = 0] = [RowOf(w) EXCEPT !.at = 0], Weighed(RowOf(v)) > 0,
               clock - RowOf(v).at > 1, RowOf(v).at < RowOf(w).at, clock - RowOf(w).at < 4
        PROVE  \E m, n \in DOMAIN Ordered(relays) :
                  m < n /\ Ordered(relays)[m] = v /\ Ordered(relays)[n] = w
    <3>1. RowOf(v) \in ScoreRows /\ RowOf(w) \in ScoreRows
      BY <2>1, RowsAreRows
    <3>2. ScoreAt(RowOf(v), clock) > ScoreAt(RowOf(w), clock)
      <4> DEFINE s == RowOf(v)
                 t == RowOf(w)
      <4>1. /\ s \in ScoreRows /\ t \in ScoreRows /\ [s EXCEPT !.at = 0] = [t EXCEPT !.at = 0]
            /\ Weighed(s) > 0 /\ clock - s.at > 1 /\ s.at < t.at /\ clock - t.at < 4
        BY <2>2, <3>1
      <4> HIDE DEF s, t
      <4>2. ScoreAt(s, clock) > ScoreAt(t, clock)
        BY <2>1, <4>1, WaitingRaisesTheScore
      <4> QED BY <4>2 DEF s, t
    <3>3. Precedes(v, w)
      <4>1. \A m \in 1..(1 - 1) : FALSE
        OBVIOUS
      <4> QED BY <3>2, <4>1 DEF Precedes
    <3> QED BY <2>1, <3>3, OrderedPlaces
  <2> QED BY <2>2 DEF WaitingIsRewarded, relays
<1> QED BY <1>1, ScoresStart, ScoresKeep, PTL DEF ReadsSpec

-----------------------------------------------------------------------------
(* Reading positions *)

\* Every row there may ever be.
AnyRow == ToSet(FirstRows) \cup {NewRow}

\* A list of different rows, laid out at heights of their own.
Laid(rs, hs) ==
    /\ rs \in Seq(AnyRow)
    /\ \A i, j \in 1 .. Len(rs) : rs[i] = rs[j] => i = j
    /\ \A i \in 1 .. Len(rs) : hs[rs[i]] \in Nat \ {0}

\* A row begins where the one before it ends.
LEMMA TopsAdd ==
    ASSUME NEW rs, NEW hs, Laid(rs, hs)
    PROVE  /\ Len(rs) \in Nat /\ DOMAIN rs = 1 .. Len(rs)
           /\ TopOf(rs, hs, 1) = 0
           /\ \A i \in 1 .. Len(rs) + 1 : TopOf(rs, hs, i) \in Nat
           /\ \A i \in 1 .. Len(rs) :
                 TopOf(rs, hs, i + 1) = TopOf(rs, hs, i) + hs[rs[i]]
<1> DEFINE f == [j \in DOMAIN rs |-> hs[rs[j]]]
<1>1. Len(rs) \in Nat /\ DOMAIN rs = 1 .. Len(rs)
  BY DEF Laid
<1>2. \A i : TopOf(rs, hs, i) = SumFunctionOnSet(f, 1 .. i - 1)
  BY DEF TopOf
<1>3. \A i \in 1 .. Len(rs) : f[i] = hs[rs[i]] /\ f[i] \in Nat
  BY <1>1 DEF Laid
<1> HIDE DEF f
<1>4. \A n \in Nat : IsFiniteSet(1 .. n)
  BY FS_Interval
<1>5. TopOf(rs, hs, 1) = 0
  <2> DEFINE none == {}
  <2>1. 1 .. 1 - 1 = none
    OBVIOUS
  <2>2. IsFiniteSet(none) /\ \A x \in none : f[x] \in Int
    BY FS_EmptySet
  <2>3. none = {} => SumFunctionOnSet(f, none) = 0
    <3> HIDE DEF none
    <3> QED BY <2>2, SumTakesOne
  <2> QED BY <1>2, <2>1, <2>3
<1>6. ASSUME NEW i \in 1 .. Len(rs) + 1 PROVE TopOf(rs, hs, i) \in Nat
  <2> DEFINE above == 1 .. i - 1
  <2>1. IsFiniteSet(above) /\ \A x \in above : f[x] \in Nat
    BY <1>1, <1>3, <1>4
  <2>2. SumFunctionOnSet(f, above) \in Nat
    <3> HIDE DEF above
    <3> QED BY <2>1, SumIsNatural
  <2> QED BY <1>2, <2>2
<1>7. ASSUME NEW i \in 1 .. Len(rs)
      PROVE  TopOf(rs, hs, i + 1) = TopOf(rs, hs, i) + hs[rs[i]]
  <2> DEFINE upto == 1 .. i
             above == 1 .. i - 1
  <2>1. IsFiniteSet(upto) /\ (\A x \in upto : f[x] \in Int) /\ i \in upto
    BY <1>1, <1>3, <1>4
  <2>2. upto \ {i} = above /\ 1 .. (i + 1) - 1 = upto
    BY <1>1
  <2>3. SumFunctionOnSet(f, upto) = f[i] + SumFunctionOnSet(f, upto \ {i})
    <3> HIDE DEF upto
    <3> QED BY <2>1, SumTakesAny
  <2>4. TopOf(rs, hs, i + 1) = SumFunctionOnSet(f, upto)
    BY <1>2, <2>2
  <2>5. TopOf(rs, hs, i) = SumFunctionOnSet(f, above)
    BY <1>2
  <2>6. i \in 1 .. Len(rs) + 1
    BY <1>1
  <2>7. f[i] = hs[rs[i]] /\ f[i] \in Nat /\ TopOf(rs, hs, i) \in Nat
    BY <1>3, <1>6, <2>6
  <2>8. SumFunctionOnSet(f, upto \ {i}) = TopOf(rs, hs, i)
    BY <2>2, <2>5
  <2>9. TopOf(rs, hs, i + 1) = f[i] + TopOf(rs, hs, i)
    <3> HIDE DEF upto
    <3> QED BY <2>3, <2>4, <2>8
  <2> HIDE DEF upto, above
  <2> QED BY <2>7, <2>9
<1> QED BY <1>1, <1>5, <1>6, <1>7

\* A later row begins below an earlier one.
LEMMA TopsRise ==
    ASSUME NEW rs, NEW hs, Laid(rs, hs),
           NEW i \in 1 .. Len(rs), NEW j \in 1 .. Len(rs) + 1, i < j
    PROVE  TopOf(rs, hs, i) + hs[rs[i]] <= TopOf(rs, hs, j)
<1> DEFINE T == {n \in Nat : i < n /\ n <= Len(rs) + 1 =>
                                TopOf(rs, hs, i) + hs[rs[i]] <= TopOf(rs, hs, n)}
<1>1. Len(rs) \in Nat /\ \A k \in 1 .. Len(rs) : hs[rs[k]] \in Nat
  BY DEF Laid
<1>2. /\ \A k \in 1 .. Len(rs) + 1 : TopOf(rs, hs, k) \in Nat
      /\ \A k \in 1 .. Len(rs) : TopOf(rs, hs, k + 1) = TopOf(rs, hs, k) + hs[rs[k]]
  BY TopsAdd
<1>3. ASSUME NEW n \in T PROVE n + 1 \in T
  <2> SUFFICES ASSUME i < n + 1, n + 1 <= Len(rs) + 1
               PROVE  TopOf(rs, hs, i) + hs[rs[i]] <= TopOf(rs, hs, n + 1)
    OBVIOUS
  <2>1. n \in 1 .. Len(rs) /\ n \in 1 .. Len(rs) + 1 /\ i \in 1 .. Len(rs) + 1
    BY <1>1
  <2>2. TopOf(rs, hs, n + 1) = TopOf(rs, hs, n) + hs[rs[n]]
    BY <1>2, <2>1
  <2>3. CASE n = i
    BY <1>1, <1>2, <2>1, <2>2, <2>3
  <2>4. CASE i < n
    <3>1. TopOf(rs, hs, i) + hs[rs[i]] <= TopOf(rs, hs, n)
      BY <1>1, <2>1, <2>4
    <3>2. /\ TopOf(rs, hs, i) \in Nat /\ TopOf(rs, hs, n) \in Nat
          /\ hs[rs[i]] \in Nat /\ hs[rs[n]] \in Nat
      BY <1>1, <1>2, <2>1
    <3> QED BY <2>2, <3>1, <3>2
  <2> QED BY <1>1, <2>1, <2>3, <2>4
<1>4. 0 \in T /\ T \subseteq Nat
  BY <1>1
<1>5. \A n \in Nat : n \in T
  <2> HIDE DEF T
  <2> QED BY <1>3, <1>4, UpToEveryNumber
<1> QED BY <1>1, <1>5

\* When no row shrinks, what the rows moved by rises from row to row.
LEMMA GapsWiden ==
    ASSUME NEW rs, NEW hs, NEW all, Laid(rs, hs), Laid(rs, all),
           \A k \in 1 .. Len(rs) : hs[rs[k]] <= all[rs[k]],
           NEW i \in 1 .. Len(rs) + 1, NEW j \in 1 .. Len(rs) + 1, i <= j
    PROVE  TopOf(rs, all, i) - TopOf(rs, hs, i) <= TopOf(rs, all, j) - TopOf(rs, hs, j)
<1> DEFINE Lead(k) == TopOf(rs, all, k) - TopOf(rs, hs, k)
           T == {n \in Nat : i <= n /\ n <= Len(rs) + 1 => Lead(i) <= Lead(n)}
<1>1. /\ Len(rs) \in Nat
      /\ \A k \in 1 .. Len(rs) : hs[rs[k]] \in Nat /\ all[rs[k]] \in Nat
  BY DEF Laid
<1>2. /\ \A k \in 1 .. Len(rs) + 1 : Lead(k) \in Int
      /\ \A k \in 1 .. Len(rs) : Lead(k + 1) = Lead(k) + (all[rs[k]] - hs[rs[k]])
  <2>1. /\ \A k \in 1 .. Len(rs) + 1 : TopOf(rs, hs, k) \in Nat
        /\ \A k \in 1 .. Len(rs) : TopOf(rs, hs, k + 1) = TopOf(rs, hs, k) + hs[rs[k]]
    BY TopsAdd
  <2>2. /\ \A k \in 1 .. Len(rs) + 1 : TopOf(rs, all, k) \in Nat
        /\ \A k \in 1 .. Len(rs) : TopOf(rs, all, k + 1) = TopOf(rs, all, k) + all[rs[k]]
    BY TopsAdd
  <2>3. \A k \in 1 .. Len(rs) : k \in 1 .. Len(rs) + 1
    BY <1>1
  <2>4. \A k \in 1 .. Len(rs) + 1 : Lead(k) \in Int
    BY <2>1, <2>2
  <2>5. ASSUME NEW k \in 1 .. Len(rs)
        PROVE  Lead(k + 1) = Lead(k) + (all[rs[k]] - hs[rs[k]])
    <3>1. /\ TopOf(rs, hs, k) \in Nat /\ TopOf(rs, all, k) \in Nat
          /\ hs[rs[k]] \in Nat /\ all[rs[k]] \in Nat
      BY <1>1, <2>1, <2>2, <2>3
    <3>2. /\ TopOf(rs, hs, k + 1) = TopOf(rs, hs, k) + hs[rs[k]]
          /\ TopOf(rs, all, k + 1) = TopOf(rs, all, k) + all[rs[k]]
      BY <2>1, <2>2
    <3> QED BY <3>1, <3>2
  <2> HIDE DEF Lead
  <2> QED BY <2>4, <2>5
<1> HIDE DEF Lead
<1>3. ASSUME NEW n \in T PROVE n + 1 \in T
  <2> SUFFICES ASSUME i <= n + 1, n + 1 <= Len(rs) + 1 PROVE Lead(i) <= Lead(n + 1)
    OBVIOUS
  <2>1. CASE i = n + 1
    BY <1>2, <2>1
  <2>2. CASE i <= n
    <3>1. n \in 1 .. Len(rs) /\ n \in 1 .. Len(rs) + 1
      BY <1>1, <2>2
    <3>2. Lead(i) <= Lead(n)
      BY <1>1, <2>2, <3>1
    <3>3. Lead(n + 1) = Lead(n) + (all[rs[n]] - hs[rs[n]])
      BY <1>2, <3>1
    <3>4. all[rs[n]] - hs[rs[n]] \in Nat
      BY <1>1, <3>1
    <3>5. Lead(n) \in Int /\ Lead(i) \in Int
      BY <1>2, <3>1
    <3> QED BY <3>2, <3>3, <3>4, <3>5
  <2> QED BY <1>1, <2>1, <2>2
<1>4. 0 \in T /\ T \subseteq Nat
  BY <1>1
<1>5. \A n \in Nat : n \in T
  <2> HIDE DEF T
  <2> QED BY <1>3, <1>4, UpToEveryNumber
<1> QED BY <1>1, <1>5 DEF Lead

\* What rows below do does not move a row.
LEMMA TopSame ==
    ASSUME NEW rs, NEW hs, NEW all, Laid(rs, hs), Laid(rs, all),
           NEW n \in 1 .. Len(rs) + 1,
           \A k \in 1 .. n - 1 : hs[rs[k]] = all[rs[k]]
    PROVE  TopOf(rs, hs, n) = TopOf(rs, all, n)
<1> DEFINE f == [j \in DOMAIN rs |-> hs[rs[j]]]
           g == [j \in DOMAIN rs |-> all[rs[j]]]
           above == 1 .. n - 1
<1>1. Len(rs) \in Nat /\ DOMAIN rs = 1 .. Len(rs)
  BY DEF Laid
<1>2. IsFiniteSet(above)
  BY <1>1, FS_Interval
<1>3. \A x \in above : f[x] \in Int /\ g[x] \in Int /\ f[x] <= g[x] /\ g[x] <= f[x]
  BY <1>1 DEF Laid
<1>4. TopOf(rs, hs, n) = SumFunctionOnSet(f, above)
      /\ TopOf(rs, all, n) = SumFunctionOnSet(g, above)
  BY DEF TopOf
<1> HIDE DEF f, g, above
<1>5. SumFunctionOnSet(f, above) <= SumFunctionOnSet(g, above)
  BY <1>2, <1>3, SumGrows
<1>6. SumFunctionOnSet(g, above) <= SumFunctionOnSet(f, above)
  BY <1>2, <1>3, SumGrows
<1>7. SumFunctionOnSet(f, above) \in Int /\ SumFunctionOnSet(g, above) \in Int
  BY <1>2, <1>3, SumIsWhole
<1> QED BY <1>4, <1>5, <1>6, <1>7

\* A row put first moves the others by its height.
LEMMA TopShifts ==
    ASSUME NEW rs, NEW hs, NEW r, Laid(rs, hs), Laid(<<r>> \o rs, hs),
           NEW n \in 1 .. Len(rs) + 1
    PROVE  TopOf(<<r>> \o rs, hs, n + 1) = hs[r] + TopOf(rs, hs, n)
<1> DEFINE more == <<r>> \o rs
           T == {k \in Nat : k \in 1 .. Len(rs) + 1 =>
                                TopOf(more, hs, k + 1) = hs[r] + TopOf(rs, hs, k)}
<1>1. /\ Len(rs) \in Nat /\ Len(more) = Len(rs) + 1
      /\ more[1] = r /\ \A k \in 1 .. Len(rs) : more[k + 1] = rs[k]
  BY DEF Laid
<1>2. Laid(more, hs)
  OBVIOUS
<1> HIDE DEF more
<1>3. /\ TopOf(rs, hs, 1) = 0
      /\ \A k \in 1 .. Len(rs) + 1 : TopOf(rs, hs, k) \in Nat
      /\ \A k \in 1 .. Len(rs) : TopOf(rs, hs, k + 1) = TopOf(rs, hs, k) + hs[rs[k]]
  BY TopsAdd
<1>4. /\ TopOf(more, hs, 1) = 0
      /\ \A k \in 1 .. Len(more) : TopOf(more, hs, k + 1) = TopOf(more, hs, k) + hs[more[k]]
  BY <1>2, TopsAdd
<1>5. \A k \in 1 .. Len(more) : hs[more[k]] \in Nat
  BY <1>2 DEF Laid
<1>6. ASSUME NEW k \in T PROVE k + 1 \in T
  <2> SUFFICES ASSUME k + 1 \in 1 .. Len(rs) + 1
               PROVE  TopOf(more, hs, (k + 1) + 1) = hs[r] + TopOf(rs, hs, k + 1)
    OBVIOUS
  <2>1. CASE k = 0
    <3>1. 1 \in 1 .. Len(more) /\ 2 \in 1 .. Len(more) + 1
      BY <1>1
    <3>2. TopOf(more, hs, 1 + 1) = 0 + hs[r]
      BY <1>1, <1>4, <3>1
    <3>3. hs[r] \in Nat
      BY <1>1, <1>5, <3>1
    <3> QED BY <1>3, <2>1, <3>2, <3>3
  <2>2. CASE k # 0
    <3>1. k \in 1 .. Len(rs) /\ k \in 1 .. Len(rs) + 1 /\ k + 1 \in 1 .. Len(more)
          /\ 1 \in 1 .. Len(more)
      BY <1>1, <2>2
    <3>2. TopOf(more, hs, k + 1) = hs[r] + TopOf(rs, hs, k)
      BY <3>1
    <3>3. TopOf(more, hs, (k + 1) + 1) = TopOf(more, hs, k + 1) + hs[rs[k]]
      BY <1>1, <1>4, <3>1
    <3>4. TopOf(rs, hs, k + 1) = TopOf(rs, hs, k) + hs[rs[k]]
      BY <1>3, <3>1
    <3>5. hs[r] \in Nat /\ hs[rs[k]] \in Nat
      BY <1>1, <1>5, <3>1
    <3> QED BY <1>3, <3>1, <3>2, <3>3, <3>4, <3>5
  <2> QED BY <2>1, <2>2
<1>7. 0 \in T /\ T \subseteq Nat
  OBVIOUS
<1>8. \A k \in Nat : k \in T
  <2> HIDE DEF T
  <2> QED BY <1>6, <1>7, UpToEveryNumber
<1> QED BY <1>1, <1>8 DEF more

\* The row at the top of the viewport is the one with that line.
LEMMA VisibleIs ==
    ASSUME NEW rs, NEW hs, Laid(rs, hs), NEW t \in Nat, NEW i \in 1 .. Len(rs),
           TopOf(rs, hs, i) <= t, t < TopOf(rs, hs, i) + hs[rs[i]]
    PROVE  FirstVisible(rs, hs, t) = i
<1> DEFINE Top(k) == TopOf(rs, hs, k)
           End(k) == TopOf(rs, hs, k) + hs[rs[k]]
           First(k) == End(k) > t /\ \A j \in 1 .. k - 1 : End(j) <= t
<1>1. Len(rs) \in Nat /\ DOMAIN rs = 1 .. Len(rs)
  BY DEF Laid
<1>2. FirstVisible(rs, hs, t) = CHOOSE k \in 1 .. Len(rs) : First(k)
  BY <1>1 DEF FirstVisible
<1>3. \A k \in 1 .. Len(rs) : Top(k) \in Nat /\ End(k) \in Nat
  <2>1. \A k \in 1 .. Len(rs) : k \in 1 .. Len(rs) + 1 /\ hs[rs[k]] \in Nat
    BY <1>1 DEF Laid
  <2> QED BY <2>1, TopsAdd
<1>4. \A k, j \in 1 .. Len(rs) : k < j => End(k) <= Top(j)
  <2>1. \A j \in 1 .. Len(rs) : j \in 1 .. Len(rs) + 1
    BY <1>1
  <2> QED BY <2>1, TopsRise
<1>5. Top(i) <= t /\ t < End(i)
  OBVIOUS
<1> HIDE DEF Top, End
<1>6. First(i)
  <2>1. \A j \in 1 .. i - 1 : j \in 1 .. Len(rs) /\ j < i
    BY <1>1
  <2>2. \A j \in 1 .. i - 1 : End(j) <= t
    BY <1>3, <1>4, <1>5, <2>1
  <2> QED BY <1>3, <1>5, <2>2
<1>7. ASSUME NEW k \in 1 .. Len(rs), First(k) PROVE k = i
  <2>1. ~(k < i)
    BY <1>3, <1>4, <1>5, <1>7
  <2>2. ~(i < k)
    <3>1. i < k => i \in 1 .. k - 1
      BY <1>1
    <3> QED BY <1>3, <1>5, <1>7, <3>1
  <2> QED BY <1>1, <2>1, <2>2
<1> HIDE DEF First
<1> QED BY <1>2, <1>6, <1>7

\* Every line above the end belongs to a row.
LEMMA RowAtTop ==
    ASSUME NEW rs, NEW hs, Laid(rs, hs), NEW t \in Nat, t < TopOf(rs, hs, Len(rs) + 1)
    PROVE  \E i \in 1 .. Len(rs) :
              TopOf(rs, hs, i) <= t /\ t < TopOf(rs, hs, i) + hs[rs[i]]
<1> DEFINE At(i) == TopOf(rs, hs, i) <= t /\ t < TopOf(rs, hs, i) + hs[rs[i]]
           T == {n \in Nat : n <= Len(rs) /\ t < TopOf(rs, hs, n + 1) =>
                                \E i \in 1 .. Len(rs) : At(i)}
<1>1. Len(rs) \in Nat
  BY DEF Laid
<1>2. /\ TopOf(rs, hs, 1) = 0
      /\ \A k \in 1 .. Len(rs) + 1 : TopOf(rs, hs, k) \in Nat
      /\ \A k \in 1 .. Len(rs) : TopOf(rs, hs, k + 1) = TopOf(rs, hs, k) + hs[rs[k]]
  BY TopsAdd
<1>3. ASSUME NEW n \in T PROVE n + 1 \in T
  <2> SUFFICES ASSUME n + 1 <= Len(rs), t < TopOf(rs, hs, (n + 1) + 1)
               PROVE  \E i \in 1 .. Len(rs) : At(i)
    OBVIOUS
  <2>1. n + 1 \in 1 .. Len(rs) /\ n + 1 \in 1 .. Len(rs) + 1 /\ n <= Len(rs)
    BY <1>1
  <2>2. TopOf(rs, hs, n + 1) \in Nat
        /\ TopOf(rs, hs, (n + 1) + 1) = TopOf(rs, hs, n + 1) + hs[rs[n + 1]]
    BY <1>2, <2>1
  <2>3. CASE t < TopOf(rs, hs, n + 1)
    BY <2>1, <2>3
  <2>4. CASE ~(t < TopOf(rs, hs, n + 1))
    <3>1. At(n + 1)
      BY <2>2, <2>4
    <3> HIDE DEF At
    <3> QED BY <2>1, <3>1
  <2> QED BY <2>3, <2>4
<1>4. 0 \in T /\ T \subseteq Nat
  BY <1>2
<1>5. \A n \in Nat : n \in T
  <2> HIDE DEF T
  <2> QED BY <1>3, <1>4, UpToEveryNumber
<1> HIDE DEF At
<1>6. Len(rs) \in T
  <2> HIDE DEF T
  <2> QED BY <1>1, <1>5
<1>7. \E i \in 1 .. Len(rs) : At(i)
  BY <1>1, <1>6
<1> QED BY <1>7 DEF At

LEMMA PlaceOfRow ==
    ASSUME NEW rs, NEW hs, Laid(rs, hs), NEW i \in 1 .. Len(rs)
    PROVE  IndexOf(rs, rs[i]) = i /\ RowTop(rs, hs, rs[i]) = TopOf(rs, hs, i)
<1>1. DOMAIN rs = 1 .. Len(rs)
  BY DEF Laid
<1>2. IndexOf(rs, rs[i]) = i
  BY <1>1 DEF IndexOf, Laid
<1> QED BY <1>2 DEF RowTop

\* A scroll position the list is long enough for is left as it is.
LEMMA ScrolledIs ==
    ASSUME NEW rs, NEW hs, Laid(rs, hs), NEW t \in Nat,
           t + Viewport <= TopOf(rs, hs, Len(rs) + 1)
    PROVE  Scrolled(rs, hs, t) = t /\ t <= MaxTop(rs, hs)
<1> DEFINE total == TopOf(rs, hs, Len(rs) + 1)
<1>1. total \in Nat
  <2>1. Len(rs) \in Nat
    BY DEF Laid
  <2> QED BY <2>1, TopsAdd
<1>2. Viewport \in Nat
  BY AnchorAssumption
<1>3. MaxTop(rs, hs) = Max({total - Viewport, 0})
  BY DEF MaxTop
<1>4. t + Viewport <= total
  OBVIOUS
<1> HIDE DEF total
<1>5. total - Viewport \in Int /\ total - Viewport >= t
  BY <1>1, <1>2, <1>4
<1>6. MaxTop(rs, hs) = total - Viewport
  <2>1. Max({total - Viewport, 0}) = IF total - Viewport >= 0 THEN total - Viewport ELSE 0
    BY <1>5, ExtremeOfTwo
  <2> QED BY <1>3, <1>5, <2>1
<1>7. Max({t, 0}) = t
  BY ExtremeOfTwo
<1>8. Min({t, MaxTop(rs, hs)}) = t
  <2> DEFINE m == MaxTop(rs, hs)
  <2>1. m \in Int /\ t <= m /\ t \in Int
    BY <1>5, <1>6
  <2> HIDE DEF m
  <2>2. Min({t, m}) = IF t <= m THEN t ELSE m
    BY <2>1, ExtremeOfTwo
  <2> QED BY <2>1, <2>2 DEF m
<1> QED BY <1>5, <1>6, <1>7, <1>8 DEF Scrolled

\* What the user scrolls to is a line the list is long enough for.
LEMMA ScrollsWithin ==
    ASSUME NEW rs, NEW hs, Laid(rs, hs), NEW t \in 0 .. MaxTop(rs, hs)
    PROVE  /\ t \in Nat
           /\ t # 0 => t + Viewport <= TopOf(rs, hs, Len(rs) + 1)
<1> DEFINE total == TopOf(rs, hs, Len(rs) + 1)
<1>1. total \in Nat
  <2>1. Len(rs) \in Nat
    BY DEF Laid
  <2> QED BY <2>1, TopsAdd
<1>2. Viewport \in Nat
  BY AnchorAssumption
<1>3. MaxTop(rs, hs) = Max({total - Viewport, 0})
  BY DEF MaxTop
<1> HIDE DEF total
<1>4. Max({total - Viewport, 0}) = IF total - Viewport >= 0 THEN total - Viewport ELSE 0
  BY <1>1, <1>2, ExtremeOfTwo
<1>5. t \in Nat /\ t <= Max({total - Viewport, 0})
  BY <1>1, <1>2, <1>3, <1>4
<1>6. t # 0 => t + Viewport <= total
  BY <1>1, <1>2, <1>4, <1>5
<1> QED BY <1>5, <1>6 DEF total

\* The beginning of the list can always be scrolled to.
LEMMA ScrolledToZero ==
    ASSUME NEW rs, NEW hs, Laid(rs, hs)
    PROVE  Scrolled(rs, hs, 0) = 0
<1> DEFINE total == TopOf(rs, hs, Len(rs) + 1)
           m == MaxTop(rs, hs)
<1>1. total \in Nat
  <2>1. Len(rs) \in Nat
    BY DEF Laid
  <2> QED BY <2>1, TopsAdd
<1>2. Viewport \in Nat
  BY AnchorAssumption
<1>3. m = Max({total - Viewport, 0})
  BY DEF MaxTop
<1> HIDE DEF total, m
<1>4. m = IF total - Viewport >= 0 THEN total - Viewport ELSE 0
  BY <1>1, <1>2, <1>3, ExtremeOfTwo
<1>5. m \in Nat
  BY <1>1, <1>2, <1>4
<1>6. Max({0, 0}) = 0 /\ Min({0, m}) = 0
  BY <1>5, ExtremeOfTwo
<1> QED BY <1>6 DEF Scrolled, m

-----------------------------------------------------------------------------
(* The observers of a frame, one after the other.                           *)

\* The batch over every set of places, the last place last.
BatchOver(start, hs, g) ==
    g = [s \in SUBSET DOMAIN rows |->
            IF s = {} THEN start ELSE Observed(g[s \ {Max(s)}], hs, rows[Max(s)])]

LEMMA BatchesExist ==
    ASSUME DOMAIN rows \subseteq Nat, IsFiniteSet(DOMAIN rows), NEW start, NEW hs
    PROVE  \E g : BatchOver(start, hs, g)
<1> DEFINE S == DOMAIN rows
           Then(g, s) == IF s = {} THEN start
                         ELSE Observed(g[s \ {Max(s)}], hs, rows[Max(s)])
           Right(g, n) == \A s \in SUBSET S : Cardinality(s) <= n => g[s] = Then(g, s)
           T == {n \in Nat : \E g : Right(g, n)}
<1>0. S \subseteq Nat /\ IsFiniteSet(S)
  OBVIOUS
<1> HIDE DEF S
<1>1. \A s \in SUBSET S : IsFiniteSet(s) /\ Cardinality(s) \in Nat /\ s \subseteq Int
  <2>1. \A s \in SUBSET S : IsFiniteSet(s) /\ Cardinality(s) \in Nat
    BY <1>0, FS_Subset, FS_CardinalityType
  <2>2. \A s \in SUBSET S : s \subseteq Int
    BY <1>0
  <2> QED BY <2>1, <2>2
<1>2. ASSUME NEW s \in SUBSET S, s # {}
      PROVE  /\ s \ {Max(s)} \in SUBSET S
             /\ Cardinality(s \ {Max(s)}) = Cardinality(s) - 1
  <2>1. Max(s) \in s
    BY <1>1, <1>2, FiniteHasExtremes
  <2> QED BY <1>1, <2>1, FS_RemoveElement
<1>3. 0 \in T
  <2> DEFINE g == [s \in SUBSET S |-> start]
  <2>1. ASSUME NEW s \in SUBSET S, Cardinality(s) <= 0 PROVE g[s] = Then(g, s)
    <3>1. s = {}
      BY <1>1, <2>1, FS_EmptySet
    <3> QED BY <3>1
  <2> HIDE DEF g, Then
  <2> QED BY <2>1
<1>4. ASSUME NEW n \in T PROVE n + 1 \in T
  <2>1. PICK g : Right(g, n)
    OBVIOUS
  <2> DEFINE h == [s \in SUBSET S |-> Then(g, s)]
  <2>2. ASSUME NEW s \in SUBSET S, Cardinality(s) <= n PROVE h[s] = g[s]
    BY <2>1, <2>2
  <2>3. ASSUME NEW s \in SUBSET S, Cardinality(s) <= n + 1 PROVE h[s] = Then(h, s)
    <3>1. CASE s = {}
      BY <3>1
    <3>2. CASE s # {}
      <4> DEFINE t == s \ {Max(s)}
      <4>1. t \in SUBSET S /\ Cardinality(t) <= n
        BY <1>1, <1>2, <2>3, <3>2
      <4>2. h[t] = g[t]
        <5> HIDE DEF t, h
        <5> QED BY <2>2, <4>1
      <4>3. h[s] = Observed(g[t], hs, rows[Max(s)])
        BY <3>2
      <4> HIDE DEF h
      <4> QED BY <3>2, <4>2, <4>3
    <3> QED BY <3>1, <3>2
  <2>4. Right(h, n + 1)
    <3> HIDE DEF h, Then
    <3> QED BY <2>3
  <2> HIDE DEF Right
  <2> QED BY <2>4
<1>5. \A n \in Nat : n \in T
  <2>1. T \subseteq Nat
    OBVIOUS
  <2> HIDE DEF T
  <2> QED BY <1>3, <1>4, <2>1, UpToEveryNumber
<1>6. PICK g : Right(g, Cardinality(S))
  BY <1>1, <1>5
<1> DEFINE h == [s \in SUBSET S |-> g[s]]
<1>7. ASSUME NEW s \in SUBSET S PROVE h[s] = Then(h, s)
  <2>1. Cardinality(s) <= Cardinality(S)
    BY <1>0, FS_Subset
  <2>2. g[s] = Then(g, s)
    BY <1>6, <2>1
  <2> QED BY <1>2, <2>2
<1>8. h = [s \in SUBSET S |-> h[s]]
  OBVIOUS
<1>9. h = [s \in SUBSET S |-> Then(h, s)]
  <2> HIDE DEF h, Then
  <2> QED BY <1>7, <1>8
<1> HIDE DEF h
<1> QED BY <1>9 DEF BatchOver, S

\* A batch calls one observer after another, in the order of their rows.
LEMMA BatchGoesDown ==
    ASSUME rows \in Seq(AnyRow), NEW start, NEW hs
    PROVE  \E b : /\ b[0] = start
                  /\ \A n \in 1 .. Len(rows) : b[n] = Observed(b[n - 1], hs, rows[n])
                  /\ Batch(start, hs) = b[Len(rows)]
<1>1. /\ Len(rows) \in Nat /\ DOMAIN rows = 1 .. Len(rows)
      /\ IsFiniteSet(DOMAIN rows) /\ DOMAIN rows \subseteq Nat
  BY FS_Interval
<1>2. \E g : BatchOver(start, hs, g)
  BY <1>1, BatchesExist
<1>3. PICK g : BatchOver(start, hs, g) /\ Batch(start, hs) = g[DOMAIN rows]
  <2>1. Batch(start, hs) = (CHOOSE g : BatchOver(start, hs, g))[DOMAIN rows]
    BY DEF Batch, FoldLeft, MapThenFoldSet, BatchOver
  <2> QED BY <1>2, <2>1
<1> DEFINE b == [n \in 0 .. Len(rows) |-> g[1 .. n]]
<1>4. \A s \in SUBSET DOMAIN rows :
        g[s] = IF s = {} THEN start ELSE Observed(g[s \ {Max(s)}], hs, rows[Max(s)])
  BY <1>3 DEF BatchOver
<1>5. b[0] = start
  <2>1. 1 .. 0 = {}
    OBVIOUS
  <2>2. g[{}] = start
    BY <1>4
  <2> QED BY <1>1, <2>1, <2>2
<1>6. ASSUME NEW n \in 1 .. Len(rows) PROVE b[n] = Observed(b[n - 1], hs, rows[n])
  <2> DEFINE s == 1 .. n
  <2>1. s \in SUBSET DOMAIN rows /\ s # {} /\ s \ {n} = 1 .. n - 1
    BY <1>1
  <2>2. Max(s) = n
    <3>1. IsFiniteSet(s) /\ s \subseteq Int /\ n \in s /\ \A x \in s : x <= n
      BY <1>1, FS_Interval
    <3> HIDE DEF s
    <3>2. Max(s) \in s /\ \A y \in s : Max(s) >= y
      BY <2>1, <3>1, FiniteHasExtremes
    <3>3. Max(s) \in Int /\ n \in Int /\ Max(s) <= n /\ Max(s) >= n
      BY <3>1, <3>2
    <3> QED BY <3>3
  <2>3. g[s] = Observed(g[s \ {n}], hs, rows[n])
    <3> HIDE DEF s
    <3> QED BY <1>4, <2>1, <2>2
  <2>4. b[n] = g[s] /\ b[n - 1] = g[1 .. n - 1]
    BY <1>1
  <2> QED BY <2>1, <2>3, <2>4
<1>7. b[Len(rows)] = Batch(start, hs)
  BY <1>1, <1>3
<1> HIDE DEF b
<1> QED BY <1>5, <1>6, <1>7

-----------------------------------------------------------------------------
(* The reading position.                                                    *)

\* The line of an anchor, once rows are laid out at the heights hs.
LineOf(hs, a) == RowTop(rows, hs, a.row) + a.offset

\* The anchor was recorded at or above the present position.
Recorded(x) == x = <<>> \/ (x = <<x[1]>> /\ x[1].at \in 1 .. top)

Here(a) == [row |-> a.row, offset |-> a.offset, at |-> top]

\* The reader's line is inside a shown row, and the list goes on below it.
Readable(a) ==
    /\ a.row \in ToSet(rows) /\ a.offset \in Nat /\ a.offset < height[a.row]
    /\ LineOf(height, a) + Viewport <= TopOf(rows, height, Len(rows) + 1)

\* The view is at the line, and the scroll position has been recorded.
Settled(a) == ~event /\ later = <<>> /\ supp = -1 /\ top = LineOf(height, a)
              /\ cur = <<Here(a)>>
\* The view has moved to the line, and the scroll event is still to come.
Moved(a) == event /\ later = <<>> /\ supp \in {-1, top} /\ top = LineOf(height, a)
\* A row was put first, and the view will be moved to the line.
Restoring(a) == ~event /\ supp = -1 /\ later = << <<"restore", Here(a)>> >>
                /\ top < LineOf(height, a)

\* The view was left above the line by growth that ended just at its top.
Adrift(a) == ~event /\ later = <<>> /\ supp = -1 /\ top < LineOf(height, a)
             /\ cur = <<Here(a)>>

Unread == top = 0 /\ ~event /\ later = <<>> /\ supp = -1 /\ cur = <<>> /\ prv = <<>>

Following(a) ==
    /\ Readable(a) /\ top \in Nat \ {0} /\ Recorded(cur) /\ Recorded(prv)
    /\ Settled(a) \/ Moved(a) \/ Restoring(a) \/ (missed /\ Adrift(a))

RowsInv ==
    /\ rows \in {FirstRows, <<NewRow>> \o FirstRows}
    /\ DOMAIN height = AnyRow /\ DOMAIN known = AnyRow
    /\ \A r \in AnyRow : height[r] \in Nat \ {0} /\ known[r] \in {0, height[r]}

ReaderInv ==
    /\ RowsInv
    /\ calm /\ down =>
          IF reading = <<>> THEN Unread
          ELSE \E a : Following(a) /\ (~missed => a = reading[1])

\* The rows shown are a list, at whatever heights.
LEMMA RowsAreLaid ==
    ASSUME NEW rs, rs \in {FirstRows, <<NewRow>> \o FirstRows}, NEW hs,
           \A r \in AnyRow : hs[r] \in Nat \ {0}
    PROVE  /\ Laid(rs, hs) /\ ToSet(rs) \subseteq AnyRow
           /\ \A r \in ToSet(rs) : \E i \in 1 .. Len(rs) : r = rs[i]
           /\ \A i \in 1 .. Len(rs) : rs[i] \in ToSet(rs) /\ rs[i] \in AnyRow
<1>1. /\ FirstRows \in Seq(AnyRow) /\ NewRow \notin ToSet(FirstRows)
      /\ DOMAIN FirstRows = 1 .. Len(FirstRows) /\ Len(FirstRows) \in Nat
      /\ \A i, j \in 1 .. Len(FirstRows) : FirstRows[i] = FirstRows[j] => i = j
      /\ \A i \in 1 .. Len(FirstRows) : FirstRows[i] \in ToSet(FirstRows)
  <2>1. FirstRows \in Seq(ToSet(FirstRows))
    BY AnchorAssumption DEF AnchorAssumption
  <2>2. /\ DOMAIN FirstRows = 1 .. Len(FirstRows) /\ Len(FirstRows) \in Nat
        /\ \A i \in 1 .. Len(FirstRows) : FirstRows[i] \in ToSet(FirstRows)
    BY <2>1
  <2>3. FirstRows \in Seq(AnyRow)
    <3>1. ToSet(FirstRows) \subseteq AnyRow
      BY DEF AnyRow
    <3> QED BY <2>1, <3>1
  <2> QED BY <2>2, <2>3, AnchorAssumption DEF AnchorAssumption
<1>2. rs \in Seq(AnyRow) /\ \A i, j \in 1 .. Len(rs) : rs[i] = rs[j] => i = j
  <2>1. CASE rs = FirstRows
    BY <1>1, <2>1
  <2>2. CASE rs = <<NewRow>> \o FirstRows
    <3>1. rs \in Seq(AnyRow) /\ Len(rs) = Len(FirstRows) + 1 /\ rs[1] = NewRow
      BY <1>1, <2>2 DEF AnyRow
    <3>2. \A i \in 2 .. Len(rs) : i - 1 \in 1 .. Len(FirstRows) /\ rs[i] = FirstRows[i - 1]
      BY <1>1, <2>2, <3>1
    <3>3. \A i \in 2 .. Len(rs) : rs[i] # rs[1]
      BY <1>1, <3>1, <3>2
    <3>4. \A i \in 1 .. Len(rs) : i = 1 \/ i \in 2 .. Len(rs)
      BY <1>1, <3>1
    <3>5. ASSUME NEW i \in 2 .. Len(rs), NEW j \in 2 .. Len(rs), rs[i] = rs[j]
          PROVE  i = j
      <4>1. /\ i - 1 \in 1 .. Len(FirstRows) /\ j - 1 \in 1 .. Len(FirstRows)
            /\ FirstRows[i - 1] = FirstRows[j - 1]
        BY <3>2, <3>5
      <4>2. i - 1 = j - 1
        BY <1>1, <4>1
      <4> QED BY <1>1, <3>1, <4>2
    <3> QED BY <3>1, <3>3, <3>4, <3>5
  <2> QED BY <2>1, <2>2
<1>3. /\ DOMAIN rs = 1 .. Len(rs) /\ \A i \in 1 .. Len(rs) : rs[i] \in AnyRow
      /\ ToSet(rs) = {rs[i] : i \in 1 .. Len(rs)}
  BY <1>2 DEF ToSet
<1> QED BY <1>2, <1>3 DEF Laid

\* What a callback compares its row with: the recorded position, or one above.
LEMMA Compares ==
    ASSUME NEW a, top \in Nat \ {0}, cur = <<Here(a)>>, Recorded(prv), NEW r,
           NEW s, s.supp = -1, s.top = top
    PROVE  /\ ScrollTopExcept(s, r) \in Nat /\ ScrollTopExcept(s, r) <= top
           /\ r # a.row => ScrollTopExcept(s, r) = top
<1> DEFINE ats == {x.at : x \in Kept(r)}
<1>1. ToSet(cur) = {Here(a)}
  BY DEF ToSet
<1>2. ToSet(prv) = {} \/ (ToSet(prv) = {prv[1]} /\ prv[1].at \in 1 .. top)
  BY DEF ToSet, Recorded
<1>3. Here(a).at = top /\ Here(a).row = a.row
  BY DEF Here
<1>4. ats \subseteq 1 .. top /\ (r # a.row => top \in ats)
  <2>1. \A x \in Kept(r) : x.at \in 1 .. top
    BY <1>1, <1>2, <1>3 DEF Kept
  <2>2. r # a.row => Here(a) \in Kept(r)
    BY <1>1, <1>3 DEF Kept
  <2> QED BY <1>3, <2>1, <2>2
<1>5. Kept(r) = {} <=> ats = {}
  OBVIOUS
<1>6. ScrollTopExcept(s, r) = IF ats = {} THEN top ELSE Max(ats)
  BY <1>5 DEF ScrollTopExcept
<1>7. IsFiniteSet(ats)
  <2>1. IsFiniteSet(1 .. top)
    BY FS_Interval
  <2> HIDE DEF ats
  <2> QED BY <1>4, <2>1, FS_Subset
<1> HIDE DEF ats
<1>8. ats # {} => Max(ats) \in ats /\ \A y \in ats : Max(ats) >= y
  <2>1. ats \subseteq Int
    BY <1>4
  <2> QED BY <1>7, <2>1, FiniteHasExtremes
<1>9. ats # {} => Max(ats) \in Nat /\ Max(ats) <= top
  <2>1. \A x \in ats : x \in Nat /\ x <= top
    BY <1>4
  <2> QED BY <1>8, <2>1
<1>10. r # a.row => ats # {} /\ Max(ats) >= top
  BY <1>4, <1>8
<1> QED BY <1>6, <1>9, <1>10

\* Rows only grow, those with an observer that knows them.
Grows(all) ==
    /\ \A r \in AnyRow : all[r] \in Nat \ {0} /\ height[r] <= all[r]
    /\ \A r \in ToSet(rows) : height[r] # all[r] => known[r] = height[r]

\* No row that grew comes to end just at the present position.
NoneMeetsTop(all) ==
    \A r \in ToSet(rows) : height[r] # all[r] => RowTop(rows, all, r) + all[r] # top

\* The position was recorded for the line, which is there or below.
Tracked(a) ==
    /\ Readable(a) /\ top \in Nat \ {0} /\ top <= LineOf(height, a)
    /\ cur = <<Here(a)>> /\ Recorded(prv)

Still == [top |-> top, event |-> FALSE, supp |-> -1, later |-> <<>>]
Shifted(t) == [top |-> t, event |-> TRUE, supp |-> t, later |-> <<>>]

\* A callback that moves the view notes where it moved it.
LEMMA SuppressedIs ==
    ASSUME NEW t
    PROVE  /\ Suppressed(Shifted(t), t) = Shifted(t)
           /\ t # top => Suppressed(Still, t) = Shifted(t)
<1>1. Suppressed(Shifted(t), t) = Shifted(t)
  <2> DEFINE s == Shifted(t)
             flag == s.event \/ t # s.top
             set == SetTop(s, t)
  <2>1. set = [s EXCEPT !.top = t, !.event = flag]
    BY DEF SetTop
  <2>2. flag = TRUE
    BY DEF Shifted
  <2>3. s = [top |-> t, event |-> TRUE, supp |-> t, later |-> <<>>]
    BY DEF Shifted
  <2>4. Suppressed(s, t) = [set EXCEPT !.supp = t]
    BY DEF Suppressed
  <2> HIDE DEF s, flag, set
  <2>5. set = [s EXCEPT !.top = t, !.event = TRUE]
    BY <2>1, <2>2
  <2>6. Suppressed(s, t) = [top |-> t, event |-> TRUE, supp |-> t, later |-> <<>>]
    BY <2>3, <2>4, <2>5
  <2> QED BY <2>6 DEF s, Shifted
<1>2. ASSUME t # top PROVE Suppressed(Still, t) = Shifted(t)
  <2> DEFINE s == Still
             flag == s.event \/ t # s.top
             set == SetTop(s, t)
  <2>1. set = [s EXCEPT !.top = t, !.event = flag]
    BY DEF SetTop
  <2>2. flag = TRUE
    BY <1>2 DEF Still
  <2>3. s = [top |-> top, event |-> FALSE, supp |-> -1, later |-> <<>>]
    BY DEF Still
  <2>4. Suppressed(s, t) = [set EXCEPT !.supp = t]
    BY DEF Suppressed
  <2> HIDE DEF s, flag, set
  <2>5. set = [s EXCEPT !.top = t, !.event = TRUE]
    BY <2>1, <2>2
  <2>6. Suppressed(s, t) = [top |-> t, event |-> TRUE, supp |-> t, later |-> <<>>]
    BY <2>3, <2>4, <2>5
  <2> QED BY <2>6 DEF s, Shifted
<1> QED BY <1>1, <1>2

\* Where the reader's line goes when rows grow.
LEMMA LineMoves ==
    ASSUME RowsInv, NEW all, Grows(all), NEW a, Readable(a),
           NEW i \in 1 .. Len(rows), a.row = rows[i]
    PROVE  /\ LineOf(height, a) = TopOf(rows, height, i) + a.offset
           /\ LineOf(all, a) = TopOf(rows, all, i) + a.offset
           /\ LineOf(height, a) \in Nat /\ LineOf(all, a) \in Nat
           /\ LineOf(height, a) + Viewport <= TopOf(rows, all, Len(rows) + 1)
           /\ LineOf(all, a) + Viewport <= TopOf(rows, all, Len(rows) + 1)
           /\ LineOf(height, a) <= LineOf(all, a)
           /\ (\E k \in 1 .. i - 1 : height[rows[k]] # all[rows[k]])
                 => LineOf(height, a) < LineOf(all, a)
           /\ (\A k \in 1 .. i - 1 : height[rows[k]] = all[rows[k]])
                 => LineOf(height, a) = LineOf(all, a)
<1> DEFINE L == Len(rows)
           Old(k) == TopOf(rows, height, k)
           New(k) == TopOf(rows, all, k)
<1>1. /\ Laid(rows, height) /\ Laid(rows, all)
      /\ \A k \in 1 .. L : rows[k] \in AnyRow
  BY RowsAreLaid DEF RowsInv, Grows
<1>2. L \in Nat /\ i \in 1 .. L /\ i \in 1 .. L + 1 /\ L + 1 \in 1 .. L + 1 /\ 1 \in 1 .. L + 1
  BY <1>1, TopsAdd
<1>3. /\ Old(1) = 0 /\ New(1) = 0
      /\ \A k \in 1 .. L + 1 : Old(k) \in Nat /\ New(k) \in Nat
      /\ \A k \in 1 .. L : /\ Old(k + 1) = Old(k) + height[rows[k]]
                           /\ New(k + 1) = New(k) + all[rows[k]]
  BY <1>1, TopsAdd
<1>4. \A k \in 1 .. L : /\ height[rows[k]] \in Nat /\ all[rows[k]] \in Nat
                        /\ height[rows[k]] <= all[rows[k]]
  BY <1>1 DEF RowsInv, Grows
<1>5. \A k, j \in 1 .. L + 1 : k <= j => New(k) - Old(k) <= New(j) - Old(j)
  BY <1>1, <1>4, GapsWiden
<1>6. LineOf(height, a) = Old(i) + a.offset /\ LineOf(all, a) = New(i) + a.offset
  BY <1>1, PlaceOfRow DEF LineOf
<1>7. (\A k \in 1 .. i - 1 : height[rows[k]] = all[rows[k]]) => Old(i) = New(i)
  BY <1>1, <1>2, TopSame
<1>8. a.offset \in Nat /\ Viewport \in Nat /\ LineOf(height, a) + Viewport <= Old(L + 1)
  BY AnchorAssumption DEF Readable
<1> HIDE DEF Old, New
<1>9. ASSUME NEW k \in 1 .. i - 1, height[rows[k]] # all[rows[k]] PROVE Old(i) < New(i)
  <2>1. k \in 1 .. L /\ k \in 1 .. L + 1 /\ k + 1 \in 1 .. L + 1 /\ k + 1 <= i /\ 1 <= k
    BY <1>2
  <2>2. New(1) - Old(1) <= New(k) - Old(k) /\ New(k + 1) - Old(k + 1) <= New(i) - Old(i)
    BY <1>2, <1>5, <2>1
  <2>3. /\ Old(k) \in Nat /\ New(k) \in Nat /\ Old(i) \in Nat /\ New(i) \in Nat
        /\ Old(k + 1) = Old(k) + height[rows[k]] /\ New(k + 1) = New(k) + all[rows[k]]
        /\ height[rows[k]] \in Nat /\ all[rows[k]] \in Nat /\ height[rows[k]] < all[rows[k]]
    BY <1>2, <1>3, <1>4, <1>9, <2>1
  <2>4. Old(k) <= New(k)
    BY <1>3, <2>2, <2>3
  <2>5. Old(k + 1) < New(k + 1)
    BY <2>3, <2>4
  <2>6. Old(k + 1) \in Nat /\ New(k + 1) \in Nat
    BY <1>3, <2>1
  <2> QED BY <2>2, <2>3, <2>5, <2>6
<1>10. /\ Old(i) \in Nat /\ New(i) \in Nat /\ Old(L + 1) \in Nat /\ New(L + 1) \in Nat
       /\ New(1) - Old(1) <= New(i) - Old(i) /\ New(i) - Old(i) <= New(L + 1) - Old(L + 1)
       /\ Old(1) = 0 /\ New(1) = 0
  BY <1>2, <1>3, <1>5
<1>11. Old(i) <= New(i)
  BY <1>10
<1>12. /\ LineOf(height, a) + Viewport <= New(L + 1)
       /\ LineOf(all, a) + Viewport <= New(L + 1)
  BY <1>6, <1>8, <1>10
<1>13. /\ LineOf(height, a) \in Nat /\ LineOf(all, a) \in Nat
       /\ LineOf(height, a) <= LineOf(all, a)
       /\ (Old(i) < New(i) => LineOf(height, a) < LineOf(all, a))
       /\ (Old(i) = New(i) => LineOf(height, a) = LineOf(all, a))
  <2>1. a.offset \in Nat /\ Old(i) \in Nat /\ New(i) \in Nat /\ Old(i) <= New(i)
    BY <1>8, <1>10, <1>11
  <2>2. LineOf(height, a) = Old(i) + a.offset /\ LineOf(all, a) = New(i) + a.offset
    BY <1>6
  <2> QED BY <2>1, <2>2
<1> QED BY <1>6, <1>7, <1>9, <1>12, <1>13 DEF Old, New

\* A callback moves a view at rest only to the reader's line, and leaves a view
\* that was moved there.  A view at the line is moved for the first row that grew
\* above it, unless a row came to end just at the top of the view.
LEMMA ObserverFollows ==
    ASSUME RowsInv, NEW all, Grows(all), NEW a, Tracked(a),
           NEW i \in 1 .. Len(rows), a.row = rows[i], NEW n \in 1 .. Len(rows)
    PROVE  /\ Observed(Shifted(LineOf(all, a)), all, rows[n]) = Shifted(LineOf(all, a))
           /\ Observed(Still, all, rows[n]) \in {Still, Shifted(LineOf(all, a))}
           /\ /\ top = LineOf(height, a) /\ NoneMeetsTop(all)
              /\ \A k \in 1 .. n - 1 : k < i => height[rows[k]] = all[rows[k]]
              => Observed(Still, all, rows[n])
                    = IF n < i /\ height[rows[n]] # all[rows[n]]
                      THEN Shifted(LineOf(all, a)) ELSE Still
<1> DEFINE r == rows[n]
           line == LineOf(all, a)
           moved == Shifted(line)
<1>1. /\ Laid(rows, height) /\ Laid(rows, all) /\ ToSet(rows) \subseteq AnyRow
      /\ r \in ToSet(rows) /\ r \in AnyRow
  BY RowsAreLaid DEF RowsInv, Grows
<1>2. /\ line \in Nat /\ line = TopOf(rows, all, i) + a.offset
      /\ LineOf(height, a) = TopOf(rows, height, i) + a.offset
      /\ top \in Nat /\ top <= LineOf(height, a)
      /\ line + Viewport <= TopOf(rows, all, Len(rows) + 1)
      /\ (\E k \in 1 .. i - 1 : height[rows[k]] # all[rows[k]]) => top < line
  <2>1. LineOf(height, a) \in Nat /\ top \in Nat /\ top <= LineOf(height, a)
    BY LineMoves DEF Tracked
  <2>2. /\ line \in Nat /\ line = TopOf(rows, all, i) + a.offset
        /\ LineOf(height, a) = TopOf(rows, height, i) + a.offset
        /\ line + Viewport <= TopOf(rows, all, Len(rows) + 1)
        /\ (\E k \in 1 .. i - 1 : height[rows[k]] # all[rows[k]]) => LineOf(height, a) < line
    BY LineMoves DEF Tracked
  <2> HIDE DEF line
  <2> QED BY <2>1, <2>2
<1>3. AnchorTop(rows, all, Here(a)) = line
  <2>1. AnchorTop(rows, all, Here(a)) = Scrolled(rows, all, line)
    BY DEF AnchorTop, Here, LineOf
  <2> HIDE DEF line
  <2> QED BY <1>1, <1>2, <2>1, ScrolledIs
<1>4. /\ height[r] \in Nat \ {0} /\ all[r] \in Nat \ {0} /\ height[r] <= all[r]
      /\ known[r] \in {0, height[r]}
      /\ height[r] # all[r] => known[r] = height[r]
      /\ NoneMeetsTop(all) /\ height[r] # all[r] => RowTop(rows, all, r) + all[r] # top
  BY <1>1 DEF RowsInv, Grows, NoneMeetsTop
<1>5. RowTop(rows, all, r) = TopOf(rows, all, n) /\ TopOf(rows, all, n) \in Nat
  <2>1. Len(rows) \in Nat /\ n \in 1 .. Len(rows) + 1
    BY <1>1, TopsAdd
  <2> QED BY <1>1, <2>1, PlaceOfRow, TopsAdd
<1>6. CASE known[r] = 0 \/ height[r] = all[r]
  <2>1. known[r] = 0 \/ all[r] - known[r] = 0
    BY <1>4, <1>6
  <2>2. \A s : Observed(s, all, r) = s
    BY <2>1 DEF Observed, ResizeCallback
  <2>3. known[r] = 0 => height[r] = all[r]
    BY <1>4
  <2> QED BY <1>6, <2>2, <2>3
<1>7. CASE known[r] # 0 /\ height[r] # all[r]
  <2>1. /\ known[r] = height[r] /\ all[r] - known[r] # 0 /\ all[r] - known[r] > 0
        /\ ~(all[r] - known[r] < 0)
    BY <1>4, <1>7
  <2> DEFINE before == TopOf(rows, all, n) + height[r]
             after == TopOf(rows, all, n) + all[r]
             Sight(s) == Restorable(s, all, r)
  <2>2. \A s : Observed(s, all, r) =
          IF \/ ScrollTopExcept(s, r) = 0 \/ after = ScrollTopExcept(s, r)
             \/ before > ScrollTopExcept(s, r)
          THEN s
          ELSE IF Sight(s) # <<>>
          THEN Suppressed(s, AnchorTop(rows, all, Sight(s)[1]))
          ELSE IF before < ScrollTopExcept(s, r) /\ ScrollTopExcept(s, r) < after
          THEN SetLater(s, after)
          ELSE SetLater(s, ScrollTopExcept(s, r) + (all[r] - known[r]))
    BY <1>5, <1>7, <2>1 DEF Observed, ResizeCallback
  <2>3. \A s : r # a.row => Sight(s) = cur /\ Sight(s) # <<>> /\ Sight(s)[1] = Here(a)
    <3>1. cur = <<Here(a)>> /\ cur # <<>> /\ cur[1] = Here(a) /\ cur[1].row = a.row
      BY DEF Tracked, Here
    <3>2. a.row \in ToSet(rows)
      BY DEF Tracked, Readable
    <3> QED BY <3>1, <3>2 DEF Restorable
  <2>4. before \in Nat /\ after \in Nat /\ (NoneMeetsTop(all) => after # top)
    BY <1>4, <1>5, <1>7
  <2>5. n >= i => before > top /\ before > line
    <3> SUFFICES ASSUME n >= i PROVE before > top /\ before > line
      OBVIOUS
    <3>1. a.offset \in Nat /\ a.offset < height[rows[i]]
      BY DEF Tracked, Readable
    <3>2. /\ Len(rows) \in Nat /\ i \in 1 .. Len(rows) + 1 /\ n \in 1 .. Len(rows) + 1
          /\ TopOf(rows, height, i) \in Nat /\ TopOf(rows, all, i) \in Nat
      <4>1. Len(rows) \in Nat
        BY <1>1, TopsAdd
      <4>2. i \in 1 .. Len(rows) + 1 /\ n \in 1 .. Len(rows) + 1
        BY <4>1
      <4> QED BY <1>1, <4>1, <4>2, TopsAdd
    <3>3. height[rows[i]] \in Nat /\ all[rows[i]] \in Nat /\ height[rows[i]] <= all[rows[i]]
      BY RowsAreLaid DEF RowsInv, Grows
    <3>4. before > line
      <4>1. CASE n = i
        BY <1>2, <1>5, <3>1, <3>2, <3>3, <4>1
      <4>2. CASE n > i
        <5>1. TopOf(rows, all, i) + all[rows[i]] <= TopOf(rows, all, n)
          BY <1>1, <3>2, <4>2, TopsRise
        <5>2. TopOf(rows, all, n) > line
          BY <1>2, <1>5, <3>1, <3>2, <3>3, <5>1
        <5> QED BY <1>2, <1>4, <1>5, <5>2
      <4> QED BY <4>1, <4>2
    <3>5. top <= line /\ top \in Nat
      BY LineMoves DEF Tracked
    <3> QED BY <1>2, <2>4, <3>4, <3>5
  <2>6. Observed(moved, all, r) = moved
    <3>1. moved.supp = line /\ line # -1
      BY <1>2 DEF Shifted
    <3>2. ScrollTopExcept(moved, r) = line
      BY <3>1 DEF ScrollTopExcept
    <3>3. CASE before > line
      BY <2>2, <3>2, <3>3
    <3>4. CASE ~(before > line)
      <4>1. n # i /\ n < i
        BY <2>4, <2>5, <1>2, <3>4
      <4>2. r # a.row
        BY <1>1, <4>1 DEF Laid
      <4>3. Suppressed(moved, line) = moved
        <5> HIDE DEF line
        <5> QED BY SuppressedIs
      <4> HIDE DEF moved, before, after, Sight, line
      <4>4. Sight(moved) # <<>> /\ AnchorTop(rows, all, Sight(moved)[1]) = line
        BY <1>3, <2>3, <4>2
      <4> QED BY <2>2, <4>3, <4>4
    <3> QED BY <3>3, <3>4
  <2>7. Observed(Still, all, r)
          = IF n < i /\ after # top /\ ~(before > top) THEN moved ELSE Still
    <3>1. Still.supp = -1 /\ Still.top = top
      BY DEF Still
    <3>2. /\ ScrollTopExcept(Still, r) \in Nat /\ ScrollTopExcept(Still, r) <= top
          /\ r # a.row => ScrollTopExcept(Still, r) = top
      BY <3>1, Compares DEF Tracked
    <3>3. CASE n >= i
      <4>1. before > ScrollTopExcept(Still, r)
        BY <1>2, <2>4, <2>5, <3>2, <3>3
      <4> HIDE DEF before
      <4> QED BY <2>2, <3>3, <4>1
    <3>4. CASE n < i
      <4>1. r # a.row
        BY <1>1, <3>4 DEF Laid
      <4>2. ScrollTopExcept(Still, r) = top /\ top # 0
        BY <3>2, <4>1 DEF Tracked
      <4>3. line # top
        <5>1. n \in 1 .. i - 1
          BY <3>4
        <5>2. top < line
          BY <1>2, <1>7, <5>1
        <5> QED BY <1>2, <5>2
      <4>4. Suppressed(Still, line) = moved
        <5> HIDE DEF line
        <5> QED BY <4>3, SuppressedIs
      <4> HIDE DEF moved, before, after, Sight, line
      <4>5. Sight(Still) # <<>> /\ AnchorTop(rows, all, Sight(Still)[1]) = line
        BY <1>3, <2>3, <4>1
      <4> QED BY <2>2, <3>4, <4>2, <4>4, <4>5
    <3> QED BY <3>3, <3>4
  <2>8. ASSUME top = LineOf(height, a), NoneMeetsTop(all),
               \A k \in 1 .. n - 1 : k < i => height[rows[k]] = all[rows[k]]
        PROVE  n < i => after # top /\ ~(before > top)
    <3> SUFFICES ASSUME n < i PROVE after # top /\ ~(before > top)
      OBVIOUS
    <3>1. Len(rows) \in Nat
      BY <1>1, TopsAdd
    <3>2. n \in 1 .. Len(rows) + 1 /\ i \in 1 .. Len(rows) + 1
      BY <3>1
    <3>3. TopOf(rows, height, n) = TopOf(rows, all, n)
      <4>1. \A k \in 1 .. n - 1 : height[rows[k]] = all[rows[k]]
        BY <2>8, <3>1
      <4> QED BY <1>1, <3>2, <4>1, TopSame
    <3>4. TopOf(rows, height, n) + height[r] <= TopOf(rows, height, i)
      BY <1>1, <3>2, TopsRise
    <3>5. TopOf(rows, height, i) \in Nat /\ a.offset \in Nat
      BY <1>1, <3>2, TopsAdd DEF Tracked, Readable
    <3>6. before <= top
      BY <1>2, <1>4, <1>5, <2>8, <3>3, <3>4, <3>5
    <3> QED BY <1>2, <2>4, <2>8, <3>6
  <2>9. /\ top = LineOf(height, a) /\ NoneMeetsTop(all)
        /\ \A k \in 1 .. n - 1 : k < i => height[rows[k]] = all[rows[k]]
        => Observed(Still, all, r) = IF n < i /\ height[r] # all[r] THEN moved ELSE Still
    <3> HIDE DEF moved, before, after
    <3> QED BY <1>7, <2>7, <2>8
  <2> HIDE DEF moved, before, after
  <2> QED BY <2>6, <2>7, <2>9 DEF moved
<1> QED BY <1>6, <1>7

\* A frame leaves the view or moves it to the reader's line.  A view at the line
\* it moves when rows grew above, unless one came to end just at the top, and
\* leaves when they grew at the line or below.
LEMMA BatchFollows ==
    ASSUME RowsInv, NEW all, Grows(all), NEW a, Tracked(a),
           NEW i \in 1 .. Len(rows), a.row = rows[i]
    PROVE  /\ Batch(Still, all) \in {Still, Shifted(LineOf(all, a))}
           /\ top = LineOf(height, a) /\ NoneMeetsTop(all) =>
                Batch(Still, all) =
                  IF \E k \in 1 .. i - 1 : height[rows[k]] # all[rows[k]]
                  THEN Shifted(LineOf(all, a)) ELSE Still
<1>1. rows \in Seq(AnyRow) /\ Len(rows) \in Nat
  BY RowsAreLaid DEF RowsInv, Laid
<1>2. PICK b : /\ b[0] = Still
               /\ \A n \in 1 .. Len(rows) : b[n] = Observed(b[n - 1], all, rows[n])
               /\ Batch(Still, all) = b[Len(rows)]
  BY <1>1, BatchGoesDown
<1> DEFINE moved == Shifted(LineOf(all, a))
           exact == top = LineOf(height, a) /\ NoneMeetsTop(all)
           Grew(k) == height[rows[k]] # all[rows[k]]
<1>3. \A n \in 1 .. Len(rows) :
        /\ Observed(moved, all, rows[n]) = moved
        /\ Observed(Still, all, rows[n]) \in {Still, moved}
        /\ exact /\ (\A k \in 1 .. n - 1 : k < i => ~Grew(k)) =>
              Observed(Still, all, rows[n]) = IF n < i /\ Grew(n) THEN moved ELSE Still
  BY ObserverFollows
<1> HIDE DEF moved, exact, Grew
<1> DEFINE Moves(n) == \E k \in 1 .. n : k < i /\ Grew(k)
           T == {n \in Nat : n <= Len(rows) =>
                   /\ b[n] \in {Still, moved}
                   /\ exact => b[n] = IF Moves(n) THEN moved ELSE Still}
<1>4. ASSUME NEW n \in T PROVE n + 1 \in T
  <2> SUFFICES ASSUME n + 1 <= Len(rows)
               PROVE  /\ b[n + 1] \in {Still, moved}
                      /\ exact => b[n + 1] = IF Moves(n + 1) THEN moved ELSE Still
    OBVIOUS
  <2>1. n + 1 \in 1 .. Len(rows) /\ n <= Len(rows) /\ (n + 1) - 1 = n
    BY <1>1
  <2>2. b[n + 1] = Observed(b[n], all, rows[n + 1])
    <3>1. b[n + 1] = Observed(b[(n + 1) - 1], all, rows[n + 1])
      BY <1>2, <2>1
    <3> QED BY <2>1, <3>1
  <2>3. Moves(n + 1) <=> Moves(n) \/ (n + 1 < i /\ Grew(n + 1))
    OBVIOUS
  <2>4. b[n] \in {Still, moved} /\ (exact => b[n] = IF Moves(n) THEN moved ELSE Still)
    BY <2>1
  <2>5. b[n + 1] \in {Still, moved}
    <3>1. /\ Observed(moved, all, rows[n + 1]) = moved
          /\ Observed(Still, all, rows[n + 1]) \in {Still, moved}
      BY <1>3, <2>1
    <3> QED BY <2>2, <2>4, <3>1
  <2>6. CASE exact /\ Moves(n)
    <3> HIDE DEF Moves
    <3> QED BY <1>3, <2>1, <2>2, <2>3, <2>4, <2>5, <2>6
  <2>7. CASE exact /\ ~Moves(n)
    <3>1. \A k \in 1 .. (n + 1) - 1 : k < i => ~Grew(k)
      BY <2>1, <2>7
    <3>2. Observed(Still, all, rows[n + 1])
            = IF n + 1 < i /\ Grew(n + 1) THEN moved ELSE Still
      BY <1>3, <2>1, <2>7, <3>1
    <3> HIDE DEF Moves
    <3> QED BY <2>2, <2>3, <2>4, <2>5, <2>7, <3>2
  <2> HIDE DEF Moves
  <2> QED BY <2>5, <2>6, <2>7
<1>5. 0 \in T /\ T \subseteq Nat
  <2>1. ~Moves(0)
    OBVIOUS
  <2> HIDE DEF Moves
  <2> QED BY <1>2, <2>1
<1>6. \A n \in Nat : n \in T
  <2> HIDE DEF T
  <2> QED BY <1>4, <1>5, UpToEveryNumber
<1>7. Moves(Len(rows)) <=> \E k \in 1 .. i - 1 : Grew(k)
  BY <1>1
<1>8. /\ b[Len(rows)] \in {Still, moved}
      /\ exact => b[Len(rows)] = IF Moves(Len(rows)) THEN moved ELSE Still
  <2>1. Len(rows) \in T /\ Len(rows) <= Len(rows)
    BY <1>1, <1>6
  <2> HIDE DEF Moves
  <2> QED BY <2>1
<1> HIDE DEF Moves
<1> QED BY <1>2, <1>7, <1>8 DEF moved, exact, Grew

\* At the beginning of the list no callback moves the view.
LEMMA BatchStays ==
    ASSUME RowsInv, NEW all, top = 0, cur = <<>>, prv = <<>>
    PROVE  Batch(Still, all) = Still
<1>1. rows \in Seq(AnyRow) /\ Len(rows) \in Nat
  <2>1. \A r \in AnyRow : height[r] \in Nat \ {0}
    BY DEF RowsInv
  <2> QED BY <2>1, RowsAreLaid DEF RowsInv, Laid
<1>2. PICK b : /\ b[0] = Still
               /\ \A n \in 1 .. Len(rows) : b[n] = Observed(b[n - 1], all, rows[n])
               /\ Batch(Still, all) = b[Len(rows)]
  <2>1. \A start : \E b :
          /\ b[0] = start
          /\ \A n \in 1 .. Len(rows) : b[n] = Observed(b[n - 1], all, rows[n])
          /\ Batch(start, all) = b[Len(rows)]
    BY <1>1, BatchGoesDown
  <2> QED BY <2>1
<1>3. ASSUME NEW r PROVE Observed(Still, all, r) = Still
  <2>1. Still.supp = -1 /\ Still.top = 0
    BY DEF Still
  <2>2. Kept(r) = {}
    BY DEF Kept, ToSet
  <2>3. ScrollTopExcept(Still, r) = 0
    BY <2>1, <2>2 DEF ScrollTopExcept
  <2> QED BY <2>3 DEF Observed, ResizeCallback
<1> DEFINE T == {n \in Nat : n <= Len(rows) => b[n] = Still}
<1>4. ASSUME NEW n \in T PROVE n + 1 \in T
  <2> SUFFICES ASSUME n + 1 <= Len(rows) PROVE b[n + 1] = Still
    OBVIOUS
  <2>1. n + 1 \in 1 .. Len(rows) /\ n <= Len(rows) /\ (n + 1) - 1 = n
    BY <1>1
  <2>2. b[n + 1] = Observed(b[(n + 1) - 1], all, rows[n + 1])
    BY <1>2, <2>1
  <2>3. b[(n + 1) - 1] = Still
    BY <2>1
  <2> QED BY <1>3, <2>2, <2>3
<1>5. 0 \in T /\ T \subseteq Nat
  BY <1>2
<1>6. \A n \in Nat : n \in T
  <2> HIDE DEF T
  <2> QED BY <1>4, <1>5, UpToEveryNumber
<1> QED BY <1>1, <1>2, <1>6

-----------------------------------------------------------------------------
(* The steps.                                                               *)

\* The anchor the browser finds at the reader's line is the reader's.
LEMMA CapturesReader ==
    ASSUME RowsInv, NEW a, Readable(a), top \in Nat \ {0}, top = LineOf(height, a)
    PROVE  CaptureViewportAnchor(rows, height, top) = <<Here(a)>>
<1>1. Laid(rows, height) /\ \A r \in ToSet(rows) : \E i \in 1 .. Len(rows) : r = rows[i]
  BY RowsAreLaid DEF RowsInv
<1>2. PICK i \in 1 .. Len(rows) : a.row = rows[i]
  BY <1>1 DEF Readable
<1>3. top = TopOf(rows, height, i) + a.offset
  BY <1>1, <1>2, PlaceOfRow DEF LineOf
<1>4. TopOf(rows, height, i) \in Nat /\ height[rows[i]] \in Nat
  <2>1. Len(rows) \in Nat
    BY <1>1, TopsAdd
  <2>2. i \in 1 .. Len(rows) + 1
    BY <2>1
  <2>3. height[rows[i]] \in Nat
    BY <1>1 DEF Laid
  <2> QED BY <1>1, <2>2, <2>3, TopsAdd
<1>5. a.offset \in Nat /\ a.offset < height[rows[i]]
  BY <1>2 DEF Readable
<1>6. FirstVisible(rows, height, top) = i
  <2>1. TopOf(rows, height, i) <= top /\ top < TopOf(rows, height, i) + height[rows[i]]
    BY <1>3, <1>4, <1>5
  <2> QED BY <1>1, <2>1, VisibleIs
<1>7. top - TopOf(rows, height, i) = a.offset
  BY <1>3, <1>4, <1>5
<1> QED BY <1>2, <1>6, <1>7 DEF CaptureViewportAnchor, Here

\* The list is long enough to show the reader's line first.
LEMMA ReaderIsReached ==
    ASSUME RowsInv, NEW a, Readable(a)
    PROVE  /\ LineOf(height, a) \in Nat
           /\ \A x : x.row = a.row /\ x.offset = a.offset =>
                        AnchorTop(rows, height, x) = LineOf(height, a)
<1> DEFINE line == LineOf(height, a)
<1>1. Laid(rows, height) /\ \A r \in ToSet(rows) : \E i \in 1 .. Len(rows) : r = rows[i]
  <2>1. rows \in {FirstRows, <<NewRow>> \o FirstRows} /\ \A r \in AnyRow : height[r] \in Nat \ {0}
    BY DEF RowsInv
  <2> QED BY <2>1, RowsAreLaid
<1>2. PICK i \in 1 .. Len(rows) : a.row = rows[i]
  BY <1>1 DEF Readable
<1>3. line = TopOf(rows, height, i) + a.offset
  BY <1>1, <1>2, PlaceOfRow DEF LineOf
<1>4. TopOf(rows, height, i) \in Nat
  <2>1. Len(rows) \in Nat
    BY <1>1, TopsAdd
  <2>2. i \in 1 .. Len(rows) + 1
    BY <2>1
  <2> QED BY <1>1, <2>2, TopsAdd
<1>5. line \in Nat /\ line + Viewport <= TopOf(rows, height, Len(rows) + 1)
  <2>1. a.offset \in Nat /\ line + Viewport <= TopOf(rows, height, Len(rows) + 1)
    BY DEF Readable
  <2> QED BY <1>3, <1>4, <2>1
<1>6. \A x : x.row = a.row /\ x.offset = a.offset =>
               AnchorTop(rows, height, x) = Scrolled(rows, height, line)
  BY DEF AnchorTop, LineOf
<1> HIDE DEF line
<1>7. Scrolled(rows, height, line) = line
  BY <1>1, <1>5, ScrolledIs
<1> QED BY <1>5, <1>6, <1>7 DEF line

LEMMA ReaderBegins ==
    ASSUME AnchorInit
    PROVE  ReaderInv
<1>1. RowsInv
  BY DEF AnchorInit, RowsInv, AnyRow
<1>2. reading = <<>> /\ Unread
  BY DEF AnchorInit, Unread
<1> QED BY <1>1, <1>2 DEF ReaderInv

LEMMA UserScrollsReads ==
    ASSUME ReaderInv, UserScrolls
    PROVE  ReaderInv'
<1>1. PICK t \in 0 .. MaxTop(rows, height) :
        /\ top' = t
        /\ reading' = CaptureViewportAnchor(rows, height, t)
        /\ calm' = (calm /\ AtRest /\ supp = -1)
        /\ down' = (down /\ t > top)
  BY DEF UserScrolls
<1>2. /\ event' /\ ~missed' /\ rows' = rows /\ height' = height /\ known' = known /\ supp' = supp
      /\ cur' = cur /\ prv' = prv /\ later' = later
  BY DEF UserScrolls
<1>3. RowsInv'
  BY <1>2 DEF ReaderInv, RowsInv
<1>4. ASSUME calm', down'
      PROVE  reading' # <<>> /\ \E a : Following(a)' /\ a = reading'[1]
  <2>1. calm /\ down /\ later = <<>> /\ supp = -1 /\ t > top
    BY <1>1, <1>4 DEF AtRest
  <2>2. /\ top \in Nat /\ Recorded(cur) /\ Recorded(prv)
    <3>1. CASE reading = <<>>
      BY <2>1, <3>1 DEF ReaderInv, Unread, Recorded
    <3>2. CASE reading # <<>>
      BY <2>1, <3>2 DEF ReaderInv, Following
    <3> QED BY <3>1, <3>2
  <2>3. Laid(rows, height) /\ \A i \in 1 .. Len(rows) : rows[i] \in ToSet(rows)
    BY RowsAreLaid DEF ReaderInv, RowsInv
  <2>4. /\ t \in Nat \ {0} /\ t + Viewport <= TopOf(rows, height, Len(rows) + 1)
        /\ t < TopOf(rows, height, Len(rows) + 1)
    <3>1. t \in Nat /\ t # 0
      BY <2>1, <2>2, <2>3, ScrollsWithin
    <3>2. t + Viewport <= TopOf(rows, height, Len(rows) + 1)
      BY <2>3, <3>1, ScrollsWithin
    <3>3. TopOf(rows, height, Len(rows) + 1) \in Nat
      <4>1. Len(rows) \in Nat
        BY <2>3, TopsAdd
      <4> QED BY <2>3, <4>1, TopsAdd
    <3>4. Viewport \in Nat \ {0}
      BY AnchorAssumption
    <3> QED BY <3>1, <3>2, <3>3, <3>4
  <2>5. PICK i \in 1 .. Len(rows) :
          TopOf(rows, height, i) <= t /\ t < TopOf(rows, height, i) + height[rows[i]]
    BY <2>3, <2>4, RowAtTop
  <2>6. FirstVisible(rows, height, t) = i
    BY <2>3, <2>4, <2>5, VisibleIs
  <2>7. PICK a : a = [row |-> rows[i], offset |-> t - TopOf(rows, height, i), at |-> t]
    OBVIOUS
  <2>8. reading' = <<a>> /\ reading' # <<>> /\ reading'[1] = a
    BY <1>1, <2>4, <2>6, <2>7 DEF CaptureViewportAnchor
  <2>9. TopOf(rows, height, i) \in Nat /\ height[rows[i]] \in Nat
    <3>1. Len(rows) \in Nat
      BY <2>3, TopsAdd
    <3>2. i \in 1 .. Len(rows) + 1
      BY <3>1
    <3>3. height[rows[i]] \in Nat
      BY <2>3 DEF Laid
    <3> QED BY <2>3, <3>2, <3>3, TopsAdd
  <2>10. a.offset \in Nat /\ a.offset < height[a.row] /\ LineOf(height, a) = t
    <3>1. a.row = rows[i] /\ a.offset = t - TopOf(rows, height, i)
      BY <2>7
    <3>2. LineOf(height, a) = TopOf(rows, height, i) + a.offset
      BY <2>3, <3>1, PlaceOfRow DEF LineOf
    <3> QED BY <2>4, <2>5, <2>9, <3>1, <3>2
  <2>11. Readable(a)
    BY <2>3, <2>4, <2>7, <2>10 DEF Readable
  <2>12. Readable(a)' /\ Moved(a)'
    BY <1>1, <1>2, <2>1, <2>10, <2>11 DEF Readable, Moved, LineOf
  <2>13. \A x : Recorded(x) => x = <<>> \/ (x = <<x[1]>> /\ x[1].at \in 1 .. t)
    BY <2>1, <2>2, <2>4 DEF Recorded
  <2>14. Recorded(cur)' /\ Recorded(prv)'
    BY <1>1, <1>2, <2>2, <2>13 DEF Recorded
  <2>15. Following(a)'
    BY <1>1, <2>4, <2>12, <2>14 DEF Following
  <2> QED BY <2>8, <2>15
<1> QED BY <1>3, <1>4 DEF ReaderInv

LEMMA ScrollEventReads ==
    ASSUME ReaderInv, ScrollEvent
    PROVE  ReaderInv'
<1>1. /\ event /\ ~event'
      /\ rows' = rows /\ height' = height /\ known' = known /\ top' = top /\ later' = later
      /\ reading' = reading /\ calm' = calm /\ down' = down /\ missed' = missed
  BY DEF ScrollEvent
<1>2. RowsInv'
  BY <1>1 DEF ReaderInv, RowsInv
<1>3. ASSUME calm', down'
      PROVE  reading' # <<>> /\ \E a : Following(a)' /\ (~missed' => a = reading'[1])
  <2>1. reading # <<>> /\ \E a : Following(a) /\ (~missed => a = reading[1])
    BY <1>1, <1>3 DEF ReaderInv, Unread
  <2>2. PICK a : Following(a) /\ (~missed => a = reading[1])
    BY <2>1
  <2>3. /\ Readable(a) /\ top \in Nat \ {0} /\ Recorded(cur) /\ Recorded(prv) /\ Moved(a)
    BY <1>1, <2>2 DEF Following, Settled, Restoring, Adrift
  <2>4. supp' = -1 /\ NoteScrollTop
    BY <2>3 DEF ScrollEvent, Moved
  <2>5. CaptureViewportAnchor(rows, height, top) = <<Here(a)>>
    BY <2>3, CapturesReader DEF ReaderInv, Moved
  <2>6. cur' = <<Here(a)>> /\ prv' \in {cur, prv}
    BY <2>4, <2>5 DEF NoteScrollTop
  <2>7. Here(a)' = Here(a) /\ Here(a).at = top
    BY <1>1 DEF Here
  <2>8. Settled(a)'
    BY <1>1, <2>3, <2>4, <2>6, <2>7 DEF Settled, Moved, LineOf
  <2>9. Recorded(cur)' /\ Recorded(prv)'
    <3>1. Recorded(<<Here(a)>>)
      BY <2>3, <2>7 DEF Recorded
    <3>2. \A x : Recorded(x)' <=> Recorded(x)
      BY <1>1 DEF Recorded
    <3> QED BY <1>1, <2>3, <2>6, <3>1 DEF Recorded
  <2>10. Readable(a)'
    BY <1>1, <2>3 DEF Readable, LineOf
  <2>11. Following(a)'
    BY <1>1, <2>3, <2>8, <2>9, <2>10 DEF Following
  <2> QED BY <1>1, <2>1, <2>2, <2>11
<1> QED BY <1>2, <1>3 DEF ReaderInv

LEMMA LayoutReads ==
    ASSUME ReaderInv, Layout
    PROVE  ReaderInv'
<1> DEFINE All(changed, hs) ==
             [r \in DOMAIN height |-> IF r \in changed THEN hs[r] ELSE height[r]]
           Start(all) == [top |-> Scrolled(rows, all, top),
                          event |-> Scrolled(rows, all, top) # top, supp |-> supp,
                          later |-> later]
           LaidOut(changed, hs, all, s) ==
             /\ height' = all
             /\ known' = [r \in DOMAIN known |-> IF r \in ToSet(rows) THEN all[r] ELSE 0]
             /\ top' = s.top /\ event' = s.event /\ supp' = s.supp /\ later' = s.later
             /\ calm' = (calm /\ later = <<>> /\ \A r \in changed : hs[r] > height[r])
             /\ missed' = (missed \/ \E r \in changed : RowTop(rows, all, r) + hs[r] = top)
<1>0. PICK changed \in SUBSET {r \in ToSet(rows) : known[r] # 0} :
        \E hs \in [changed -> 1 .. MaxHeight] :
           LaidOut(changed, hs, All(changed, hs), Batch(Start(All(changed, hs)), All(changed, hs)))
  BY DEF Layout, Shown
<1>1. PICK hs \in [changed -> 1 .. MaxHeight] :
        LaidOut(changed, hs, All(changed, hs), Batch(Start(All(changed, hs)), All(changed, hs)))
  BY <1>0
<1>2. PICK all : all = All(changed, hs)
  OBVIOUS
<1>3. /\ height' = all
      /\ known' = [r \in DOMAIN known |-> IF r \in ToSet(rows) THEN all[r] ELSE 0]
  BY <1>1, <1>2
<1>4. /\ top' = Batch(Start(all), all).top /\ event' = Batch(Start(all), all).event
      /\ supp' = Batch(Start(all), all).supp /\ later' = Batch(Start(all), all).later
  BY <1>1, <1>2
<1>5. /\ ~event /\ rows' = rows /\ cur' = cur /\ prv' = prv /\ reading' = reading
      /\ down' = down
  BY DEF Layout
<1>6. /\ rows \in {FirstRows, <<NewRow>> \o FirstRows}
      /\ DOMAIN height = AnyRow /\ DOMAIN known = AnyRow
      /\ \A r \in AnyRow : height[r] \in Nat \ {0} /\ known[r] \in {0, height[r]}
      /\ ToSet(rows) \subseteq AnyRow
  <2>1. \A r \in AnyRow : height[r] \in Nat \ {0}
    BY DEF ReaderInv, RowsInv
  <2> QED BY <2>1, RowsAreLaid DEF ReaderInv, RowsInv
<1>7. /\ DOMAIN all = AnyRow
      /\ \A r \in AnyRow : /\ r \in changed => all[r] = hs[r] /\ hs[r] \in Nat \ {0}
                           /\ r \notin changed => all[r] = height[r]
                           /\ all[r] \in Nat \ {0}
  BY <1>2, <1>6, AnchorAssumption DEF AnchorAssumption
<1>8. RowsInv'
  BY <1>3, <1>5, <1>6, <1>7 DEF RowsInv
<1>9. ASSUME calm', down'
      PROVE  IF reading' = <<>> THEN Unread'
             ELSE \E a : Following(a)' /\ (~missed' => a = reading'[1])
  <2>1. /\ calm /\ down /\ later = <<>>
        /\ \A r \in changed : hs[r] > height[r]
        /\ ~missed' => ~missed /\ \A r \in changed : RowTop(rows, all, r) + hs[r] # top
    BY <1>1, <1>2, <1>5, <1>9
  <2>2. Grows(all)
    <3>1. \A r \in AnyRow : all[r] \in Nat \ {0} /\ height[r] <= all[r]
      BY <1>6, <1>7, <2>1
    <3>2. \A r \in ToSet(rows) : height[r] # all[r] => known[r] = height[r]
      BY <1>6, <1>7, <2>1
    <3> QED BY <3>1, <3>2 DEF Grows
  <2>3. \A t : t = top /\ Scrolled(rows, all, t) = t /\ supp = -1 => Start(all) = Still
    BY <1>5, <2>1 DEF Still
  <2>4. Laid(rows, all) /\ \A r \in ToSet(rows) : \E i \in 1 .. Len(rows) : r = rows[i]
    <3>1. rows \in {FirstRows, <<NewRow>> \o FirstRows} /\ \A r \in AnyRow : all[r] \in Nat \ {0}
      BY <1>6, <1>7
    <3> HIDE DEF All
    <3> QED BY <3>1, RowsAreLaid
  <2> HIDE DEF Start
  <2>5. CASE reading = <<>>
    <3>1. Unread
      BY <2>1, <2>5 DEF ReaderInv
    <3>2. Scrolled(rows, all, 0) = 0
      BY <2>4, ScrolledToZero
    <3>3. Start(all) = Still
      BY <2>3, <3>1, <3>2 DEF Unread
    <3>4. Batch(Still, all) = Still
      BY <3>1, BatchStays DEF ReaderInv, Unread
    <3>5. top' = top /\ ~event' /\ supp' = -1 /\ later' = <<>>
      BY <1>4, <3>3, <3>4 DEF Still
    <3> QED BY <1>5, <2>5, <3>1, <3>5 DEF Unread
  <2>6. CASE reading # <<>>
    <3>1. PICK a : Following(a) /\ (~missed => a = reading[1])
      BY <2>1, <2>6 DEF ReaderInv
    <3>2. /\ Readable(a) /\ top \in Nat \ {0} /\ Recorded(cur) /\ Recorded(prv)
          /\ Settled(a) \/ (missed /\ Adrift(a))
      BY <1>5, <2>1, <3>1 DEF Following, Moved, Restoring
    <3>3. /\ supp = -1 /\ cur = <<Here(a)>>
          /\ top = LineOf(height, a) \/ (missed /\ top < LineOf(height, a))
      BY <3>2 DEF Settled, Adrift
    <3>4. PICK i \in 1 .. Len(rows) : a.row = rows[i]
      BY <2>4, <3>2 DEF Readable
    <3>5. /\ LineOf(height, a) \in Nat /\ LineOf(all, a) \in Nat
          /\ LineOf(height, a) + Viewport <= TopOf(rows, all, Len(rows) + 1)
          /\ LineOf(all, a) + Viewport <= TopOf(rows, all, Len(rows) + 1)
          /\ LineOf(height, a) <= LineOf(all, a)
          /\ (\A k \in 1 .. i - 1 : height[rows[k]] = all[rows[k]])
                 => LineOf(height, a) = LineOf(all, a)
      BY <2>2, <3>2, <3>4, LineMoves DEF ReaderInv
    <3>6. Tracked(a) /\ top <= LineOf(all, a)
      <4>1. top <= LineOf(height, a)
        BY <3>2, <3>3, <3>5
      <4>2. top <= LineOf(all, a)
        BY <3>2, <3>5, <4>1
      <4> QED BY <3>2, <3>3, <4>1, <4>2 DEF Tracked
    <3>7. Start(all) = Still
      <4>1. top + Viewport <= TopOf(rows, all, Len(rows) + 1)
        <5>1. Len(rows) \in Nat
          BY <2>4, TopsAdd
        <5>2. TopOf(rows, all, Len(rows) + 1) \in Nat /\ Viewport \in Nat
          BY <2>4, <5>1, TopsAdd, AnchorAssumption DEF AnchorAssumption
        <5> QED BY <3>2, <3>5, <3>6, <5>2
      <4>2. Scrolled(rows, all, top) = top
        BY <2>4, <3>2, <4>1, ScrolledIs
      <4> QED BY <2>3, <3>3, <4>2
    <3>8. /\ Batch(Still, all) \in {Still, Shifted(LineOf(all, a))}
          /\ top = LineOf(height, a) /\ NoneMeetsTop(all) =>
                Batch(Still, all) =
                  IF \E k \in 1 .. i - 1 : height[rows[k]] # all[rows[k]]
                  THEN Shifted(LineOf(all, a)) ELSE Still
      BY <2>2, <3>4, <3>6, BatchFollows DEF ReaderInv
    <3>9. Readable(a)'
      <4>1. a.row \in AnyRow /\ a.offset \in Nat /\ a.offset < height[a.row]
        BY <1>6, <3>2 DEF Readable
      <4>2. a.offset < all[a.row]
        BY <1>6, <2>2, <4>1 DEF Grows
      <4> QED BY <1>3, <1>5, <3>2, <3>5, <4>2 DEF Readable, LineOf
    <3>10. LineOf(height, a)' = LineOf(all, a)
      BY <1>3, <1>5 DEF LineOf
    <3>11. /\ top' \in Nat \ {0} /\ top <= top'
           /\ Settled(a)' \/ Moved(a)' \/ (missed' /\ Adrift(a)')
      <4>1. CASE Batch(Still, all) = Shifted(LineOf(all, a))
        <5>1. /\ top' = LineOf(all, a) /\ event' = TRUE /\ supp' = LineOf(all, a)
              /\ later' = <<>>
          BY <1>4, <3>7, <4>1 DEF Shifted
        <5>2. top' \in Nat \ {0} /\ top <= top'
          BY <3>2, <3>5, <3>6, <5>1
        <5> QED BY <3>10, <5>1, <5>2 DEF Moved
      <4>2. CASE Batch(Still, all) = Still
        <5>1. top' = top /\ event' = FALSE /\ supp' = -1 /\ later' = <<>>
          BY <1>4, <3>7, <4>2 DEF Still
        <5>2. Here(a)' = Here(a)
          BY <5>1 DEF Here
        <5>3. ~missed' => top = LineOf(all, a)
          <6> SUFFICES ASSUME ~missed' PROVE top = LineOf(all, a)
            OBVIOUS
          <6>1. top = LineOf(height, a) /\ NoneMeetsTop(all)
            BY <1>6, <1>7, <2>1, <3>3 DEF NoneMeetsTop
          <6>2. LineOf(height, a) # LineOf(all, a) =>
                   Batch(Still, all) = Shifted(LineOf(all, a))
            BY <3>5, <3>8, <6>1
          <6>3. Still.event # Shifted(LineOf(all, a)).event
            BY DEF Still, Shifted
          <6> QED BY <4>2, <6>1, <6>2, <6>3
        <5>4. CASE top = LineOf(all, a)
          BY <1>5, <3>2, <3>3, <3>10, <5>1, <5>2, <5>4 DEF Settled
        <5>5. CASE top < LineOf(all, a)
          <6>1. missed'
            BY <3>2, <3>5, <5>3, <5>5
          <6> QED BY <1>5, <3>2, <3>3, <3>10, <5>1, <5>2, <5>5, <6>1 DEF Adrift
        <5> QED BY <3>2, <3>5, <3>6, <5>4, <5>5
      <4> QED BY <3>8, <4>1, <4>2
    <3>12. Recorded(cur)' /\ Recorded(prv)'
      BY <1>5, <3>2, <3>11 DEF Recorded
    <3>13. Following(a)'
      BY <3>9, <3>11, <3>12 DEF Following
    <3>14. ~missed' => a = reading'[1]
      BY <1>5, <2>1, <3>1
    <3> QED BY <1>5, <2>6, <3>13, <3>14
  <2> QED BY <2>5, <2>6
<1> QED BY <1>8, <1>9 DEF ReaderInv

\* Wherever the view is, it shows some line first.
LEMMA SomeLineIsFirst ==
    ASSUME RowsInv, top \in Nat \ {0}, top + Viewport <= TopOf(rows, height, Len(rows) + 1)
    PROVE  \E a : Readable(a) /\ top = LineOf(height, a)
<1>1. Laid(rows, height) /\ \A i \in 1 .. Len(rows) : rows[i] \in ToSet(rows)
  BY RowsAreLaid DEF RowsInv
<1>2. Len(rows) \in Nat /\ TopOf(rows, height, Len(rows) + 1) \in Nat
  <2>1. Len(rows) \in Nat
    BY <1>1, TopsAdd
  <2> QED BY <1>1, <2>1, TopsAdd
<1>3. top < TopOf(rows, height, Len(rows) + 1)
  BY <1>2, AnchorAssumption DEF AnchorAssumption
<1>4. PICK i \in 1 .. Len(rows) :
        TopOf(rows, height, i) <= top /\ top < TopOf(rows, height, i) + height[rows[i]]
  BY <1>1, <1>3, RowAtTop
<1>5. TopOf(rows, height, i) \in Nat /\ height[rows[i]] \in Nat
  <2>1. i \in 1 .. Len(rows) + 1
    BY <1>2
  <2>2. height[rows[i]] \in Nat
    BY <1>1 DEF Laid
  <2> QED BY <1>1, <2>1, <2>2, TopsAdd
<1>6. PICK a : a = [row |-> rows[i], offset |-> top - TopOf(rows, height, i)]
  OBVIOUS
<1>7. a.row = rows[i] /\ a.offset = top - TopOf(rows, height, i)
  BY <1>6
<1>8. LineOf(height, a) = TopOf(rows, height, i) + a.offset
  BY <1>1, <1>7, PlaceOfRow DEF LineOf
<1>9. a.offset \in Nat /\ a.offset < height[a.row] /\ top = LineOf(height, a)
  BY <1>4, <1>5, <1>7, <1>8
<1> QED BY <1>1, <1>7, <1>9 DEF Readable

LEMMA NewModelReads ==
    ASSUME ReaderInv, NewModel
    PROVE  ReaderInv'
<1>1. /\ NewRow \notin ToSet(rows) /\ rows' = <<NewRow>> \o rows
      /\ known' = [r \in DOMAIN known |-> 0]
      /\ LET anchor == CaptureViewportAnchor(rows, height, top)
         IN later' = IF anchor = <<>> THEN later
                      ELSE Append(later, <<"restore", anchor[1]>>)
      /\ (calm' => calm /\ AtRest)
      /\ height' = height /\ top' = top /\ event' = event /\ supp' = supp
      /\ cur' = cur /\ prv' = prv /\ reading' = reading /\ down' = down
      /\ missed' = missed
  BY DEF NewModel, CaptureAnchor, Shown
<1>2. /\ rows \in {FirstRows, <<NewRow>> \o FirstRows}
      /\ DOMAIN height = AnyRow /\ DOMAIN known = AnyRow
      /\ \A r \in AnyRow : height[r] \in Nat \ {0}
  BY DEF ReaderInv, RowsInv
<1>3. /\ Laid(rows, height)
      /\ \A r \in ToSet(rows) : \E i \in 1 .. Len(rows) : r = rows[i]
  BY <1>2, RowsAreLaid
<1> DEFINE more == <<NewRow>> \o FirstRows
<1>4. rows = FirstRows /\ rows' = more
  <2>1. Len(FirstRows) \in Nat /\ FirstRows \in Seq(ToSet(FirstRows))
    BY AnchorAssumption DEF AnchorAssumption
  <2>2. rows = more => NewRow \in ToSet(rows)
    <3>1. more[1] = NewRow /\ 1 \in DOMAIN more
      BY <2>1
    <3> QED BY <3>1 DEF ToSet
  <2> QED BY <1>1, <1>2, <2>2
<1>5. /\ Laid(more, height)
      /\ \A i \in 1 .. Len(more) : more[i] \in ToSet(more) /\ more[i] \in AnyRow
  <2>1. more \in {FirstRows, <<NewRow>> \o FirstRows}
    OBVIOUS
  <2> HIDE DEF more
  <2> QED BY <1>2, <2>1, RowsAreLaid
<1>6. RowsInv'
  BY <1>1, <1>2, <1>4 DEF RowsInv
<1>7. ASSUME calm', down'
      PROVE  IF reading' = <<>> THEN Unread'
             ELSE \E a : Following(a)' /\ (~missed' => a = reading'[1])
  <2>1. calm /\ down /\ ~event /\ later = <<>>
    BY <1>1, <1>7 DEF AtRest
  <2>2. CASE reading = <<>>
    <3>1. Unread
      BY <2>1, <2>2 DEF ReaderInv
    <3>2. later' = <<>>
      BY <1>1, <2>1, <3>1 DEF Unread, CaptureViewportAnchor
    <3> QED BY <1>1, <2>2, <3>1, <3>2 DEF Unread
  <2>3. CASE reading # <<>>
    <3>1. PICK b : Following(b) /\ (~missed => b = reading[1])
      BY <2>1, <2>3 DEF ReaderInv
    <3>2. PICK a : /\ Readable(a) /\ top \in Nat \ {0} /\ Recorded(cur) /\ Recorded(prv)
                   /\ supp = -1 /\ top = LineOf(height, a)
                   /\ ~missed => a = reading[1]
      <4>1. /\ Readable(b) /\ top \in Nat \ {0} /\ Recorded(cur) /\ Recorded(prv)
            /\ Settled(b) \/ (missed /\ Adrift(b))
        BY <2>1, <3>1 DEF Following, Moved, Restoring
      <4>2. CASE Settled(b)
        BY <3>1, <4>1, <4>2 DEF Settled
      <4>3. CASE missed /\ Adrift(b)
        <5>1. supp = -1 /\ top < LineOf(height, b)
          BY <4>3 DEF Adrift
        <5>2. /\ LineOf(height, b) + Viewport <= TopOf(rows, height, Len(rows) + 1)
              /\ LineOf(height, b) \in Nat
          BY <4>1, ReaderIsReached DEF ReaderInv, Readable
        <5>3. TopOf(rows, height, Len(rows) + 1) \in Nat /\ Viewport \in Nat
          <6>1. Len(rows) \in Nat
            BY <1>3, TopsAdd
          <6> QED BY <1>3, <6>1, TopsAdd, AnchorAssumption DEF AnchorAssumption
        <5>4. top + Viewport <= TopOf(rows, height, Len(rows) + 1)
          BY <4>1, <5>1, <5>2, <5>3
        <5>5. \E a : Readable(a) /\ top = LineOf(height, a)
          BY <4>1, <5>4, SomeLineIsFirst DEF ReaderInv
        <5> QED BY <4>1, <4>3, <5>1, <5>5
      <4> QED BY <4>1, <4>2, <4>3
    <3>3. later' = << <<"restore", Here(a)>> >>
      <4>1. CaptureViewportAnchor(rows, height, top) = <<Here(a)>>
        BY <3>2, CapturesReader DEF ReaderInv
      <4> QED BY <1>1, <2>1, <4>1
    <3>4. PICK i \in 1 .. Len(rows) : a.row = rows[i]
      BY <1>3, <3>2 DEF Readable
    <3>5. /\ Len(rows) \in Nat /\ Len(more) = Len(rows) + 1
          /\ i + 1 \in 1 .. Len(more) /\ more[i + 1] = rows[i]
      <4>1. Len(rows) \in Nat /\ rows \in Seq(AnyRow)
        BY <1>3, TopsAdd DEF Laid
      <4> QED BY <1>4, <4>1
    <3>6. /\ TopOf(more, height, i + 1) = height[NewRow] + TopOf(rows, height, i)
          /\ TopOf(more, height, Len(more) + 1)
               = height[NewRow] + TopOf(rows, height, Len(rows) + 1)
      <4>1. i \in 1 .. Len(rows) + 1 /\ Len(rows) + 1 \in 1 .. Len(rows) + 1
        BY <3>5
      <4>2. Laid(<<NewRow>> \o rows, height) /\ <<NewRow>> \o rows = more
        BY <1>4, <1>5
      <4> HIDE DEF more
      <4> QED BY <1>3, <3>5, <4>1, <4>2, TopShifts
    <3>7. LineOf(height, a)' = height[NewRow] + LineOf(height, a)
      <4>1. RowTop(more, height, a.row) = TopOf(more, height, i + 1)
        <5> HIDE DEF more
        <5> QED BY <1>5, <3>4, <3>5, PlaceOfRow
      <4>2. RowTop(rows, height, a.row) = TopOf(rows, height, i)
        BY <1>3, <3>4, PlaceOfRow
      <4>3. LineOf(height, a)' = RowTop(more, height, a.row) + a.offset
        BY <1>1, <1>4 DEF LineOf
      <4>4. LineOf(height, a) = RowTop(rows, height, a.row) + a.offset
        BY DEF LineOf
      <4>5. TopOf(rows, height, i) \in Nat /\ a.offset \in Nat /\ height[NewRow] \in Nat
        <5>1. i \in 1 .. Len(rows) + 1 /\ NewRow \in AnyRow
          BY <3>5 DEF AnyRow
        <5> QED BY <1>2, <1>3, <3>2, <5>1, TopsAdd DEF Readable
      <4> HIDE DEF more
      <4> QED BY <3>6, <4>1, <4>2, <4>3, <4>4, <4>5
    <3>8. height[NewRow] \in Nat \ {0}
      BY <1>2 DEF AnyRow
    <3>9. Readable(a)'
      <4>1. a.row \in ToSet(more)
        <5> HIDE DEF more
        <5> QED BY <1>5, <3>4, <3>5
      <4>2. LineOf(height, a)' + Viewport <= TopOf(more, height, Len(more) + 1)
        <5>1. LineOf(height, a) \in Nat /\ LineOf(height, a) + Viewport <= TopOf(rows, height, Len(rows) + 1)
          BY <3>2 DEF Readable
        <5>2. TopOf(rows, height, Len(rows) + 1) \in Nat /\ Viewport \in Nat
          <6>1. Len(rows) + 1 \in 1 .. Len(rows) + 1
            BY <3>5
          <6> QED BY <1>3, <6>1, TopsAdd, AnchorAssumption DEF AnchorAssumption
        <5> HIDE DEF more
        <5> QED BY <3>6, <3>7, <3>8, <5>1, <5>2
      <4>3. TopOf(rows, height, Len(rows) + 1)' = TopOf(more, height, Len(more) + 1)
        <5> HIDE DEF more
        <5> QED BY <1>1, <1>4
      <4>4. a.offset \in Nat /\ a.offset < height[a.row]
        BY <3>2 DEF Readable
      <4> HIDE DEF more
      <4> QED BY <1>1, <1>4, <4>1, <4>2, <4>3, <4>4 DEF Readable
    <3>10. Restoring(a)'
      <4>1. Here(a)' = Here(a)
        BY <1>1 DEF Here
      <4>2. top < LineOf(height, a)'
        BY <3>2, <3>7, <3>8
      <4> QED BY <1>1, <2>1, <3>2, <3>3, <4>1, <4>2 DEF Restoring
    <3>11. Recorded(cur)' /\ Recorded(prv)'
      BY <1>1, <3>2 DEF Recorded
    <3>12. Following(a)'
      BY <1>1, <3>2, <3>9, <3>10, <3>11 DEF Following
    <3> QED BY <1>1, <2>3, <3>2, <3>12
  <2> QED BY <2>2, <2>3
<1> QED BY <1>6, <1>7 DEF ReaderInv

LEMMA LaterReads ==
    ASSUME ReaderInv, LaterFires
    PROVE  ReaderInv'
<1>1. /\ later # <<>> /\ later' = Tail(later)
      /\ rows' = rows /\ height' = height /\ known' = known /\ cur' = cur /\ prv' = prv
      /\ reading' = reading /\ calm' = calm /\ down' = down /\ missed' = missed
  BY DEF LaterFires
<1>2. RowsInv'
  BY <1>1 DEF ReaderInv, RowsInv
<1>3. ASSUME calm', down'
      PROVE  reading' # <<>> /\ \E a : Following(a)' /\ (~missed' => a = reading'[1])
  <2>1. reading # <<>> /\ \E a : Following(a) /\ (~missed => a = reading[1])
    BY <1>1, <1>3 DEF ReaderInv, Unread
  <2>2. PICK a : Following(a) /\ (~missed => a = reading[1])
    BY <2>1
  <2>3. /\ Readable(a) /\ top \in Nat \ {0} /\ Recorded(cur) /\ Recorded(prv)
        /\ Restoring(a)
    BY <1>1, <2>2 DEF Following, Settled, Moved, Adrift
  <2>4. /\ Head(later) = <<"restore", Here(a)>> /\ Tail(later) = <<>>
        /\ Here(a).row = a.row /\ Here(a).offset = a.offset
    BY <2>3 DEF Restoring, Here
  <2>5. /\ LineOf(height, a) \in Nat
        /\ AnchorTop(rows, height, Here(a)) = LineOf(height, a)
    BY <2>3, <2>4, ReaderIsReached DEF ReaderInv
  <2> DEFINE s == [top |-> top, event |-> event, supp |-> supp]
             next == SetTop(s, LineOf(height, a))
             flag == s.event \/ LineOf(height, a) # s.top
  <2>6. top' = next.top /\ event' = next.event /\ supp' = next.supp
    BY <2>4, <2>5 DEF LaterFires
  <2>7. next = [s EXCEPT !.top = LineOf(height, a), !.event = flag]
    BY DEF SetTop
  <2>8. flag = TRUE
    BY <2>3, <2>5 DEF Restoring
  <2>9. DOMAIN s = {"top", "event", "supp"} /\ s.supp = -1
    BY <2>3 DEF Restoring
  <2> HIDE DEF s, next, flag
  <2>10. top' = LineOf(height, a) /\ event' = TRUE /\ supp' = -1
    BY <2>6, <2>7, <2>8, <2>9
  <2>11. LineOf(height, a)' = LineOf(height, a)
    BY <1>1 DEF LineOf
  <2>12. top' \in Nat \ {0} /\ top <= top'
    BY <2>3, <2>5, <2>10 DEF Restoring
  <2>13. Moved(a)'
    BY <1>1, <2>4, <2>10, <2>11 DEF Moved
  <2>14. Recorded(cur)' /\ Recorded(prv)'
    BY <1>1, <2>3, <2>12 DEF Recorded
  <2>15. Readable(a)'
    BY <1>1, <2>3 DEF Readable, LineOf
  <2>16. Following(a)'
    BY <2>12, <2>13, <2>14, <2>15 DEF Following
  <2> QED BY <1>1, <2>1, <2>2, <2>16
<1> QED BY <1>2, <1>3 DEF ReaderInv

LEMMA ReaderIsAtLine ==
    ASSUME ReaderInv
    PROVE  GrowthKeepsReading
<1> SUFFICES ASSUME calm, down, ~missed, AtRest, reading # <<>>
             PROVE  top = AnchorTop(rows, height, reading[1])
  BY DEF GrowthKeepsReading, AtReading
<1>1. PICK a : a = reading[1]
  OBVIOUS
<1>2. Readable(a) /\ top = LineOf(height, a)
  <2>1. Following(a)
    BY <1>1 DEF ReaderInv
  <2> QED BY <2>1 DEF Following, Settled, Moved, Restoring, AtRest
<1> QED BY <1>1, <1>2, ReaderIsReached DEF ReaderInv

\* A reader who only scrolls down keeps the line at the top of the view while
\* rows above, at and below it grow one after the other and a newer row is put
\* first, for every list of rows, every height and every viewport, as long as
\* no row that grows comes to end just at scrollTop; where one did, and the code
\* returns without moving the view (feed_resize_anchor.rs:114), the reader's next
\* scroll down makes the statement good again.
THEOREM ReadingIsKept ==
    AnchorSpec => []GrowthKeepsReading
<1>1. AnchorInit => ReaderInv
  BY ReaderBegins
<1>2. ReaderInv /\ [AnchorNext]_anchorVars => ReaderInv'
  <2> SUFFICES ASSUME ReaderInv, [AnchorNext]_anchorVars PROVE ReaderInv'
    OBVIOUS
  <2>1. CASE UserScrolls
    BY <2>1, UserScrollsReads
  <2>2. CASE ScrollEvent
    BY <2>2, ScrollEventReads
  <2>3. CASE Layout
    BY <2>3, LayoutReads
  <2>4. CASE NewModel
    BY <2>4, NewModelReads
  <2>5. CASE LaterFires
    BY <2>5, LaterReads
  <2>6. CASE UNCHANGED anchorVars
    BY <2>6 DEF anchorVars, ReaderInv, RowsInv, Unread, Following, Readable, Recorded,
                Settled, Moved, Restoring, Adrift, Here, LineOf
  <2> QED BY <2>1, <2>2, <2>3, <2>4, <2>5, <2>6 DEF AnchorNext
<1>3. ReaderInv => GrowthKeepsReading
  BY ReaderIsAtLine
<1> QED BY <1>1, <1>2, <1>3, PTL DEF AnchorSpec

=============================================================================
