--------------------------- MODULE WindowReadProofs ---------------------------
(***************************************************************************)
(* Proofs about WindowRead, for any relays, kinds of read, window and page *)
(* sizes: a running read always has its timer and a relay that can answer, *)
(* nothing reaches an ended one, and neither the read nor its surface      *)
(* claims more than the relays proved.                                     *)
(* Then about StoredRead: a surface that shows Loading has work under way, *)
(* and the tasks of a read keep the contract of ReadContract.              *)
(***************************************************************************)
EXTENDS WindowRead, StoredRead, TLAPS

AllEose(s) == \A r \in Relays : s.relays[r] = "Eose"

SomeCancelled(s) == \E r \in Relays : s.relays[r] = "Cancelled"

(* What the reducer guarantees of every state it returns.                  *)
Sound(s) ==
    /\ s \in ReadStates
    /\ s.status = "Complete" => AllEose(s)
    /\ s.status = "Cancelled" <=> SomeCancelled(s)

(* The ends a handler reports of a relay.                                  *)
EndStates == RelayStates \cup {"EventLimit"}

-----------------------------------------------------------------------------
(* The reducer *)

(* A status is recomputed and nothing else: it is Complete only with EOSE  *)
(* of all relays, and Cancelled exactly with a cancelled relay.            *)
LEMMA WithStatusSound ==
    ASSUME NEW s \in ReadStates
    PROVE  /\ Sound(WithStatus(s))
           /\ WithStatus(s).relays = s.relays
           /\ WithStatus(s).events = s.events
           /\ WithStatus(s).gave = s.gave
<1>1. Status(s) \in ReadStatuses
  BY DEF Status, TerminalStatus, ReadStatuses
<1>2. /\ WithStatus(s) \in ReadStates
      /\ WithStatus(s).relays = s.relays
      /\ WithStatus(s).events = s.events
      /\ WithStatus(s).gave = s.gave
      /\ WithStatus(s).status = Status(s)
  BY <1>1 DEF WithStatus, ReadStates
<1>3. Status(s) = "Complete" => AllEose(s)
  BY DEF Status, TerminalStatus, AllEose
<1>4. Status(s) = "Cancelled" <=> SomeCancelled(s)
  BY DEF Status, TerminalStatus, SomeCancelled
<1>5. Sound(WithStatus(s))
  BY <1>2, <1>3, <1>4 DEF Sound, AllEose, SomeCancelled
<1> QED BY <1>2, <1>5

LEMMA RelayStateOfType ==
    ASSUME NEW end \in EndStates, NEW g \in BOOLEAN
    PROVE  /\ RelayStateOf(end, g) \in RelayStates
           /\ RelayStateOf(end, g) = "Eose" => end = "Eose"
           /\ RelayStateOf(end, g) = "Cancelled" => end = "Cancelled"
           /\ end \in Answers => RelayStateOf(end, g) \in RelayTerminal
BY DEF RelayStateOf, EndStates, RelayStates, Answers, RelayTerminal

(* relay_status changes the state of one relay of a read that was not      *)
(* cancelled.                                                              *)
LEMMA RelayStatusSound ==
    ASSUME NEW s \in ReadStates, s.status # "Cancelled",
           NEW r \in Relays, NEW end \in EndStates
    PROVE  /\ Sound(RelayStatus(s, r, end))
           /\ RelayStatus(s, r, end).relays =
                [s.relays EXCEPT ![r] = RelayStateOf(end, r \in s.gave)]
           /\ RelayStatus(s, r, end).events = s.events
           /\ RelayStatus(s, r, end).gave = s.gave
<1> DEFINE g == r \in s.gave
           t == [s EXCEPT !.relays[r] = RelayStateOf(end, g)]
<1>1. RelayStateOf(end, g) \in RelayStates
  <2>1. g \in BOOLEAN
    OBVIOUS
  <2> HIDE DEF g
  <2> QED BY <2>1, RelayStateOfType
<1>2. /\ t \in ReadStates
      /\ t.relays = [s.relays EXCEPT ![r] = RelayStateOf(end, g)]
      /\ t.events = s.events
      /\ t.gave = s.gave
  BY <1>1 DEF ReadStates
<1>3. RelayStatus(s, r, end) = WithStatus(t)
  BY DEF RelayStatus, Reduce
<1> QED BY <1>2, <1>3, WithStatusSound

(* merge_progressive_events leaves the states of the relays alone.         *)
LEMMA RelayEventsSound ==
    ASSUME NEW s \in ReadStates, s.status # "Cancelled", ~SomeCancelled(s),
           NEW r \in Relays, NEW new \in BOOLEAN
    PROVE  /\ Sound(RelayEvents(s, r, new))
           /\ RelayEvents(s, r, new).status # "Cancelled"
           /\ RelayEvents(s, r, new).relays = s.relays
<1> DEFINE t == [s EXCEPT !.events = IF new THEN @ + 1 ELSE @,
                          !.gave = @ \cup {r}]
<1> DEFINE n == IF new THEN s.events + 1 ELSE s.events
           gv == s.gave \cup {r}
<1>0. n \in Nat /\ gv \in SUBSET Relays
  BY DEF ReadStates
<1>1. t \in ReadStates /\ t.relays = s.relays
  <2>1. t = [s EXCEPT !.events = n, !.gave = gv]
    OBVIOUS
  <2> HIDE DEF n, gv
  <2> QED BY <1>0, <2>1 DEF ReadStates
<1>2. RelayEvents(s, r, new) = WithStatus(t)
  BY DEF RelayEvents, Reduce
<1>3. Sound(WithStatus(t)) /\ WithStatus(t).relays = s.relays
  BY <1>1, WithStatusSound
<1> QED BY <1>2, <1>3 DEF Sound, SomeCancelled

LEMMA FinalizeSound ==
    ASSUME NEW s \in ReadStates, s.status # "Cancelled"
    PROVE  Sound(Finalize(s)) /\ Finalize(s).relays = s.relays
<1> DEFINE t == [s EXCEPT !.final = TRUE]
<1>1. t \in ReadStates /\ t.relays = s.relays
  BY DEF ReadStates
<1>2. Finalize(s) = WithStatus(t)
  BY DEF Finalize, Reduce
<1> QED BY <1>1, <1>2, WithStatusSound

(* A full window ends every relay without EOSE.                            *)
LEMMA FinalizeAllSound ==
    ASSUME NEW s \in ReadStates, s.status # "Cancelled"
    PROVE  /\ Sound(FinalizeAll(s, "EventLimit"))
           /\ \A r \in Relays : FinalizeAll(s, "EventLimit").relays[r] # "Eose"
<1> DEFINE f == [r \in Relays |-> RelayStateOf("EventLimit", r \in s.gave)]
           t == [s EXCEPT !.final = TRUE, !.relays = f]
<1>1. \A r \in Relays : f[r] = "Timeout"
  BY DEF RelayStateOf
<1>2. t \in ReadStates /\ t.relays = f
  BY <1>1 DEF ReadStates, RelayStates
<1>3. FinalizeAll(s, "EventLimit") = WithStatus(t)
  BY DEF FinalizeAll, Reduce
<1> QED BY <1>1, <1>2, <1>3, WithStatusSound

LEMMA TimeoutReadSound ==
    ASSUME NEW s \in ReadStates, s.status # "Cancelled"
    PROVE  /\ Sound(TimeoutRead(s))
           /\ \A r \in Relays : TimeoutRead(s).relays[r] = "Eose" => s.relays[r] = "Eose"
<1> DEFINE f == [r \in Relays |-> IF s.relays[r] = "Eose" THEN "Eose" ELSE "Timeout"]
           t == [s EXCEPT !.final = TRUE, !.relays = f]
<1>1. t \in ReadStates /\ t.relays = f
  BY DEF ReadStates, RelayStates
<1>2. TimeoutRead(s) = WithStatus(t)
  BY DEF TimeoutRead, Reduce, ReadStates
<1>3. \A r \in Relays : f[r] = "Eose" => s.relays[r] = "Eose"
  OBVIOUS
<1> HIDE DEF f, t
<1> QED BY <1>1, <1>2, <1>3, WithStatusSound

LEMMA CancelReadSound ==
    ASSUME NEW s \in ReadStates, s.status # "Cancelled"
    PROVE  /\ Sound(CancelRead(s))
           /\ \A r \in Relays : CancelRead(s).relays[r] # "Eose"
<1> DEFINE f == [r \in Relays |-> "Cancelled"]
           t == [s EXCEPT !.final = TRUE, !.relays = f]
<1>1. t \in ReadStates /\ t.relays = f
  BY DEF ReadStates, RelayStates
<1>2. CancelRead(s) = WithStatus(t)
  BY DEF CancelRead, Reduce
<1>3. \A r \in Relays : f[r] = "Cancelled"
  OBVIOUS
<1> HIDE DEF f, t
<1> QED BY <1>1, <1>2, <1>3, WithStatusSound

-----------------------------------------------------------------------------
(* The views *)

(* The view says that there is nothing.                                    *)
Claims(v) == v.footer = "TerminalEmpty" \/ v.status = "NoFollowList"

LEMMA WindowFacts ==
    ASSUME NEW s \in ReadStates, NEW c \in CachedRows, NEW older \in BOOLEAN
    PROVE  LET w == WindowFrom(s, c, older)
           IN  /\ w \in Windows
               /\ w.terminal <=> s.status \in TerminalStatuses
               /\ ~w.rows => s.events = 0
<1> DEFINE rows == c # "empty" \/ s.events > 0
           terminal == s.status \in TerminalStatuses
           more == older \/ (c = "full" /\ s.events > 0)
<1>1. rows \in BOOLEAN /\ terminal \in BOOLEAN /\ more \in BOOLEAN
  OBVIOUS
<1>2. ~rows => s.events = 0
  BY DEF ReadStates
<1>3. WindowFrom(s, c, older) = [rows |-> rows, terminal |-> terminal, hasOlder |-> more]
  BY DEF WindowFrom
<1>4. terminal <=> s.status \in TerminalStatuses
  OBVIOUS
<1> HIDE DEF rows, terminal, more
<1>5. /\ WindowFrom(s, c, older) \in Windows
      /\ WindowFrom(s, c, older).terminal = terminal
      /\ WindowFrom(s, c, older).rows = rows
  BY <1>1, <1>3 DEF Windows
<1> QED BY <1>2, <1>4, <1>5

(* An empty footer needs a window that is terminal and has no rows.        *)
LEMMA FooterClaims ==
    ASSUME NEW w \in Windows, FooterFromWindow(w) = "TerminalEmpty"
    PROVE  w.terminal /\ ~w.rows
BY DEF FooterFromWindow, Windows

(* Of all views of a read, only that of a complete read claims an absence. *)
LEMMA ReadViewClaims ==
    ASSUME NEW k \in AllKinds, NEW s \in ReadStates, NEW c \in CachedRows,
           Claims(ReadView(k, s, c))
    PROVE  s.status = "Complete"
<1> DEFINE older == c # "empty" \/ s.events > 0
<1>1. s.status \in ReadStatuses /\ s.events \in Nat
  BY DEF ReadStates
<1>2. ASSUME NEW o \in BOOLEAN, FooterFromWindow(WindowFrom(s, c, o)) = "TerminalEmpty",
             s.status # "Complete"
      PROVE  s.status \in {"Failed", "Cancelled", "Incomplete"} /\ s.events = 0
  BY <1>2, WindowFacts, FooterClaims DEF TerminalStatuses
<1>3. SUFFICES ASSUME s.status # "Complete"
               PROVE  FALSE
  OBVIOUS
<1>4. CASE k = "home"
  BY <1>1, <1>2, <1>3, <1>4
     DEF ReadView, HomeReadView, HomeView, HomeWindow, SnapshotSource, View, Claims
<1>5. CASE k = "global"
  BY <1>1, <1>2, <1>3, <1>5 DEF ReadView, GlobalReadView, GlobalView, SnapshotSource, View, Claims
<1>6. CASE k = "notifications"
  BY <1>1, <1>2, <1>3, <1>6
     DEF ReadView, NotificationsReadView, NotificationsView, SnapshotSource, View, Claims
<1>7. CASE k = "thread"
  BY <1>1, <1>2, <1>3, <1>7 DEF ReadView, ThreadReadView, ThreadView, OlderOrPartial, View, Claims
<1>8. CASE k = "search"
  <2> DEFINE o == s.events >= PageSize
             w == WindowFrom(s, c, o)
  <2>1. ReadView(k, s, c) = SearchView(SnapshotSource(s), w)
    BY <1>8 DEF ReadView, SearchReadView
  <2>2. o \in BOOLEAN
    BY <1>1, WindowAssumption
  <2>3. FooterFromWindow(w) = "TerminalEmpty" => SnapshotSource(s) = "Partial"
    <3> HIDE DEF o
    <3> QED BY <1>2, <1>3, <2>2 DEF SnapshotSource
  <2>4. SnapshotSource(s) \in {"Partial", "RelayProgressive"}
    BY DEF SnapshotSource
  <2> HIDE DEF w
  <2> QED BY <2>1, <2>3, <2>4 DEF SearchView, OlderOrPartial, View, Claims
<1>9. CASE k = "profile"
  BY <1>1, <1>2, <1>3, <1>9 DEF ReadView, ProfileReadView, ProfileView, SnapshotSource, View, Claims
<1>10. CASE k = "author"
  BY <1>1, <1>2, <1>3, <1>10 DEF ReadView, AuthorReadView, AuthorView, SnapshotSource, View, Claims
<1>11. CASE k = "custom"
  <2> DEFINE w == WindowFrom(s, c, FALSE)
             source == CASE s.status = "Complete" -> "Complete"
                         [] s.status \in {"Failed", "Cancelled", "Incomplete"} -> "Partial"
                         [] s.status \in {"Idle", "Partial"} -> "RelayProgressive"
  <2>1. ReadView(k, s, c) = CustomView(source, w)
    BY <1>11 DEF ReadView, CustomReadView
  <2>2. source \in {"Partial", "RelayProgressive"}
    BY <1>1, <1>3 DEF ReadStatuses
  <2>3. FooterFromWindow(w) = "TerminalEmpty" =>
          source = "Partial" /\ ~w.rows
    BY <1>1, <1>2, <1>3, WindowFacts, FooterClaims DEF ReadStatuses
  <2> HIDE DEF w, source
  <2> QED BY <2>1, <2>2, <2>3 DEF CustomView, View, Claims
<1>12. CASE k = "follow"
  BY <1>1, <1>3, <1>12 DEF ReadView, FollowView, FinalFollowState, View, Claims
<1> QED BY <1>4, <1>5, <1>6, <1>7, <1>8, <1>9, <1>10, <1>11, <1>12 DEF AllKinds

LEMMA StartViewClaims ==
    ASSUME NEW k \in AllKinds, NEW c \in CachedRows
    PROVE  ~Claims(StartView(k, c))
BY DEF AllKinds, StartView, CacheWindow, FooterFromWindow, HomeView, GlobalView,
       NotificationsView, ThreadView, SearchView, ProfileView, AuthorView, CustomView,
       FollowView, View, Claims

-----------------------------------------------------------------------------
(* The inductive invariant *)

(* A running read was neither cancelled nor released, and only a read that *)
(* began can end.                                                          *)
RunningIsNotCancelled ==
    /\ ~done => read.status # "Cancelled" /\ ~SomeCancelled(read)
    /\ done => begun
    /\ ~begun => loads = {}
    /\ released /\ begun => done

(* The EOSE the read knows of was sent, and its status follows from it.    *)
EoseWasSent ==
    /\ Sound(read)
    /\ \A r \in Relays : read.relays[r] = "Eose" => r \in eosed

(* No view that is shown, or waits to be, claims more than was proved.     *)
ViewsAreProved ==
    /\ Claims(shown) => eosed = Relays
    /\ \A l \in loads : Claims(l.view) => eosed = Relays

IInv == /\ TypeOK /\ AwaitedCanAnswer
        /\ RunningIsNotCancelled /\ EoseWasSent /\ ViewsAreProved

LEMMA InitIInv == Init => IInv
<1> SUFFICES ASSUME Init PROVE IInv
  OBVIOUS
<1> DEFINE s == [relays |-> [r \in Relays |-> "Pending"], events |-> 0,
                 gave |-> {}, final |-> FALSE, status |-> "Idle"]
<1>1. s \in ReadStates /\ \A r \in Relays : s.relays[r] = "Pending"
  BY DEF ReadStates, RelayStates, ReadStatuses
<1>2. read = WithStatus(s)
  BY DEF Init, InitialProgressiveRead
<1>3. Sound(read) /\ \A r \in Relays : read.relays[r] = "Pending"
  <2> HIDE DEF s
  <2> QED BY <1>1, <1>2, WithStatusSound
<1>4. TypeOK
  BY <1>3 DEF Init, TypeOK, Sound, SocketStates
<1>5. AwaitedCanAnswer
  BY DEF Init, AwaitedCanAnswer, Attached
<1>6. RunningIsNotCancelled
  BY <1>3 DEF Init, RunningIsNotCancelled, Sound, SomeCancelled
<1>7. EoseWasSent
  BY <1>3 DEF EoseWasSent
<1>8. ViewsAreProved
  BY StartViewClaims, KindsAssumption DEF Init, ViewsAreProved
<1> QED BY <1>4, <1>5, <1>6, <1>7, <1>8 DEF IInv

(* What every step of a running read keeps.                                *)
Kept == /\ kind' = kind /\ cached' = cached /\ begun' = TRUE
        /\ released' = released /\ loaded' \in BOOLEAN
        /\ eosed \subseteq eosed' /\ eosed' \subseteq Relays

(* The views of a step that publishes the state s of the read.             *)
LEMMA PublishKeepsViews ==
    ASSUME IInv, NEW s, Sound(s), Kept, Publish(s),
           \A r \in Relays : s.relays[r] = "Eose" => r \in eosed'
    PROVE  /\ ViewsAreProved'
           /\ generation' \in Nat
           /\ \A l \in loads' : l.generation \in 1..generation'
           /\ kind # "custom" => loads' = {} /\ generation' = 0
<1>1. kind \in AllKinds /\ cached \in CachedRows /\ s \in ReadStates
  BY KindsAssumption DEF IInv, TypeOK, Sound
<1>2. Claims(ReadView(kind, s, cached)) => eosed' = Relays
  BY <1>1, ReadViewClaims DEF Sound, AllEose, Kept
<1>3. /\ Claims(shown) => eosed' = Relays
      /\ \A l \in loads : Claims(l.view) => eosed' = Relays
  BY DEF IInv, ViewsAreProved, Kept
<1>4. /\ generation \in Nat
      /\ \A l \in loads : l.generation \in 1..generation
      /\ kind # "custom" => loads = {} /\ generation = 0
  BY DEF IInv, TypeOK
<1>5. CASE kind = "custom"
  <2> DEFINE v == ReadView(kind, s, cached)
             new == [generation |-> generation + 1, view |-> v]
  <2>1. /\ generation' = generation + 1
        /\ loads' = loads \cup {new}
        /\ shown' = shown
    BY <1>5 DEF Publish
  <2>2. new.view = v /\ new.generation = generation + 1
    OBVIOUS
  <2> HIDE DEF v, new
  <2>3. ViewsAreProved'
    BY <1>2, <1>3, <2>1, <2>2 DEF ViewsAreProved, v
  <2> QED BY <1>4, <1>5, <2>1, <2>2, <2>3
<1>6. CASE kind # "custom"
  <2>1. shown' = shown \/ shown' = ReadView(kind, s, cached)
    BY <1>6 DEF Publish, Deliver
  <2>2. loads' = loads /\ generation' = generation
    BY <1>6 DEF Publish
  <2> QED BY <1>2, <1>3, <1>4, <1>6, <2>1, <2>2 DEF ViewsAreProved
<1> QED BY <1>5, <1>6

LEMMA CloseAllDetaches ==
    ASSUME NEW sockets \in [Relays -> SocketStates], CloseAll(sockets)
    PROVE  /\ timer' = FALSE
           /\ socket' \in [Relays -> SocketStates]
           /\ \A r \in Relays : socket'[r] \notin Attached
BY DEF CloseAll, SocketStates, Attached

(* A step that ends the read with the state s.                             *)
LEMMA SettleStep ==
    ASSUME IInv, NEW s, NEW sockets \in [Relays -> SocketStates],
           Sound(s), Kept, Settle(s, sockets),
           \A r \in Relays : s.relays[r] = "Eose" => r \in eosed'
    PROVE  IInv'
<1>1. /\ ViewsAreProved'
      /\ generation' \in Nat
      /\ \A l \in loads' : l.generation \in 1..generation'
      /\ kind # "custom" => loads' = {} /\ generation' = 0
  BY PublishKeepsViews DEF Settle
<1>2. /\ done' = TRUE /\ read' = s /\ timer' = FALSE
      /\ socket' \in [Relays -> SocketStates]
      /\ \A r \in Relays : socket'[r] \notin Attached
  BY CloseAllDetaches DEF Settle
<1>3. TypeOK'
  BY <1>1, <1>2 DEF IInv, TypeOK, Kept, Sound
<1>4. AwaitedCanAnswer'
  BY <1>2 DEF AwaitedCanAnswer
<1>5. RunningIsNotCancelled' /\ EoseWasSent'
  BY <1>2 DEF RunningIsNotCancelled, EoseWasSent, Kept, Sound, AllEose, SomeCancelled
<1> QED BY <1>1, <1>3, <1>4, <1>5 DEF IInv

(* A step after which the read runs on with the state s.                   *)
LEMMA RunningStep ==
    ASSUME IInv, ~done, ~released,
           NEW s, NEW sockets \in [Relays -> SocketStates],
           Sound(s), s.status # "Cancelled", Kept,
           \A r \in Relays : s.relays[r] = "Eose" => r \in eosed',
           ~AllRelaysDone(s),
           \A r \in Relays : ~RelayDone(s, r) => sockets[r] \in {"connecting", "open"},
           read' = s, socket' = sockets, done' = done, timer' = TRUE,
           \/ loads' = loads /\ generation' = generation /\ shown' = shown
           \/ Publish(s)
    PROVE  IInv'
<1>1. /\ ViewsAreProved'
      /\ generation' \in Nat
      /\ \A l \in loads' : l.generation \in 1..generation'
      /\ kind # "custom" => loads' = {} /\ generation' = 0
  <2>1. CASE Publish(s)
    BY <2>1, PublishKeepsViews
  <2>2. CASE loads' = loads /\ generation' = generation /\ shown' = shown
    BY <2>2 DEF IInv, TypeOK, ViewsAreProved, Kept
  <2> QED BY <2>1, <2>2
<1>2. TypeOK'
  BY <1>1 DEF IInv, TypeOK, Kept, Sound
<1>3. AwaitedCanAnswer'
  BY DEF IInv, AwaitedCanAnswer, Kept, AllRelaysDone, RelayDone
<1>4. RunningIsNotCancelled' /\ EoseWasSent'
  BY DEF IInv, RunningIsNotCancelled, EoseWasSent, Kept, Sound, AllEose, SomeCancelled
<1> QED BY <1>1, <1>2, <1>3, <1>4 DEF IInv

-----------------------------------------------------------------------------
(* The handlers *)

(* A socket that can call back belongs to a running read.                  *)
LEMMA AttachedIsRunning ==
    ASSUME IInv, NEW r \in Relays, socket[r] \in Attached
    PROVE  begun = TRUE /\ done = FALSE
BY DEF IInv, TypeOK, AwaitedCanAnswer

LEMMA RunningFacts ==
    ASSUME IInv, begun, ~done
    PROVE  /\ released = FALSE
           /\ Sound(read) /\ read \in ReadStates
           /\ read.status # "Cancelled" /\ ~SomeCancelled(read)
           /\ \A r \in Relays : read.relays[r] = "Eose" => r \in eosed
           /\ timer = TRUE
           /\ ~AllRelaysDone(read)
           /\ \A r \in Relays : ~RelayDone(read, r) => socket[r] \in {"connecting", "open"}
           /\ socket \in [Relays -> SocketStates]
BY DEF IInv, TypeOK, AwaitedCanAnswer, RunningIsNotCancelled, EoseWasSent, Sound

(* relay_status of a running read does not cancel it.                      *)
LEMMA RelayStatusRuns ==
    ASSUME NEW s \in ReadStates, s.status # "Cancelled", ~SomeCancelled(s),
           NEW r \in Relays, NEW end \in EndStates \ {"Cancelled"}
    PROVE  LET t == RelayStatus(s, r, end)
           IN  /\ Sound(t) /\ t.status # "Cancelled" /\ ~SomeCancelled(t)
               /\ \A q \in Relays : q # r => t.relays[q] = s.relays[q]
               /\ t.relays[r] = RelayStateOf(end, r \in s.gave)
               /\ t.relays[r] = "Eose" => end = "Eose"
               /\ end \in Answers => RelayDone(t, r)
<1> DEFINE g == r \in s.gave
           t == RelayStatus(s, r, end)
<1>1. Sound(t) /\ t.relays = [s.relays EXCEPT ![r] = RelayStateOf(end, g)]
  BY RelayStatusSound
<1>2. s.relays \in [Relays -> RelayStates]
  BY DEF ReadStates
<1>3. g \in BOOLEAN
  OBVIOUS
<1> HIDE DEF g, t
<1>4. /\ RelayStateOf(end, g) = "Eose" => end = "Eose"
      /\ RelayStateOf(end, g) # "Cancelled"
      /\ end \in Answers => RelayStateOf(end, g) \in RelayTerminal
  BY <1>3, RelayStateOfType
<1>5. /\ \A q \in Relays : q # r => t.relays[q] = s.relays[q]
      /\ t.relays[r] = RelayStateOf(end, g)
  BY <1>1, <1>2
<1>6. ~SomeCancelled(t) /\ t.status # "Cancelled"
  BY <1>1, <1>4, <1>5 DEF SomeCancelled, Sound
<1> QED BY <1>1, <1>4, <1>5, <1>6 DEF g, t, RelayDone

(* finish_relay, called with one changed socket.                           *)
LEMMA FinishRelayStep ==
    ASSUME IInv, begun, ~done, Kept, NEW r \in Relays, NEW end \in Answers,
           NEW sockets \in [Relays -> SocketStates],
           \A q \in Relays \ {r} : sockets[q] = socket[q],
           end = "Eose" => r \in eosed',
           FinishRelay(r, end, sockets)
    PROVE  IInv'
<1> DEFINE s == RelayStatus(read, r, end)
<1>1. end \in EndStates \ {"Cancelled"}
  BY DEF Answers, EndStates, RelayStates
<1>2. /\ Sound(s) /\ s.status # "Cancelled"
      /\ \A q \in Relays : q # r => s.relays[q] = read.relays[q]
      /\ s.relays[r] = "Eose" => end = "Eose"
      /\ RelayDone(s, r)
  BY <1>1, RunningFacts, RelayStatusRuns
<1> HIDE DEF s
<1>3. \A q \in Relays : s.relays[q] = "Eose" => q \in eosed'
  BY <1>2, RunningFacts DEF Kept
<1>4. CASE RelayDone(read, r)
  <2>1. GoOn(read, sockets)
    BY <1>4 DEF FinishRelay
  <2>2. \A q \in Relays : ~RelayDone(read, q) => sockets[q] \in {"connecting", "open"}
    BY <1>4, RunningFacts
  <2> QED BY <2>1, <2>2, RunningFacts, RunningStep DEF GoOn, Kept
<1>5. CASE ~RelayDone(read, r) /\ AllRelaysDone(s)
  <2>1. Settle(Finalize(s), sockets)
    BY <1>5 DEF FinishRelay, s
  <2>2. Sound(Finalize(s)) /\ Finalize(s).relays = s.relays
    BY <1>2, FinalizeSound DEF Sound
  <2> QED BY <1>3, <2>1, <2>2, SettleStep
<1>6. CASE ~RelayDone(read, r) /\ ~AllRelaysDone(s)
  <2>1. GoOn(s, sockets)
    BY <1>6 DEF FinishRelay, s
  <2>2. \A q \in Relays : ~RelayDone(s, q) => sockets[q] \in {"connecting", "open"}
    BY <1>2, RunningFacts DEF RelayDone
  <2> QED BY <1>2, <1>3, <1>6, <2>1, <2>2, RunningFacts, RunningStep DEF GoOn
<1> QED BY <1>4, <1>5, <1>6

LEMMA OpenedStep ==
    ASSUME IInv, Same, loaded' = loaded, NEW r \in Relays, Opened(r)
    PROVE  IInv'
<1>1. /\ socket[r] = "connecting" /\ eosed' = eosed
      /\ begun = TRUE /\ done = FALSE
  BY AttachedIsRunning DEF Opened, Attached
<1>2. Kept
  BY <1>1 DEF IInv, TypeOK, Same, Kept
<1> DEFINE s == RelayStatus(read, r, "Connected")
           u == RelayStatus(s, r, "Error")
           opened == [socket EXCEPT ![r] = "open"]
           failing == [socket EXCEPT ![r] = "failing"]
<1>3. /\ Sound(s) /\ s.status # "Cancelled" /\ ~SomeCancelled(s)
      /\ \A q \in Relays : q # r => s.relays[q] = read.relays[q]
      /\ s.relays[r] = RelayStateOf("Connected", r \in read.gave)
  BY <1>1, RunningFacts, RelayStatusRuns DEF EndStates, RelayStates
<1>4. s.relays[r] \in {"Connected", "Reading"}
  BY <1>3 DEF RelayStateOf
<1>5. /\ opened \in [Relays -> SocketStates] /\ failing \in [Relays -> SocketStates]
      /\ opened[r] = "open"
      /\ \A q \in Relays \ {r} : opened[q] = socket[q] /\ failing[q] = socket[q]
  BY <1>1, RunningFacts DEF SocketStates
<1>6. \A q \in Relays : s.relays[q] = "Eose" => q \in eosed'
  BY <1>1, <1>3, <1>4, RunningFacts
<1>7. CASE GoOn(s, opened)
  <2>1. ~AllRelaysDone(s)
    BY <1>4 DEF AllRelaysDone, RelayDone, RelayTerminal
  <2>2. \A q \in Relays : ~RelayDone(s, q) => opened[q] \in {"connecting", "open"}
    BY <1>1, <1>3, <1>5, RunningFacts DEF RelayDone
  <2> HIDE DEF s, opened
  <2> QED BY <1>1, <1>2, <1>3, <1>5, <1>6, <1>7, <2>1, <2>2, RunningFacts, RunningStep DEF GoOn
<1>8. CASE IF AllRelaysDone(u) THEN Settle(Finalize(u), failing) ELSE GoOn(u, failing)
  <2>1. /\ Sound(u) /\ u.status # "Cancelled"
        /\ \A q \in Relays : q # r => u.relays[q] = s.relays[q]
        /\ u.relays[r] # "Eose" /\ RelayDone(u, r)
    <3> HIDE DEF s
    <3> QED BY <1>3, RelayStatusRuns DEF Sound, EndStates, RelayStates, Answers
  <2> HIDE DEF u
  <2>2. \A q \in Relays : u.relays[q] = "Eose" => q \in eosed'
    BY <1>6, <2>1
  <2>3. \A q \in Relays : ~RelayDone(u, q) => failing[q] \in {"connecting", "open"}
    BY <1>1, <1>3, <1>5, <2>1, RunningFacts DEF RelayDone
  <2>4. Sound(Finalize(u)) /\ Finalize(u).relays = u.relays
    BY <2>1, FinalizeSound DEF Sound
  <2> HIDE DEF failing
  <2> QED BY <1>1, <1>2, <1>5, <1>8, <2>1, <2>2, <2>3, <2>4,
             RunningFacts, RunningStep, SettleStep DEF GoOn
<1> QED BY <1>7, <1>8 DEF Opened

LEMMA EndsStep ==
    ASSUME IInv, Same, loaded' = loaded, NEW r \in Relays, Ends(r)
    PROVE  IInv'
<1>1. CASE Opened(r)
  BY <1>1, OpenedStep
<1>2. ASSUME NEW end \in Answers, Message(r, end)
      PROVE  IInv'
  <2>1. socket[r] = "open" /\ begun = TRUE /\ done = FALSE
    BY <1>2, AttachedIsRunning DEF Message, Attached
  <2>2. /\ eosed' = IF end = "Eose" THEN eosed \cup {r} ELSE eosed
        /\ FinishRelay(r, end, socket)
    BY <1>2 DEF Message
  <2>3. Kept
    BY <2>1, <2>2 DEF IInv, TypeOK, Same, Kept
  <2> QED BY <2>1, <2>2, <2>3, RunningFacts, FinishRelayStep
<1>3. CASE SocketError(r)
  <2>1. begun = TRUE /\ done = FALSE
    BY <1>3, AttachedIsRunning DEF SocketError, Attached
  <2>2. Kept
    BY <1>3, <2>1 DEF SocketError, IInv, TypeOK, Same, Kept
  <2> DEFINE sockets == [socket EXCEPT ![r] = "failing"]
  <2>3. /\ sockets \in [Relays -> SocketStates]
        /\ \A q \in Relays \ {r} : sockets[q] = socket[q]
    BY <2>1, RunningFacts DEF SocketStates
  <2>4. FinishRelay(r, "Error", sockets)
    BY <1>3 DEF SocketError
  <2> HIDE DEF sockets
  <2> QED BY <2>1, <2>2, <2>3, <2>4, FinishRelayStep DEF Answers
<1>4. CASE SocketClosed(r)
  <2>1. begun = TRUE /\ done = FALSE
    BY <1>4, AttachedIsRunning DEF SocketClosed
  <2>2. Kept
    BY <1>4, <2>1 DEF SocketClosed, IInv, TypeOK, Same, Kept
  <2> DEFINE sockets == [socket EXCEPT ![r] = "closed"]
  <2>3. /\ sockets \in [Relays -> SocketStates]
        /\ \A q \in Relays \ {r} : sockets[q] = socket[q]
    BY <2>1, RunningFacts DEF SocketStates
  <2>4. FinishRelay(r, "Closed", sockets)
    BY <1>4 DEF SocketClosed
  <2> HIDE DEF sockets
  <2> QED BY <2>1, <2>2, <2>3, <2>4, FinishRelayStep DEF Answers
<1> QED BY <1>1, <1>2, <1>3, <1>4 DEF Ends

LEMMA EventStep ==
    ASSUME IInv, Same, NEW r \in Relays, Event(r)
    PROVE  IInv'
<1>1. PICK new \in BOOLEAN : TakeEvent(r, new) /\ loaded' = loaded
  BY DEF Event
<1>2. /\ socket[r] = "open" /\ eosed' = eosed
      /\ begun = TRUE /\ done = FALSE
  BY <1>1, AttachedIsRunning DEF TakeEvent, Attached
<1>3. Kept
  BY <1>1, <1>2 DEF IInv, TypeOK, Same, Kept
<1> DEFINE u == RelayEvents(read, r, new)
           s == RelayStatus(u, r, "Reading")
           full == FinalizeAll(s, "EventLimit")
<1>4. Sound(u) /\ u.status # "Cancelled" /\ u.relays = read.relays
  BY <1>2, RunningFacts, RelayEventsSound
<1>5. /\ Sound(s) /\ s.status # "Cancelled"
      /\ \A q \in Relays : q # r => s.relays[q] = read.relays[q]
      /\ s.relays[r] = RelayStateOf("Reading", r \in u.gave)
  <2> HIDE DEF u
  <2> QED BY <1>2, <1>4, RunningFacts, RelayStatusRuns
          DEF Sound, SomeCancelled, EndStates, RelayStates
<1> HIDE DEF u
<1>6. s.relays[r] \in {"Connected", "Reading"}
  BY <1>5 DEF RelayStateOf
<1>7. IF s.events >= WindowMax THEN Settle(full, socket)
      ELSE read' = s /\ Publish(s) /\ UNCHANGED <<done, socket, timer>>
  BY <1>1 DEF TakeEvent, u
<1> HIDE DEF s
<1>8. \A q \in Relays : s.relays[q] = "Eose" => q \in eosed'
  BY <1>2, <1>5, <1>6, RunningFacts
<1>9. CASE s.events >= WindowMax
  <2>1. Sound(full) /\ \A q \in Relays : full.relays[q] # "Eose"
    BY <1>5, FinalizeAllSound DEF Sound
  <2> HIDE DEF full
  <2> QED BY <1>2, <1>3, <1>7, <1>9, <2>1, RunningFacts, SettleStep
<1>10. CASE ~(s.events >= WindowMax)
  <2>1. ~AllRelaysDone(s)
    BY <1>6 DEF AllRelaysDone, RelayDone, RelayTerminal
  <2>2. \A q \in Relays : ~RelayDone(s, q) => socket[q] \in {"connecting", "open"}
    BY <1>2, <1>5, RunningFacts DEF RelayDone
  <2> QED BY <1>2, <1>3, <1>5, <1>7, <1>8, <1>10, <2>1, <2>2, RunningFacts, RunningStep
<1> QED BY <1>9, <1>10

(* The first follow list: the read is cancelled by the notes read it       *)
(* starts, and its view claims nothing.                                    *)
LEMMA FollowEventStep ==
    ASSUME IInv, Same, NEW r \in Relays, FollowEvent(r)
    PROVE  IInv'
<1>1. /\ socket[r] = "open" /\ eosed' = eosed /\ done' = TRUE /\ loaded' = TRUE
      /\ begun = TRUE /\ done = FALSE
      /\ loads' = loads /\ generation' = generation
      /\ shown' = shown \/ shown' = FollowView("Loaded")
  BY AttachedIsRunning DEF FollowEvent, Attached, Deliver
<1> DEFINE g == [read EXCEPT !.gave = {r}]
           s == RelayStatus(g, r, "Reading")
           c == CancelRead(s)
<1>2. g \in ReadStates /\ g.status # "Cancelled" /\ g.relays = read.relays
  BY <1>1, RunningFacts DEF ReadStates
<1>3. Sound(s) /\ s.status # "Cancelled"
  <2> HIDE DEF g
  <2> QED BY <1>1, <1>2, RunningFacts, RelayStatusRuns DEF SomeCancelled, EndStates, RelayStates
<1>4. Sound(c) /\ \A q \in Relays : c.relays[q] # "Eose"
  <2> HIDE DEF s
  <2> QED BY <1>3, CancelReadSound DEF Sound
<1>5. read' = c
  BY DEF FollowEvent
<1> HIDE DEF c
<1>6. /\ timer' = FALSE /\ socket' \in [Relays -> SocketStates]
      /\ \A q \in Relays : socket'[q] \notin Attached
  BY <1>1, RunningFacts, CloseAllDetaches DEF FollowEvent
<1>7. ~Claims(FollowView("Loaded"))
  BY DEF FollowView, View, Claims
<1>8. TypeOK'
  BY <1>1, <1>4, <1>5, <1>6 DEF IInv, TypeOK, Same, Sound
<1>9. AwaitedCanAnswer'
  BY <1>1, <1>6 DEF AwaitedCanAnswer
<1>10. RunningIsNotCancelled' /\ EoseWasSent'
  BY <1>1, <1>4, <1>5 DEF RunningIsNotCancelled, EoseWasSent, Same, Sound, AllEose, SomeCancelled
<1>11. ViewsAreProved'
  BY <1>1, <1>7 DEF IInv, ViewsAreProved
<1> QED BY <1>8, <1>9, <1>10, <1>11 DEF IInv

LEMMA ReadStepKeeps ==
    ASSUME IInv, NEW r \in Relays, ReadStep(r)
    PROVE  IInv'
<1>1. \/ Same /\ Event(r)
      \/ Same /\ loaded' = loaded /\ Ends(r)
      \/ Same /\ FollowEvent(r)
  BY DEF ReadStep, HomeRead, HomeEvent, GlobalRead, NotificationsRead, ThreadRead, SearchRead,
         ProfileRead, AuthorRead, CustomRead, FollowRead
<1> QED BY <1>1, EventStep, EndsStep, FollowEventStep

LEMMA StartStep ==
    ASSUME IInv, NEW bad \in SUBSET Relays, Start(bad)
    PROVE  IInv'
<1> DEFINE f == [r \in Relays |-> IF r \in bad THEN "Error" ELSE "Pending"]
           failed == [read EXCEPT !.relays = f]
           sockets == [r \in Relays |-> IF r \in bad THEN "none" ELSE "connecting"]
           s == WithStatus(failed)
<1>1. /\ begun = FALSE /\ released = FALSE /\ done = FALSE /\ begun' = TRUE
      /\ UNCHANGED <<kind, cached, released, loaded, eosed>>
  BY DEF Start, IInv, TypeOK, RunningIsNotCancelled
<1>2. Kept
  BY <1>1 DEF Kept, IInv, TypeOK
<1>3. failed \in ReadStates /\ failed.relays = f
  BY DEF IInv, TypeOK, ReadStates, RelayStates
<1>4. IF AllRelaysDone(failed) THEN Settle(Finalize(s), sockets)
      ELSE timer' = TRUE /\ read' = s /\ socket' = sockets
           /\ UNCHANGED <<done, loads, generation, shown>>
  BY DEF Start
<1>5. /\ \A r \in Relays : f[r] \in {"Error", "Pending"}
      /\ \A r \in Relays : f[r] # "Error" => sockets[r] = "connecting"
      /\ sockets \in [Relays -> SocketStates]
  BY DEF SocketStates
<1> HIDE DEF f, failed, sockets
<1>6. Sound(s) /\ s.relays = f
  BY <1>3, WithStatusSound
<1> HIDE DEF s
<1>7. s.status # "Cancelled" /\ \A r \in Relays : s.relays[r] # "Eose"
  BY <1>5, <1>6 DEF Sound, SomeCancelled
<1>8. AllRelaysDone(failed) <=> AllRelaysDone(s)
  BY <1>3, <1>6 DEF AllRelaysDone, RelayDone
<1>9. \A r \in Relays : ~RelayDone(s, r) => sockets[r] \in {"connecting", "open"}
  BY <1>5, <1>6 DEF RelayDone, RelayTerminal
<1>10. Sound(Finalize(s)) /\ Finalize(s).relays = s.relays
  BY <1>6, <1>7, FinalizeSound DEF Sound
<1>11. CASE AllRelaysDone(s)
  BY <1>2, <1>4, <1>5, <1>7, <1>8, <1>10, <1>11, SettleStep
<1>12. CASE ~AllRelaysDone(s)
  BY <1>1, <1>2, <1>4, <1>5, <1>6, <1>7, <1>8, <1>9, <1>12, RunningStep
<1> QED BY <1>11, <1>12

LEMMA TimeoutStep ==
    ASSUME IInv, Timeout
    PROVE  IInv'
<1>1. begun = TRUE /\ done = FALSE /\ eosed' = eosed
  BY DEF IInv, TypeOK, AwaitedCanAnswer, Timeout
<1>2. Kept
  BY <1>1 DEF IInv, TypeOK, Kept, Timeout
<1>3. /\ Sound(TimeoutRead(read))
      /\ \A r \in Relays : TimeoutRead(read).relays[r] = "Eose" => r \in eosed'
  BY <1>1, RunningFacts, TimeoutReadSound
<1> QED BY <1>1, <1>2, <1>3, RunningFacts, SettleStep DEF Timeout

LEMMA CancelStep ==
    ASSUME IInv, Cancel
    PROVE  IInv'
<1>1. /\ released' = TRUE
      /\ UNCHANGED <<kind, cached, begun, loaded, loads, shown, eosed>>
  BY DEF Cancel
<1>2. CASE begun /\ ~done
  <2>1. done' = TRUE /\ read' = CancelRead(read) /\ CloseAll(socket)
    BY <1>2 DEF Cancel
  <2>2. generation' = IF kind = "custom" THEN generation + 1 ELSE generation
    BY <1>2 DEF Cancel
  <2>3. Sound(read') /\ \A r \in Relays : read'.relays[r] # "Eose"
    BY <1>2, <2>1, RunningFacts, CancelReadSound
  <2>4. /\ timer' = FALSE /\ socket' \in [Relays -> SocketStates]
        /\ \A r \in Relays : socket'[r] \notin Attached
    BY <1>2, <2>1, RunningFacts, CloseAllDetaches
  <2>5. /\ generation' \in Nat
        /\ \A l \in loads : l.generation \in 1..generation'
        /\ kind # "custom" => loads = {} /\ generation' = 0
    BY <2>2 DEF IInv, TypeOK
  <2>6. TypeOK'
    BY <1>1, <2>1, <2>3, <2>4, <2>5 DEF IInv, TypeOK, Sound
  <2>7. AwaitedCanAnswer'
    BY <2>1, <2>4 DEF AwaitedCanAnswer
  <2>8. RunningIsNotCancelled' /\ EoseWasSent' /\ ViewsAreProved'
    BY <1>1, <1>2, <2>1, <2>3
       DEF IInv, RunningIsNotCancelled, EoseWasSent, ViewsAreProved, Sound, AllEose, SomeCancelled
  <2> QED BY <2>6, <2>7, <2>8 DEF IInv
<1>3. CASE ~(begun /\ ~done)
  <2>1. UNCHANGED <<done, read, timer, socket, generation>>
    BY <1>3 DEF Cancel
  <2>2. TypeOK'
    BY <1>1, <2>1 DEF IInv, TypeOK
  <2>3. AwaitedCanAnswer'
    BY <1>1, <2>1 DEF IInv, AwaitedCanAnswer, AllRelaysDone, RelayDone
  <2>4. RunningIsNotCancelled'
    BY <1>1, <1>3, <2>1 DEF IInv, RunningIsNotCancelled, SomeCancelled
  <2>5. EoseWasSent' /\ ViewsAreProved'
    BY <1>1, <2>1 DEF IInv, EoseWasSent, ViewsAreProved, Sound, AllEose, SomeCancelled
  <2> QED BY <2>2, <2>3, <2>4, <2>5 DEF IInv
<1> QED BY <1>2, <1>3

LEMMA GeometryLoadedStep ==
    ASSUME IInv, NEW l \in loads, GeometryLoaded(l)
    PROVE  IInv'
<1>1. /\ loads' = loads \ {l} /\ shown' \in {shown, l.view}
      /\ UNCHANGED <<kind, cached, begun, done, released, read, loaded, socket, timer,
                     generation, eosed>>
  BY DEF GeometryLoaded, Deliver
<1> QED BY <1>1
        DEF IInv, TypeOK, AwaitedCanAnswer, RunningIsNotCancelled, EoseWasSent, ViewsAreProved,
            Sound, AllEose, SomeCancelled, AllRelaysDone, RelayDone

LEMMA StutterStep == IInv /\ UNCHANGED vars => IInv'
BY DEF vars, IInv, TypeOK, AwaitedCanAnswer, RunningIsNotCancelled, EoseWasSent, ViewsAreProved,
       Sound, AllEose, SomeCancelled, AllRelaysDone, RelayDone

LEMMA NextKeepsIInv == IInv /\ [Next]_vars => IInv'
BY ReadStepKeeps, StartStep, TimeoutStep, CancelStep, GeometryLoadedStep, StutterStep DEF Next

LEMMA Invariance == Spec => []IInv
BY InitIInv, NextKeepsIInv, PTL DEF Spec

-----------------------------------------------------------------------------
(* Theorems *)

(* Every variable keeps its type.                                          *)
THEOREM WindowReadTypes == Spec => []TypeOK
BY Invariance, PTL DEF IInv

(* A running read has its timer and waits only for relays whose sockets    *)
(* can still answer; an ended one has neither timer nor callback.          *)
THEOREM NobodyWaitsInVain == Spec => []AwaitedCanAnswer
BY Invariance, PTL DEF IInv

(* Complete, an empty end and a missing follow list are said only after    *)
(* EOSE of every relay, for every surface and every order of answers.      *)
THEOREM NothingClaimedUnproved == Spec => []ClaimsAreProved
<1>1. IInv => ClaimsAreProved
  <2> SUFFICES ASSUME IInv PROVE ClaimsAreProved
    OBVIOUS
  <2>1. CompleteIsProved
    BY DEF IInv, TypeOK, EoseWasSent, Sound, AllEose, CompleteIsProved
  <2>2. AbsenceIsProved
    BY DEF IInv, ViewsAreProved, Claims, AbsenceIsProved
  <2> QED BY <2>1, <2>2 DEF ClaimsAreProved
<1> QED BY <1>1, Invariance, PTL

(* Every step of the read is a step of the contract, or changes neither    *)
(* its phase nor what is shown.                                            *)
LEMMA StepKeepsContract == IInv /\ [Next]_vars => [Contract!Next]_(Contract!vars)
<1> SUFFICES ASSUME IInv, [Next]_vars PROVE [Contract!Next]_(Contract!vars)
  OBVIOUS
<1>1. /\ Phase \in {"idle", "running", "settled", "released"}
      /\ Phase' \in {"idle", "running", "settled", "released"}
  BY DEF Phase
<1>2. ASSUME begun, ~done, ~released, begun', ~released'
      PROVE  Contract!Next
  <2>1. Phase = "running" /\ Phase' \in {"running", "settled"}
    BY <1>2 DEF Phase
  <2> QED BY <2>1 DEF Contract!Next, Contract!Update, Contract!Settle
<1>3. ASSUME NEW bad \in SUBSET Relays, Start(bad)
      PROVE  Contract!Next
  <2>1. Phase = "idle" /\ Phase' \in {"running", "settled"}
    BY <1>3 DEF Start, Phase
  <2> QED BY <2>1 DEF Contract!Next, Contract!Begin
<1>4. ASSUME NEW r \in Relays, ReadStep(r)
      PROVE  Contract!Next
  <2>1. /\ Same
        /\ socket[r] \in Attached
    BY <1>4 DEF ReadStep, HomeRead, HomeEvent, GlobalRead, NotificationsRead, ThreadRead,
                SearchRead, ProfileRead, AuthorRead, CustomRead, FollowRead, Ends, Opened,
                Message, SocketError, SocketClosed, Event, TakeEvent, FollowEvent, Attached
  <2>2. begun = TRUE /\ done = FALSE
    BY <2>1, AttachedIsRunning
  <2> QED BY <1>2, <2>1, <2>2, RunningFacts DEF Same
<1>5. CASE Timeout
  <2>1. begun = TRUE /\ done = FALSE
    BY <1>5 DEF IInv, TypeOK, AwaitedCanAnswer, Timeout
  <2> QED BY <1>2, <1>5, <2>1, RunningFacts DEF Timeout
<1>6. CASE Cancel
  <2>1. Phase' = "released" /\ shown' = shown
    BY <1>6 DEF Cancel, Phase
  <2> QED BY <2>1 DEF Contract!Next, Contract!Release
<1>7. ASSUME NEW l \in loads, GeometryLoaded(l)
      PROVE  [Contract!Next]_(Contract!vars)
  <2>1. /\ loads' = loads \ {l}
        /\ UNCHANGED <<begun, done, released, generation>>
        /\ released \/ l.generation # generation => shown' = shown
    BY <1>7 DEF GeometryLoaded, Deliver
  <2>2. begun
    BY <1>7 DEF IInv, RunningIsNotCancelled
  <2>3. CASE released
    <3>1. Phase' = Phase /\ shown' = shown
      BY <2>1, <2>3 DEF Phase
    <3> QED BY <3>1 DEF Contract!vars
  <2>4. CASE ~released /\ Phase = "settled"
    <3>1. /\ done
          /\ \A k \in loads : k.generation # generation
      BY <2>2, <2>4 DEF Phase
    <3>2. Phase' = Phase /\ shown' = shown
      BY <1>7, <2>1, <2>2, <2>4, <3>1 DEF Phase
    <3> QED BY <3>2 DEF Contract!vars
  <2>5. CASE ~released /\ Phase # "settled"
    <3>1. Phase = "running" /\ Phase' \in {"running", "settled"}
      BY <2>1, <2>2, <2>5 DEF Phase
    <3> QED BY <3>1 DEF Contract!Next, Contract!Update, Contract!Settle
  <2> QED BY <2>3, <2>4, <2>5
<1>8. CASE UNCHANGED vars
  BY <1>8 DEF vars, Contract!vars, Phase
<1> QED BY <1>3, <1>4, <1>5, <1>6, <1>7, <1>8 DEF Next

(* Whatever relays, the timer, the release and late geometry do, a surface *)
(* gets no view after the end of its read and none after the release.      *)
THEOREM WindowReadKeepsContract == Spec => ImplementsContract
<1>1. Init => Contract!Init
  BY DEF Init, Contract!Init, Phase
<1> QED BY <1>1, Invariance, StepKeepsContract, PTL DEF Spec, ImplementsContract, Contract!Spec


-----------------------------------------------------------------------------
(* Reads through the store: the inductive invariant *)

StoredTyped ==
    /\ surface \in AllSurfaces
    /\ link \in [Selected -> LinkStates]
    /\ ended \subseteq Selected
    /\ seen \in Nat
    /\ \A t \in tasks : DOMAIN t = {"n", "row", "stage", "outcome", "view"}

(* Only a read that began has tasks, and a release stops it.               *)
TasksOfARead ==
    /\ tasks # {} => started
    /\ cancelled /\ started => stopped
    /\ stopped => started

(* Unless the store failed, a task that has stored its row will deliver    *)
(* what the store then holds, and that is never Loading.                   *)
TasksWillShow ==
    \A t \in tasks :
        /\ surface = "followees" => t.row = "follow"
        /\ surface = "timeline" => t.row \in {"follow", "note"}
        /\ ~storeFailed /\ t.stage # "store" => t.row \in db
        /\ ~storeFailed /\ t.stage = "publish" => t.view # "Loading"

HeaderShows ==
    surface = "header" =>
        delivered = "Header" /\ \A t \in tasks : t.stage = "publish" => t.view = "Header"

(* An event that was seen has a task, until the task has delivered.        *)
SeenIsWorkedOn ==
    seen > 0 /\ ~cancelled /\ ~storeFailed /\ delivered = "Loading" => tasks # {}

StoredInv == /\ StoredTyped /\ StoredCanAnswer /\ TasksOfARead /\ TasksWillShow
             /\ HeaderShows /\ SeenIsWorkedOn /\ LoadingIsWorkedOn

-----------------------------------------------------------------------------
(* What is shown *)

(* A view that says no event came does not say Loading.                    *)
LEMMA NoEventIsNotLoading ==
    ASSUME NEW out, NEW posts
    PROVE  NoEventView(out, posts) # "Loading"
<1>1. GroupOutcome(out) \in {"Succeeded", "AuthRequired", "RateLimited", "Failed"}
  BY DEF GroupOutcome
<1>2. DiscoveryState(FALSE, GroupOutcome(out), posts)
        \in {"AuthRequired", "RateLimited", "TargetPostsOnly", "Failed", "Incomplete"}
  BY <1>1 DEF DiscoveryState
<1> QED BY <1>2 DEF NoEventView, TimelineView

(* Nor does the model of a surface with a row of its own.                  *)
LEMMA StoredModelShows ==
    ASSUME NEW t, surface \in AllSurfaces, t.row \in db,
           surface = "followees" => t.row = "follow",
           surface = "timeline" => t.row \in {"follow", "note"}
    PROVE  Model(t) # "Loading"
<1>1. CASE surface = "followees"
  BY <1>1 DEF Model, FolloweesModel
<1>2. CASE surface = "timeline"
  <2>1. CASE "follow" \in db
    BY <1>2, <2>1 DEF Model, TimelineModel, TimelineView, DiscoveryState
  <2>2. CASE "follow" \notin db
    BY <1>2, <2>2, NoEventIsNotLoading DEF Model, TimelineModel
  <2> QED BY <2>1, <2>2
<1>3. CASE surface = "header"
  BY <1>3 DEF Model
<1> QED BY <1>1, <1>2, <1>3 DEF AllSurfaces

-----------------------------------------------------------------------------
(* The end of a read *)

LEMMA FinishFacts ==
    ASSUME NEW out, NEW count \in Nat, NEW sockets \in [Selected -> LinkStates],
           surface \in AllSurfaces, FinishAll(out, count, sockets)
    PROVE  /\ stopped' /\ ~timeout'
           /\ link' \in [Selected -> LinkStates]
           /\ \A r \in Selected : link'[r] \notin Listening
           /\ surface = "header" \/ count > 0 => delivered' = delivered
           /\ ~cancelled /\ surface # "header" /\ count = 0 => delivered' # "Loading"
           /\ cancelled => delivered' = delivered
<1>1. /\ stopped' /\ ~timeout'
      /\ link' \in [Selected -> LinkStates]
      /\ \A r \in Selected : link'[r] \notin Listening
  BY DEF FinishAll, CloseLinks, LinkStates, Listening
<1>2. CASE surface = "header" \/ count > 0
  <2>1. ~(count = 0) \/ surface = "header"
    BY <1>2
  <2>2. delivered' = delivered
    BY <1>2, <2>1 DEF FinishAll
  <2> QED BY <1>1, <1>2, <2>2
<1>3. CASE surface = "followees" /\ count = 0
  <2>1. DeliverView("Failure")
    BY <1>3 DEF FinishAll
  <2> QED BY <1>1, <1>3, <2>1 DEF DeliverView
<1>4. CASE surface = "timeline" /\ count = 0
  <2>1. DeliverView(NoEventView(out, "note" \in db))
    BY <1>4 DEF FinishAll
  <2>2. NoEventView(out, "note" \in db) # "Loading"
    BY NoEventIsNotLoading
  <2> QED BY <1>1, <1>4, <2>1, <2>2 DEF DeliverView
<1> QED BY <1>2, <1>3, <1>4 DEF AllSurfaces

(* A read that runs ends: it has said so, or has tasks that will.          *)
LEMMA FinishKeeps ==
    ASSUME StoredInv, NEW out, NEW count \in Nat, NEW sockets \in [Selected -> LinkStates],
           FinishAll(out, count, sockets), started', ~cancelled,
           UNCHANGED <<surface, cancelled, storeFailed>>,
           seen' = count, ended' \subseteq Selected, tasks \subseteq tasks', TasksWillShow',
           \A t \in tasks' : /\ DOMAIN t = {"n", "row", "stage", "outcome", "view"}
                             /\ t.stage = "publish" => t \in tasks,
           count # seen => tasks' # {}
    PROVE  StoredInv'
<1>1. /\ stopped' /\ ~timeout'
      /\ link' \in [Selected -> LinkStates]
      /\ \A r \in Selected : link'[r] \notin Listening
      /\ surface = "header" \/ count > 0 => delivered' = delivered
      /\ surface # "header" /\ count = 0 => delivered' # "Loading"
  BY FinishFacts DEF StoredInv, StoredTyped
<1>2. StoredTyped' /\ StoredCanAnswer' /\ TasksOfARead' /\ HeaderShows'
  BY <1>1 DEF StoredInv, StoredTyped, StoredCanAnswer, TasksOfARead, HeaderShows
<1>3. SeenIsWorkedOn'
  BY <1>1 DEF StoredInv, SeenIsWorkedOn
<1>4. LoadingIsWorkedOn'
  BY <1>1, <1>2, <1>3 DEF StoredInv, HeaderShows, SeenIsWorkedOn, LoadingIsWorkedOn
<1> QED BY <1>2, <1>3, <1>4 DEF StoredInv

(* A listener hears only of a read that runs.                              *)
LEMMA ListeningRuns ==
    ASSUME StoredInv, NEW r \in Selected, link[r] \in Listening
    PROVE  started /\ ~stopped /\ ~cancelled /\ timeout /\ ended # Selected
BY DEF StoredInv, StoredCanAnswer, TasksOfARead

(* A relay ends: the read runs on while another one can answer.            *)
LEMMA RelayEndedKeeps ==
    ASSUME StoredInv, NEW r \in Selected, link[r] \in Listening, NEW end,
           NEW sockets \in [Selected -> LinkStates],
           \A q \in Selected \ {r} : sockets[q] = link[q],
           RelayEnded(r, end, sockets), Quiet
    PROVE  StoredInv'
<1>1. started /\ ~stopped /\ ~cancelled /\ timeout /\ ended # Selected
  BY ListeningRuns
<1>2. /\ UNCHANGED <<surface, started, cancelled, seen, tasks, spawned, db, storeFailed>>
      /\ ended' = ended \cup {r}
  BY DEF RelayEnded, Quiet
<1>3. TasksWillShow'
  BY <1>2 DEF StoredInv, TasksWillShow
<1>4. CASE (r \notin ended \/ surface # "timeline") /\ ended' = Selected
  <2>1. \E out : FinishAll(out, seen, sockets)
    BY <1>4 DEF RelayEnded
  <2>2. \A t \in tasks' : /\ DOMAIN t = {"n", "row", "stage", "outcome", "view"}
                          /\ t.stage = "publish" => t \in tasks
    BY <1>2 DEF StoredInv, StoredTyped
  <2> QED BY <1>1, <1>2, <1>3, <1>4, <2>1, <2>2, FinishKeeps DEF StoredInv, StoredTyped
<1>5. CASE ~((r \notin ended \/ surface # "timeline") /\ ended' = Selected)
  <2>1. link' = sockets /\ UNCHANGED <<stopped, timeout, delivered>>
    BY <1>5 DEF RelayEnded
  <2>2. ended' # Selected
    BY <1>1, <1>2, <1>5
  <2>3. StoredTyped' /\ StoredCanAnswer'
    BY <1>1, <1>2, <2>1, <2>2 DEF StoredInv, StoredTyped, StoredCanAnswer
  <2>4. TasksOfARead' /\ HeaderShows' /\ SeenIsWorkedOn' /\ LoadingIsWorkedOn'
    BY <1>1, <1>2, <2>1
       DEF StoredInv, TasksOfARead, HeaderShows, SeenIsWorkedOn, LoadingIsWorkedOn
  <2> QED BY <1>3, <2>3, <2>4 DEF StoredInv
<1> QED BY <1>4, <1>5

-----------------------------------------------------------------------------
(* The handlers of a read *)

LEMMA StartKeeps ==
    ASSUME StoredInv, NEW bad \in SUBSET Selected, StartStored(bad) PROVE StoredInv'
<1> DEFINE sockets == [r \in Selected |-> IF r \in bad THEN "none" ELSE "connecting"]
<1>1. /\ ~started /\ ~cancelled /\ started' /\ ended' = bad
      /\ UNCHANGED <<surface, cancelled, outcome, seen, tasks, spawned, db, storeFailed>>
  BY DEF StartStored
<1>2. sockets \in [Selected -> LinkStates] /\ tasks = {}
  BY <1>1 DEF LinkStates, StoredInv, TasksOfARead
<1>3. TasksWillShow'
  BY <1>1 DEF StoredInv, TasksWillShow
<1>4. CASE bad = Selected
  <2>1. FinishAll(outcome, 0, sockets)
    BY <1>4 DEF StartStored
  <2>2. /\ stopped' /\ ~timeout'
        /\ link' \in [Selected -> LinkStates]
        /\ \A r \in Selected : link'[r] \notin Listening
        /\ surface = "header" => delivered' = delivered
        /\ surface # "header" => delivered' # "Loading"
    <3> HIDE DEF sockets
    <3> QED BY <1>1, <1>2, <2>1, FinishFacts DEF StoredInv, StoredTyped
  <2>3. StoredTyped' /\ StoredCanAnswer' /\ TasksOfARead' /\ HeaderShows'
    BY <1>1, <2>2 DEF StoredInv, StoredTyped, StoredCanAnswer, TasksOfARead, HeaderShows
  <2>4. SeenIsWorkedOn' /\ LoadingIsWorkedOn'
    BY <1>1, <2>2, <2>3 DEF HeaderShows, SeenIsWorkedOn, LoadingIsWorkedOn
  <2> QED BY <1>3, <2>3, <2>4 DEF StoredInv
<1>5. CASE bad # Selected
  <2>1. timeout' = TRUE /\ link' = sockets /\ UNCHANGED <<stopped, delivered>> /\ ~stopped
    BY <1>1, <1>5 DEF StartStored, StoredInv, TasksOfARead
  <2>2. StoredTyped' /\ StoredCanAnswer'
    BY <1>1, <1>2, <1>5, <2>1 DEF StoredInv, StoredTyped, StoredCanAnswer
  <2>3. TasksOfARead' /\ HeaderShows' /\ SeenIsWorkedOn' /\ LoadingIsWorkedOn'
    BY <1>1, <2>1 DEF StoredInv, TasksOfARead, HeaderShows, SeenIsWorkedOn, LoadingIsWorkedOn
  <2> QED BY <1>3, <2>2, <2>3 DEF StoredInv
<1> QED BY <1>4, <1>5

LEMMA RelayEndsKeeps ==
    ASSUME StoredInv, NEW r \in Selected, RelayEnds(r) PROVE StoredInv'
<1>1. link \in [Selected -> LinkStates]
  BY DEF StoredInv, StoredTyped
<1>2. ASSUME NEW state \in LinkStates
      PROVE  /\ [link EXCEPT ![r] = state] \in [Selected -> LinkStates]
             /\ \A q \in Selected \ {r} : [link EXCEPT ![r] = state][q] = link[q]
  BY <1>1
<1>3. ASSUME NEW state \in LinkStates, NEW end, link[r] \in Listening,
             RelayEnded(r, end, [link EXCEPT ![r] = state]), Quiet
      PROVE  StoredInv'
  <2> DEFINE sockets == [link EXCEPT ![r] = state]
  <2>1. /\ sockets \in [Selected -> LinkStates]
        /\ \A q \in Selected \ {r} : sockets[q] = link[q]
        /\ RelayEnded(r, end, sockets)
    BY <1>2, <1>3
  <2> HIDE DEF sockets
  <2> QED BY <1>3, <2>1, RelayEndedKeeps
<1>4. CASE LinkOpened(r)
  <2>1. link[r] \in Listening /\ Quiet
    BY <1>4 DEF LinkOpened, Listening
  <2>2. CASE RelayEnded(r, "Failed", [link EXCEPT ![r] = "failing"])
    BY <1>3, <2>1, <2>2 DEF LinkStates
  <2>3. CASE /\ link' = [link EXCEPT ![r] = "open"]
             /\ UNCHANGED <<ended, outcome, stopped, timeout, delivered>>
    <3>1. /\ UNCHANGED <<surface, started, cancelled, seen, tasks, db, storeFailed>>
          /\ link' \in [Selected -> LinkStates]
      BY <1>1, <2>1, <2>3 DEF Quiet, LinkStates
    <3>2. StoredTyped' /\ TasksOfARead' /\ TasksWillShow' /\ HeaderShows'
          /\ SeenIsWorkedOn' /\ LoadingIsWorkedOn'
      BY <2>3, <3>1 DEF StoredInv, StoredTyped, TasksOfARead, TasksWillShow, HeaderShows,
                        SeenIsWorkedOn, LoadingIsWorkedOn
    <3>3. StoredCanAnswer'
      BY <1>1, <2>1, <2>3, <3>1, ListeningRuns DEF StoredInv, StoredCanAnswer
    <3> QED BY <3>2, <3>3 DEF StoredInv
  <2> QED BY <1>4, <2>2, <2>3 DEF LinkOpened
<1>5. CASE LinkMessage(r)
  <2>1. link[r] \in Listening /\ Quiet /\ \E end : RelayEnded(r, end, link)
    BY <1>5 DEF LinkMessage, Listening
  <2> QED BY <1>1, <2>1, RelayEndedKeeps
<1>6. CASE LinkError(r)
  BY <1>3, <1>6 DEF LinkError, Listening, LinkStates
<1>7. CASE LinkClosed(r)
  BY <1>3, <1>7 DEF LinkClosed, LinkStates
<1> QED BY <1>4, <1>5, <1>6, <1>7 DEF RelayEnds

(* What a new task adds.                                                   *)
LEMMA SpawnFacts ==
    ASSUME StoredInv, NEW row, NEW out, Spawn(row, out),
           UNCHANGED <<surface, db, storeFailed>>,
           surface = "followees" => row = "follow",
           surface = "timeline" => row \in {"follow", "note"}
    PROVE  /\ tasks \subseteq tasks' /\ tasks' # {}
           /\ TasksWillShow'
           /\ \A t \in tasks' : /\ DOMAIN t = {"n", "row", "stage", "outcome", "view"}
                                /\ t.stage = "publish" => t \in tasks
<1> DEFINE new == [n |-> spawned + 1, row |-> row, stage |-> "store",
                   outcome |-> out, view |-> delivered]
<1>1. tasks' = tasks \cup {new}
  BY DEF Spawn
<1>2. /\ new.row = row /\ new.stage = "store"
      /\ DOMAIN new = {"n", "row", "stage", "outcome", "view"}
  OBVIOUS
<1> HIDE DEF new
<1>3. TasksWillShow'
  BY <1>1, <1>2 DEF StoredInv, TasksWillShow
<1> QED BY <1>1, <1>2, <1>3 DEF StoredInv, StoredTyped

(* An event that does not end the read.                                    *)
LEMMA EventKeeps ==
    ASSUME StoredInv, NEW r \in Selected, link[r] \in Listening,
           UNCHANGED <<surface, started, cancelled, ended, stopped, timeout, link,
                       delivered, storeFailed>>,
           seen' \in Nat, tasks \subseteq tasks', tasks' # {}, TasksWillShow',
           \A t \in tasks' : /\ DOMAIN t = {"n", "row", "stage", "outcome", "view"}
                             /\ t.stage = "publish" => t \in tasks
    PROVE  StoredInv'
<1>1. started /\ ~stopped /\ ~cancelled /\ timeout /\ ended # Selected
  BY ListeningRuns
<1>2. StoredTyped' /\ StoredCanAnswer'
  BY DEF StoredInv, StoredTyped, StoredCanAnswer
<1>3. TasksOfARead' /\ HeaderShows' /\ SeenIsWorkedOn' /\ LoadingIsWorkedOn'
  BY <1>1 DEF StoredInv, TasksOfARead, HeaderShows, SeenIsWorkedOn, LoadingIsWorkedOn
<1> QED BY <1>2, <1>3 DEF StoredInv

LEMMA ReadKeeps ==
    ASSUME StoredInv, NEW r \in Selected, StoredStep(r) PROVE StoredInv'
<1>1. seen \in Nat /\ link \in [Selected -> LinkStates] /\ ended \subseteq Selected
  BY DEF StoredInv, StoredTyped
<1>2. CASE RelayEnds(r)
  BY <1>2, RelayEndsKeeps
<1>3. ASSUME link[r] = "open"
      PROVE  /\ link[r] \in Listening
             /\ started /\ ~stopped /\ ~cancelled
  BY <1>3, ListeningRuns DEF Listening
<1>4. CASE surface = "followees" /\ FolloweesEvent(r) /\ Rest
  <2>1. /\ link[r] = "open" /\ seen' = seen + 1 /\ UNCHANGED <<ended, outcome>>
        /\ Spawn("follow", outcome) /\ FinishAll(outcome, seen + 1, link)
        /\ UNCHANGED <<surface, started, cancelled, db, storeFailed>>
    BY <1>4 DEF FolloweesEvent, Rest
  <2>2. /\ tasks \subseteq tasks' /\ tasks' # {} /\ TasksWillShow'
        /\ \A t \in tasks' : /\ DOMAIN t = {"n", "row", "stage", "outcome", "view"}
                             /\ t.stage = "publish" => t \in tasks
    BY <1>4, <2>1, SpawnFacts
  <2>3. seen + 1 \in Nat
    BY <1>1
  <2> QED BY <1>1, <1>3, <2>1, <2>2, <2>3, FinishKeeps
<1>5. CASE surface = "timeline" /\ TimelineEvent(r) /\ Rest
  <2>1. /\ link[r] = "open"
        /\ UNCHANGED <<surface, started, cancelled, db, storeFailed>>
    BY <1>5 DEF TimelineEvent, Rest
  <2>2. CASE /\ seen' = seen + 1 /\ ended' = ended \cup {r}
             /\ Spawn("follow", outcome')
             /\ FinishAll(outcome', seen + 1, link)
    <3>1. /\ tasks \subseteq tasks' /\ tasks' # {} /\ TasksWillShow'
          /\ \A t \in tasks' : /\ DOMAIN t = {"n", "row", "stage", "outcome", "view"}
                               /\ t.stage = "publish" => t \in tasks
      BY <1>5, <2>1, <2>2, SpawnFacts
    <3>2. seen + 1 \in Nat /\ ended' \subseteq Selected
      BY <1>1, <2>2
    <3> QED BY <1>1, <1>3, <2>1, <2>2, <3>1, <3>2, FinishKeeps
  <2>3. CASE /\ Spawn("note", outcome)
             /\ UNCHANGED <<seen, ended, outcome, stopped, timeout, link, delivered>>
    <3>1. /\ tasks \subseteq tasks' /\ tasks' # {} /\ TasksWillShow'
          /\ \A t \in tasks' : /\ DOMAIN t = {"n", "row", "stage", "outcome", "view"}
                               /\ t.stage = "publish" => t \in tasks
      BY <1>5, <2>1, <2>3, SpawnFacts
    <3> QED BY <1>1, <1>3, <2>1, <2>3, <3>1, EventKeeps
  <2> QED BY <1>5, <2>2, <2>3 DEF TimelineEvent
<1>6. CASE surface = "header" /\ HeaderEvent(r) /\ Rest
  <2>1. /\ link[r] = "open" /\ seen' = seen + 1 /\ UNCHANGED <<ended, outcome>>
        /\ Spawn("profile", outcome)
        /\ UNCHANGED <<surface, started, cancelled, db, storeFailed>>
        /\ \/ FinishAll(outcome, seen + 1, link)
           \/ UNCHANGED <<stopped, timeout, link, delivered>>
    BY <1>6 DEF HeaderEvent, Rest
  <2>2. /\ tasks \subseteq tasks' /\ tasks' # {} /\ TasksWillShow'
        /\ \A t \in tasks' : /\ DOMAIN t = {"n", "row", "stage", "outcome", "view"}
                             /\ t.stage = "publish" => t \in tasks
    BY <1>6, <2>1, SpawnFacts
  <2>3. seen + 1 \in Nat
    BY <1>1
  <2> QED BY <1>1, <1>3, <2>1, <2>2, <2>3, FinishKeeps, EventKeeps
<1> QED BY <1>2, <1>4, <1>5, <1>6 DEF StoredStep, FolloweesRead, TimelineRead, HeaderRead

LEMMA TimesOutKeeps == ASSUME StoredInv, TimesOut PROVE StoredInv'
<1>1. timeout /\ ended' = ended /\ Quiet /\ \E out : FinishAll(out, seen, link)
  BY DEF TimesOut
<1>2. started /\ ~cancelled
  BY <1>1 DEF StoredInv, StoredCanAnswer, TasksOfARead
<1>3. TasksWillShow'
  BY <1>1 DEF Quiet, StoredInv, TasksWillShow
<1>4. \A t \in tasks' : /\ DOMAIN t = {"n", "row", "stage", "outcome", "view"}
                        /\ t.stage = "publish" => t \in tasks
  BY <1>1 DEF Quiet, StoredInv, StoredTyped
<1>5. /\ seen \in Nat /\ link \in [Selected -> LinkStates] /\ ended' \subseteq Selected
      /\ UNCHANGED <<surface, started, cancelled, seen, tasks, db, storeFailed>>
  BY <1>1 DEF Quiet, StoredInv, StoredTyped
<1> QED BY <1>1, <1>2, <1>3, <1>4, <1>5, FinishKeeps

LEMMA CancelKeeps == ASSUME StoredInv, CancelStored PROVE StoredInv'
<1>1. /\ ~cancelled /\ cancelled'
      /\ UNCHANGED <<surface, started, ended, outcome, seen, tasks, spawned, db, delivered,
                     storeFailed>>
  BY DEF CancelStored
<1>2. TasksWillShow' /\ HeaderShows' /\ SeenIsWorkedOn' /\ LoadingIsWorkedOn'
  BY <1>1 DEF StoredInv, TasksWillShow, HeaderShows, SeenIsWorkedOn, LoadingIsWorkedOn
<1>3. CASE started /\ ~stopped
  <2>1. stopped' /\ CloseLinks(link)
    BY <1>3 DEF CancelStored
  <2>2. /\ ~timeout' /\ link' \in [Selected -> LinkStates]
        /\ \A r \in Selected : link'[r] \notin Listening
    BY <2>1 DEF CloseLinks, StoredInv, StoredTyped, LinkStates, Listening
  <2>3. StoredTyped' /\ StoredCanAnswer' /\ TasksOfARead'
    BY <1>1, <1>3, <2>1, <2>2 DEF StoredInv, StoredTyped, StoredCanAnswer, TasksOfARead
  <2> QED BY <1>2, <2>3 DEF StoredInv
<1>4. CASE ~(started /\ ~stopped)
  <2>1. UNCHANGED <<stopped, timeout, link>>
    BY <1>4 DEF CancelStored
  <2>2. StoredTyped' /\ StoredCanAnswer' /\ TasksOfARead'
    BY <1>1, <1>4, <2>1 DEF StoredInv, StoredTyped, StoredCanAnswer, TasksOfARead
  <2> QED BY <1>2, <2>2 DEF StoredInv
<1> QED BY <1>3, <1>4

-----------------------------------------------------------------------------
(* The tasks *)

(* The parts of the invariant a task leaves as they are.                   *)
LEMMA TaskFrame ==
    ASSUME StoredInv, tasks # {}, SameRead,
           \A t \in tasks' : DOMAIN t = {"n", "row", "stage", "outcome", "view"}
    PROVE  StoredTyped' /\ StoredCanAnswer' /\ TasksOfARead'
BY DEF SameRead, StoredInv, StoredTyped, StoredCanAnswer, TasksOfARead

LEMMA StoreDoneKeeps ==
    ASSUME StoredInv, NEW t \in tasks, NEW ok \in BOOLEAN, StoreDone(t, ok)
    PROVE  StoredInv'
<1> DEFINE new == [t EXCEPT !.stage = "load"]
<1>1. /\ t.stage = "store" /\ delivered' = delivered /\ SameRead
      /\ db' = IF ok THEN db \cup {t.row} ELSE db
      /\ storeFailed' = (storeFailed \/ ~ok)
      /\ tasks' = (tasks \ {t}) \cup (IF cancelled THEN {} ELSE {new})
  BY DEF StoreDone
<1>2. DOMAIN t = {"n", "row", "stage", "outcome", "view"}
  BY DEF StoredInv, StoredTyped
<1>3. /\ new.stage = "load" /\ new.row = t.row
      /\ DOMAIN new = {"n", "row", "stage", "outcome", "view"}
  BY <1>2
<1> HIDE DEF new
<1>4. UNCHANGED <<surface, started, stopped, cancelled, seen>>
  BY <1>1 DEF SameRead
<1>5. \A u \in tasks' : /\ DOMAIN u = {"n", "row", "stage", "outcome", "view"}
                        /\ u \in tasks \/ u = new
  BY <1>1, <1>3 DEF StoredInv, StoredTyped
<1>6. TasksWillShow' /\ HeaderShows'
  BY <1>1, <1>3, <1>4, <1>5 DEF StoredInv, TasksWillShow, HeaderShows
<1>7. SeenIsWorkedOn' /\ LoadingIsWorkedOn'
  BY <1>1, <1>4 DEF StoredInv, SeenIsWorkedOn, LoadingIsWorkedOn
<1>8. StoredTyped' /\ StoredCanAnswer' /\ TasksOfARead'
  BY <1>1, <1>5, TaskFrame
<1> QED BY <1>6, <1>7, <1>8 DEF StoredInv

LEMMA ModelReadKeeps ==
    ASSUME StoredInv, NEW t \in tasks, NEW ok \in BOOLEAN, ModelRead(t, ok)
    PROVE  StoredInv'
<1> DEFINE view == IF ok \/ surface = "header" THEN Model(t) ELSE "Failure"
           new  == [t EXCEPT !.stage = "publish", !.view = view]
<1>1. /\ t.stage = "load" /\ UNCHANGED <<db, delivered>> /\ SameRead
      /\ storeFailed' = (storeFailed \/ ~ok)
      /\ tasks' = (tasks \ {t}) \cup {new}
  BY DEF ModelRead
<1>2. DOMAIN t = {"n", "row", "stage", "outcome", "view"}
  BY DEF StoredInv, StoredTyped
<1>3. surface = "header" => view = "Header"
  BY DEF Model
<1>4. ~storeFailed => view # "Loading"
  <2>1. ~storeFailed => Model(t) # "Loading"
    BY <1>1, StoredModelShows DEF StoredInv, StoredTyped, TasksWillShow
  <2> QED BY <2>1
<1> HIDE DEF view
<1>5. /\ new.stage = "publish" /\ new.row = t.row /\ new.view = view
      /\ DOMAIN new = {"n", "row", "stage", "outcome", "view"}
  BY <1>2
<1> HIDE DEF new
<1>6. UNCHANGED <<surface, started, stopped, cancelled, seen>>
  BY <1>1 DEF SameRead
<1>7. \A u \in tasks' : /\ DOMAIN u = {"n", "row", "stage", "outcome", "view"}
                        /\ u \in tasks \/ u = new
  BY <1>1, <1>5 DEF StoredInv, StoredTyped
<1>8. TasksWillShow' /\ HeaderShows'
  BY <1>1, <1>3, <1>4, <1>5, <1>6, <1>7 DEF StoredInv, TasksWillShow, HeaderShows
<1>9. SeenIsWorkedOn' /\ LoadingIsWorkedOn'
  BY <1>1, <1>6 DEF StoredInv, SeenIsWorkedOn, LoadingIsWorkedOn
<1>10. StoredTyped' /\ StoredCanAnswer' /\ TasksOfARead'
  BY <1>1, <1>7, TaskFrame
<1> QED BY <1>8, <1>9, <1>10 DEF StoredInv

LEMMA PublishKeeps ==
    ASSUME StoredInv, NEW t \in tasks, PublishStored(t) PROVE StoredInv'
<1>1. /\ t.stage = "publish" /\ tasks' = tasks \ {t} /\ UNCHANGED <<db, storeFailed>>
      /\ SameRead /\ delivered' = IF cancelled THEN delivered ELSE t.view
  BY DEF PublishStored, DeliverView
<1>2. UNCHANGED <<surface, started, stopped, cancelled, seen>>
  BY <1>1 DEF SameRead
<1>3. TasksWillShow' /\ HeaderShows'
  BY <1>1, <1>2 DEF StoredInv, TasksWillShow, HeaderShows
<1>4. ~cancelled /\ ~storeFailed => delivered' # "Loading"
  BY <1>1 DEF StoredInv, TasksWillShow
<1>5. SeenIsWorkedOn' /\ LoadingIsWorkedOn'
  BY <1>1, <1>2, <1>4 DEF StoredInv, SeenIsWorkedOn, LoadingIsWorkedOn
<1>6. StoredTyped' /\ StoredCanAnswer' /\ TasksOfARead'
  BY <1>1, TaskFrame DEF StoredInv, StoredTyped
<1> QED BY <1>3, <1>5, <1>6 DEF StoredInv

-----------------------------------------------------------------------------
LEMMA StoredStarts == StoredInit => StoredInv
<1> SUFFICES ASSUME StoredInit PROVE StoredInv OBVIOUS
<1>1. StoredTyped /\ StoredCanAnswer
  BY StoredAssumption DEF StoredInit, StoredTyped, StoredCanAnswer, LinkStates, Listening
<1>2. TasksOfARead /\ TasksWillShow /\ HeaderShows /\ SeenIsWorkedOn /\ LoadingIsWorkedOn
  BY DEF StoredInit, TasksOfARead, TasksWillShow, HeaderShows, SeenIsWorkedOn, LoadingIsWorkedOn
<1> QED BY <1>1, <1>2 DEF StoredInv

LEMMA StoredKept == StoredInv /\ [StoredNext]_storedVars => StoredInv'
<1> SUFFICES ASSUME StoredInv, [StoredNext]_storedVars PROVE StoredInv' OBVIOUS
<1>1. ASSUME NEW bad \in SUBSET Selected, StartStored(bad) PROVE StoredInv'
  BY <1>1, StartKeeps
<1>2. ASSUME NEW r \in Selected, StoredStep(r) PROVE StoredInv'
  BY <1>2, ReadKeeps
<1>3. CASE TimesOut \/ CancelStored
  BY <1>3, TimesOutKeeps, CancelKeeps
<1>4. CASE TaskStep
  BY <1>4, StoreDoneKeeps, ModelReadKeeps, PublishKeeps DEF TaskStep
<1>5. CASE UNCHANGED storedVars
  <2>1. StoredTyped' /\ StoredCanAnswer' /\ TasksOfARead'
    BY <1>5 DEF storedVars, StoredInv, StoredTyped, StoredCanAnswer, TasksOfARead
  <2>2. TasksWillShow' /\ HeaderShows' /\ SeenIsWorkedOn' /\ LoadingIsWorkedOn'
    BY <1>5 DEF storedVars, StoredInv, TasksWillShow, HeaderShows, SeenIsWorkedOn,
                LoadingIsWorkedOn
  <2> QED BY <2>1, <2>2 DEF StoredInv
<1> QED BY <1>1, <1>2, <1>3, <1>4, <1>5 DEF StoredNext

(* Whatever the order of relays, store and tasks, a surface that shows     *)
(* Loading has a read or a task under way, unless the store failed a task. *)
THEOREM LoadingHasWork == StoredSpec => []LoadingIsWorkedOn
<1>1. StoredInv => LoadingIsWorkedOn
  BY DEF StoredInv
<1> QED BY <1>1, StoredStarts, StoredKept, PTL DEF StoredSpec

(* A handler runs only while the read does, and a task outlives the read,  *)
(* but delivers nothing once it was released.                              *)
LEMMA StoredStepKeepsContract ==
    StoredInv /\ [StoredNext]_storedVars => [StoredContract!Next]_(StoredContract!vars)
<1> SUFFICES ASSUME StoredInv, [StoredNext]_storedVars
             PROVE  [StoredContract!Next]_(StoredContract!vars)
  OBVIOUS
<1> USE DEF StoredContract!Next, StoredContract!vars, StoredContract!Begin,
            StoredContract!Update, StoredContract!Settle, StoredContract!Release
<1>1. ASSUME NEW bad \in SUBSET Selected, StartStored(bad)
      PROVE  StoredContract!Begin
  BY <1>1 DEF StartStored
<1>2. ASSUME started, ~stopped, ~cancelled, started', cancelled' = cancelled
      PROVE  StoredContract!Update \/ StoredContract!Settle
  BY <1>2
<1>3. ASSUME NEW r \in Selected, StoredStep(r)
      PROVE  [StoredContract!Next]_(StoredContract!vars)
  <2>1. link[r] \in Listening
    BY <1>3 DEF StoredStep, FolloweesRead, TimelineRead, HeaderRead, FolloweesEvent,
                TimelineEvent, HeaderEvent, RelayEnds, LinkOpened, LinkMessage, LinkError,
                LinkClosed, Listening
  <2>2. UNCHANGED <<started, cancelled>>
    BY <1>3 DEF StoredStep, FolloweesRead, TimelineRead, HeaderRead, RelayEnds, LinkOpened,
                LinkMessage, LinkError, LinkClosed, Quiet, Rest
  <2> QED BY <1>2, <2>1, <2>2, ListeningRuns
<1>4. CASE TimesOut
  <2>1. started /\ ~stopped /\ ~cancelled
    BY <1>4 DEF TimesOut, StoredInv, StoredCanAnswer, TasksOfARead
  <2> QED BY <1>2, <1>4, <2>1 DEF TimesOut, Quiet
<1>5. CASE CancelStored
  BY <1>5 DEF CancelStored
<1>6. CASE TaskStep
  <2>1. tasks # {} /\ started /\ UNCHANGED <<started, stopped, cancelled>>
    BY <1>6 DEF TaskStep, StoreDone, ModelRead, PublishStored, SameRead, StoredInv, TasksOfARead
  <2>2. cancelled => delivered' = delivered
    BY <1>6 DEF TaskStep, StoreDone, ModelRead, PublishStored, DeliverView
  <2> QED BY <2>1, <2>2
<1>7. CASE UNCHANGED storedVars
  BY <1>7 DEF storedVars
<1> QED BY <1>1, <1>3, <1>4, <1>5, <1>6, <1>7 DEF StoredNext

(* The reads through the store keep the contract of every relay read.      *)
THEOREM StoredReadKeepsContract == StoredSpec => StoredKeepsContract
<1>1. StoredInit => StoredContract!Init
  BY StoredAssumption DEF StoredInit, StoredContract!Init
<1> QED BY <1>1, StoredStarts, StoredKept, StoredStepKeepsContract, PTL
        DEF StoredSpec, StoredKeepsContract, StoredContract!Spec
=============================================================================
